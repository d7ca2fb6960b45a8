SPECIFICATION FairSpec
CONSTANTS
  c1 = c1
  c2 = c2
  x1 = x1
  x2 = x2
  x3 = x3
  Servers = {"uring"}
  UringSends <- OneEach
INVARIANT OwnEcho
CHECK_DEADLOCK FALSE

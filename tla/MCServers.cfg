SPECIFICATION FairSpec
CONSTANTS
  c1 = c1
  c2 = c2
  x1 = x1
  x2 = x2
  x3 = x3
  Servers = {"echo", "web", "web2", "websocket", "uring", "poll", "reader", "threads"}
  UringSends <- TwoOfOne
INVARIANTS
  EventsHold
  RightAnswers
  OnlyRudeCrash
  OneUnderWay
  ReadersSound
PROPERTIES
  AllServed
  AllTaken
CHECK_DEADLOCK FALSE

SPECIFICATION Spec
CONSTANTS
  IKCP_WND_RCV = 3
  sndwnd = 2
  rcvwnd = 2
  fastresend = 1
  fastlimit = 1
  nocwnd = FALSE
  MTU = 2
  SnSpace = 16
  Start = 14
  Senders = {1}
  MaxMsg = 2
  MaxFrag = 4
  NetBound = 2
  AckBound = 2
INVARIANTS
  TypeOK
  NothingLost
  WindowsRespected
  WholeMessageFits
PROPERTIES
  NeverTakenBack
  ImplementsMessageStream

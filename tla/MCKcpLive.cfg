SPECIFICATION LiveSpec
CONSTANTS
  IKCP_WND_RCV = 2
  sndwnd = 2
  rcvwnd = 2
  fastresend = 0
  fastlimit = 0
  nocwnd = FALSE
  MTU = 1
  SnSpace = 16
  Start = 14
  Senders = {1}
  MaxMsg = 3
  MaxFrag = 1
  NetBound = 2
  AckBound = 1
PROPERTY EverythingArrives

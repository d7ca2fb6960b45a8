SPECIFICATION LocksSpec
CONSTANTS
  PTHREADCOUNT = 2
  NUMBER = 2
INVARIANT EveryAddCounts

SPECIFICATION FairSpec
CONSTANTS
  numWorkers = 3
  TASKSIZE = 2
  Garbage = {FALSE}
INVARIANTS
  TypeOK
  TaskListHasOneWriter
  TakeFindsTask
  NoLostWakeup
  MarkedWorkerExists
PROPERTIES
  NothingStartsAfterDestory
  ImplementsTaskPool
  PushedTaskRuns
  DestoryReturns

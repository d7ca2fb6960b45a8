SPECIFICATION Spec
CONSTANTS
  numWorkers = 2
  TASKSIZE = 2
  Garbage = {FALSE, TRUE}
INVARIANT StopsOnlyOnDestory

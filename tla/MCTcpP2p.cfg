SPECIFICATION FairSpec
CONSTANTS
  BindFails = {FALSE}
  MaxTyped <- Typed
  Room = 1
INVARIANTS
  TypeOK
  Conveyed
PROPERTIES
  Meet
  Arrives
CHECK_DEADLOCK FALSE

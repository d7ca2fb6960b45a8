SPECIFICATION Spec
CONSTANTS
  Client = {c1, c2}
  MaxLines = 2
  MaxAlive = 1
  MaxJoins = 2
SYMMETRY Clients
INVARIANT ShownAsSent
CHECK_DEADLOCK FALSE

SPECIFICATION Spec
CONSTANTS
  Index = {0}
  MaxNode = 3
  Name = {n1, n2}
INVARIANT LoadInserts

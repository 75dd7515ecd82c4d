SPECIFICATION Spec
CONSTANTS
  Name = {n1, n2}
  MaxFaults = 0
INVARIANT NoEditsLost

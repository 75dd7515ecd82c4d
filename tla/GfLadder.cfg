SPECIFICATION LadderSpec
CONSTANTS
  Half = 2
  Poly = {0, 3, 4}
INVARIANTS
  ProductExact
  LadderExact
  DivisionInverts
CHECK_DEADLOCK FALSE

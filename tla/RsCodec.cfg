SPECIFICATION Spec
CONSTANTS
  Half = 1
  Poly = {0, 1, 2}
  Cap = 4
  N = 3
  MaxCorrupt = 1
INVARIANTS
  Interpolates
  Decodes
  DamageSpreads
  EvaluatorsAgree
  EncodingLinear
CHECK_DEADLOCK FALSE

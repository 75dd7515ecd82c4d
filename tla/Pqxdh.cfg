SPECIFICATION Spec
CONSTANTS
  Party = {alice, bob}
  Run = {n1, n2}
  PreKeyId = {i1}
  None = None
  MaxAccepts = 2
INVARIANTS TypeOK HonestRunsAgree ViewsMatch TranscriptBound KeysSeparate KeysProtected
CHECK_DEADLOCK FALSE

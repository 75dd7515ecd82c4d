\* Two output keys in use, a counter that wraps, one damaged copy.
CONSTANTS
  U32 = 2
  SecretLen = 192
  Lens = {0, 56, 1536}
  MaxSteps = 3
  MaxSealed = 2
  MaxDamaged = 1
SPECIFICATION Spec
INVARIANTS
  OpensExactlyWhatWasSealed
  KeysNeverRepeat
  ForwardSecret
  BuffersHold
CHECK_DEADLOCK FALSE

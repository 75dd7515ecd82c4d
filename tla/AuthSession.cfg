\* Every order of sending and delivery, one chunk damaged; fair sending and delivery.
SPECIFICATION FairSpec
CONSTANTS
  Need = 2
  Chunks = 2
  MaxCorrupt = 1
  U32 = 2
INVARIANTS
  TypeOK
  PhasesAgree
  OneRound
  KeysGenuine
  OnlyDamageRejected
  MacsDecide
PROPERTIES
  RoundsSpec
  RoundCompletes

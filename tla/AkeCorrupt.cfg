CONSTANTS
  Bits = {2}
  NParties = 2
  MaxSessions = 2
SPECIFICATION Spec
INVARIANTS
  PartnersOnRecord
  PeerDerivesKey
  PartnersShareKey
  ScoredIsUnspoilt
PROPERTY RefinesGame
CHECK_DEADLOCK FALSE

\* Fair sending and delivery over an undamaged network.
SPECIFICATION FairSpec
CONSTANTS
  Need = 1
  Chunks = 1
  MaxCorrupt = 0
PROPERTY NewRoundStarts

CONSTANTS
  Bits = {2}
  PublicKeys = {{}, {2}}
  MaxSessions = 2
SPECIFICATION Spec
INVARIANT ChallengesInTable
CHECK_DEADLOCK FALSE

\* Every interleaving of two agents with one kill; fair scripts and re-runs.
SPECIFICATION FairSpec
CONSTANTS
  Name = {n1, n2}
  MaxFaults = 1
INVARIANTS
  TypeOK
  CommitsKept
  EditsKept
  ListedHasBranch
  SharesBoth
PROPERTIES
  PruneScoped
  Finishes

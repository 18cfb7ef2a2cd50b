\* Three seeds, two of them sampled; the vault may die once by itself.
SPECIFICATION FairSpec
CONSTANTS
  Seeds = 3
  Samples = 2
  MaxPolls = 2
  MaxDeaths = 1
  Nil = Nil
CHECK_DEADLOCK FALSE
INVARIANTS
  PassMeansKept
  StrictExit
PROPERTY
  DrillEnds

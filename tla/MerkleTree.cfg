\* Every list of a plain and a node-shaped payload up to eight leaves.
SPECIFICATION Spec
CONSTANTS
  Data <- MCData
  MaxLeaves = 8
INVARIANTS
  RootIsRFC6962
  RootBindsLeaves
  ProofSound
  PerfectProofs
CHECK_DEADLOCK FALSE

\* Trees whose size is not a power of two.
SPECIFICATION Spec
CONSTANTS
  Data <- MCData
  MaxLeaves = 8
INVARIANT
  ProofComplete
CHECK_DEADLOCK FALSE

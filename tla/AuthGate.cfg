\* Every combination of settings, every defect of a token, rotation, outages.
SPECIFICATION FairSpec
CONSTANTS
  Environments <- MCEnvironments
  Tokens <- MCMany
  Keys = {k1, k2}
  Forged = Forged
  Nil = Nil
  Routes = 2
  DefaultAttempts = 2
INVARIANTS
  AccessJustified
  FailClosed
  CiTokensServed
PROPERTY
  StartupSettles

\* The provider is down during startup and stays up afterwards.
SPECIFICATION FairSpec
CONSTANTS
  Environments <- MCStrict
  Tokens <- MCFew
  Keys = {k1}
  Forged = Forged
  Nil = Nil
  Routes = 2
  DefaultAttempts = 2
PROPERTY
  JwksRecovers

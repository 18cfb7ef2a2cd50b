\* memStore, a database with one and with two replicas; two faults.
SPECIFICATION FairSpec
CONSTANTS
  Ids = {e1, e2}
  r1 = r1
  r2 = r2
  Replicas = {r1, r2}
  Deployments <- MCDeployments
  MaxFaults = 2
  Absent = Absent
  Nil = Nil
INVARIANTS
  StTypeOK
  LockDiscipline
  AckedKept
  ReadsAgree
PROPERTIES
  StoreAppendOnly
  StoreImplementsLog
  SavedCommitted

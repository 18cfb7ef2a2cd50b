\* Two clients, two records: every overlap of two requests and the committer,
\* whose loop never ends.
SPECIFICATION EvFairSpec
CONSTANTS
  Ids = {e1, e2}
  Clients = {c1, c2}
  Absent = Absent
  Nil = Nil
INVARIANTS
  EvTypeOK
  HeldRecords
  LeavesExact
  AuditExact
  DisclosedFinal
  AuditViewsPrefix
PROPERTIES
  AppendOnly
  ImplementsLog
  EventuallyCommitted

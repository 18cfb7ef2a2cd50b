\* Two overlapping checkpoint requests, two leaves.
SPECIFICATION CpFairSpec
CONSTANTS
  Ids = {e1, e2}
  Clients = {c1}
  Builders = {b1, b2}
  Keys = {k1}
  VerifyKey = k1
  NoKey = NoKey
  Dev = Dev
  Absent = Absent
  Nil = Nil
INVARIANTS
  CpTypeOK
  OrderMatchesHistory
  CheckpointsCovered
  HistoryIncludesBuilt
PROPERTIES
  HistoryGrows
  SettledFinal
  RequestsAnswered

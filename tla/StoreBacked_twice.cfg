\* Two replicas over one database: two transactions read the same maximum.
SPECIFICATION Spec
CONSTANTS
  Ids = {e1, e2}
  r1 = r1
  r2 = r2
  Replicas = {r1, r2}
  Deployments <- MCShared
  MaxFaults = 0
  Absent = Absent
  Nil = Nil
INVARIANT
  StoreLeavesExact

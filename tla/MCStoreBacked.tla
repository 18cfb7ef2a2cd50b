---------------------------- MODULE MCStoreBacked ----------------------------
(* Instances of StoreBacked for TLC.                                         *)
EXTENDS StoreBacked, TLC

CONSTANTS r1, r2

\* memStore, one replica over a database, two of them.
MCDeployments ==
  {[kind |-> "mem", replicas |-> {r1}], [kind |-> "pg", replicas |-> {r1}],
   [kind |-> "pg", replicas |-> {r1, r2}]}

MCShared == {[kind |-> "pg", replicas |-> {r1, r2}]}
=============================================================================

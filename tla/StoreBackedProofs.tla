-------------------------- MODULE StoreBackedProofs --------------------------
(***************************************************************************)
(* Proofs about StoreBacked, for any set of records, any deployments, and  *)
(* any number of replicas, failed statements and crashes.                  *)
(***************************************************************************)
EXTENDS StoreBacked, TLAPS

\* A goroutine that ingests holds a record of its own: it is in the globals of
\* its replica, no other goroutine has it, and until it is saved the store
\* does not have it either.
SavingFresh ==
  \A r \in Replicas, id \in Ids :
    /\ ipc[r][id] # "idle" => storeMap[r][id] # Absent
    /\ ipc[r][id] = "save" => ev[id] = Absent
    /\ \A q \in Replicas : ipc[r][id] # "idle" /\ ipc[q][id] # "idle" => r = q

\* The leaves are 0..n-1, and a transaction in progress was given at most n.
\* (Two of them may have been given the same, see StoreLeavesExact.)
LeavesUpTo(n) ==
  /\ n \in Nat
  /\ \A id \in Ids : ev[id] \in Nat => ev[id] < n
  /\ \A i \in 0..(n - 1) : \E id \in Ids : ev[id] = i
  /\ \A r \in Replicas : cpc[r] = "commit" => cidx[r] <= n

StInv == StTypeOK /\ LockDiscipline /\ SavingFresh /\ \E n \in Nat : LeavesUpTo(n)

\* What SELECT max(leaf_index) + 1 returns is the number of leaves.
LEMMA NextLeafIs ==
  ASSUME StTypeOK, NEW n \in Nat, LeavesUpTo(n)
  PROVE  NextLeaf = n
<1>1. Leaves = 0..(n - 1)
  <2>1. ASSUME NEW i \in Leaves PROVE i \in 0..(n - 1)
    BY <2>1 DEF LeavesUpTo, Leaves
  <2>2. ASSUME NEW i \in 0..(n - 1) PROVE i \in Leaves
    BY <2>2 DEF LeavesUpTo, Leaves
  <2>. QED
    BY <2>1, <2>2
<1>2. CASE n = 0
  BY <1>1, <1>2 DEF NextLeaf
<1>3. CASE n # 0
  <2>1. n - 1 \in Leaves /\ \A y \in Leaves : n - 1 >= y
    BY <1>1, <1>3
  <2>2. \A x \in Leaves : (\A y \in Leaves : x >= y) => x = n - 1
    BY <1>1, <1>3
  <2>3. Max(Leaves) = n - 1
    BY <2>1, <2>2 DEF Max
  <2>. QED
    BY <2>1, <2>3 DEF NextLeaf
<1>. QED
  BY <1>2, <1>3
-----------------------------------------------------------------------------
(* Types *)

\* Any step of one replica.
LEMMA StepCases ==
  ASSUME StTypeOK, Next
  PROVE  \E r \in Replicas :
           \/ \E id \in Ids : IngestRecord(r, id) \/ SaveEvidence(r, id) \/ SaveAudit(r, id)
           \/ MemAssign(r) \/ TxPick(r) \/ TxMax(r) \/ TxCommit(r)
           \/ Publish(r) \/ Local(r) \/ Crash(r)
<1>1. deploy.replicas \subseteq Replicas
  BY StoreAssumption DEF StTypeOK
<1>. QED
  BY <1>1 DEF Next, Tick

\* A rolled back transaction leaves its tables alone and types intact.
LEMMA RollbackTypes ==
  ASSUME StTypeOK, NEW r \in Replicas, Rollback(r)
  PROVE  /\ rowLock' \in [Ids -> Replicas \cup {Nil}]
         /\ cpc' \in [Replicas -> {"sleep", "max", "commit", "publish", "local"}]
         /\ cid' \in [Replicas -> Ids \cup {Nil}]
         /\ cidx' \in [Replicas -> Nat]
         /\ UNCHANGED <<rows, ev, auditRows>>
  BY DEF StTypeOK, Rollback, Proceed

\* Types are kept: NextLeaf is a number because the leaves have a largest one,
\* and what is saved or committed is a record because one is held.
LEMMA TypeStep ==
  ASSUME StInv, [Next]_vars
  PROVE  StTypeOK'
<1> USE DEF StTypeOK, LeafState, memory, store, committer, observed, Proceed
<1>0. StTypeOK /\ NextLeaf \in Nat
  BY NextLeafIs DEF StInv
<1>1. ASSUME NEW r \in Replicas, NEW id \in Ids, IngestRecord(r, id) PROVE StTypeOK'
  BY <1>0, <1>1 DEF IngestRecord
<1>2. ASSUME NEW r \in Replicas, NEW id \in Ids, SaveEvidence(r, id) PROVE StTypeOK'
  <2>1. ev' \in [Ids -> LeafState] /\ rows' \in Seq(Ids)
    <3>1. CASE ev' = [ev EXCEPT ![id] = Nil] /\ rows' = Append(rows, id)
      BY <1>0, <3>1
    <3>2. CASE UNCHANGED <<ev, rows>>
      BY <1>0, <3>2
    <3>. QED
      BY <1>2, <3>1, <3>2 DEF SaveEvidence
  <2>2. dropped' \subseteq {"evidence", "audit"} \X Ids /\ faults' \in Nat
    BY <1>0, <1>2 DEF SaveEvidence, Fault
  <2>. QED
    BY <1>0, <1>2, <2>1, <2>2 DEF SaveEvidence
<1>3. ASSUME NEW r \in Replicas, NEW id \in Ids, SaveAudit(r, id) PROVE StTypeOK'
  BY <1>0, <1>3 DEF SaveAudit, Fault
<1>4. ASSUME NEW r \in Replicas, MemAssign(r) PROVE StTypeOK'
  <2>1. ASSUME NEW id \in Ids, ev' = [ev EXCEPT ![id] = NextLeaf],
               Proceed(r, "publish", id, NextLeaf)
        PROVE  StTypeOK'
    BY <1>0, <1>4, <2>1 DEF MemAssign
  <2>2. CASE Proceed(r, "local", Nil, 0) /\ UNCHANGED ev
    BY <1>0, <1>4, <2>2 DEF MemAssign
  <2>. QED
    BY <1>4, <2>1, <2>2 DEF MemAssign
<1>5. ASSUME NEW r \in Replicas, TxPick(r) PROVE StTypeOK'
  <2>0. UNCHANGED <<deploy, memory, ipc, observed>> /\ faults' \in Nat
    BY <1>0, <1>5 DEF TxPick, Fault
  <2>1. ASSUME NEW i \in DOMAIN rows, rowLock' = [rowLock EXCEPT ![rows[i]] = r],
               Proceed(r, "max", rows[i], 0), UNCHANGED <<rows, ev, auditRows>>
        PROVE  StTypeOK'
    BY <1>0, <2>0, <2>1
  <2>2. CASE Rollback(r)
    BY <1>0, <2>0, <2>2, RollbackTypes
  <2>. QED
    BY <1>5, <2>1, <2>2 DEF TxPick
<1>6. ASSUME NEW r \in Replicas, TxMax(r) PROVE StTypeOK'
  <2>0. UNCHANGED <<deploy, memory, ipc, observed>> /\ faults' \in Nat
    BY <1>0, <1>6 DEF TxMax, Fault
  <2>1. CASE Proceed(r, "commit", cid[r], NextLeaf) /\ UNCHANGED store
    BY <1>0, <2>0, <2>1
  <2>2. CASE Rollback(r)
    BY <1>0, <2>0, <2>2, RollbackTypes
  <2>. QED
    BY <1>6, <2>1, <2>2 DEF TxMax
<1>7. ASSUME NEW r \in Replicas, TxCommit(r) PROVE StTypeOK'
  <2>1. cid[r] \in Ids
    BY <1>7 DEF StInv, LockDiscipline, TxCommit
  <2>2. UNCHANGED <<deploy, memory, ipc, observed>> /\ faults' \in Nat
    BY <1>0, <1>7 DEF TxCommit, Fault
  <2>3. CASE /\ ev' = [ev EXCEPT ![cid[r]] = cidx[r]]
             /\ rowLock' = [rowLock EXCEPT ![cid[r]] = Nil]
             /\ Proceed(r, "publish", cid[r], cidx[r]) \/ Proceed(r, "local", Nil, 0)
             /\ UNCHANGED <<rows, auditRows>>
    <3>1. /\ cpc' \in [Replicas -> {"sleep", "max", "commit", "publish", "local"}]
          /\ cid' \in [Replicas -> Ids \cup {Nil}]
          /\ cidx' \in [Replicas -> Nat]
      <4>1. CASE Proceed(r, "publish", cid[r], cidx[r])
        BY <1>0, <4>1
      <4>2. CASE Proceed(r, "local", Nil, 0)
        BY <1>0, <4>2
      <4>. QED
        BY <2>3, <4>1, <4>2
    <3>2. ev' \in [Ids -> LeafState] /\ rowLock' \in [Ids -> Replicas \cup {Nil}]
      BY <1>0, <2>1, <2>3
    <3>. QED
      BY <1>0, <2>2, <2>3, <3>1, <3>2
  <2>4. CASE Rollback(r)
    BY <1>0, <2>2, <2>4, RollbackTypes
  <2>. QED
    BY <1>7, <2>3, <2>4 DEF TxCommit
<1>8. ASSUME NEW r \in Replicas, Publish(r) PROVE StTypeOK'
  BY <1>0, <1>8 DEF Publish
<1>9. ASSUME NEW r \in Replicas, Local(r) PROVE StTypeOK'
  <2>1. ASSUME NEW id \in Ids, storeMap' = [storeMap EXCEPT ![r][id] = next[r]],
               next' = [next EXCEPT ![r] = @ + 1]
        PROVE  StTypeOK'
    BY <1>0, <1>9, <2>1 DEF Local
  <2>2. CASE UNCHANGED memory
    BY <1>0, <1>9, <2>2 DEF Local
  <2>. QED
    BY <1>9, <2>1, <2>2 DEF Local
<1>10. ASSUME NEW r \in Replicas, Crash(r) PROVE StTypeOK'
  BY <1>0, <1>10 DEF Crash, Fault
<1>11. CASE UNCHANGED vars
  BY <1>0, <1>11 DEF vars
<1>. QED
  BY <1>0, <1>1, <1>2, <1>3, <1>4, <1>5, <1>6, <1>7, <1>8, <1>9, <1>10, <1>11, StepCases
-----------------------------------------------------------------------------
(* Row locks *)

\* A transaction that ends, in a rollback or with its process, frees its row.
LEMMA UnlockKeeps ==
  ASSUME StTypeOK, LockDiscipline, NEW r \in Replicas,
         rowLock' = [id \in Ids |-> IF rowLock[id] = r THEN Nil ELSE rowLock[id]],
         NEW where \in {"local", "sleep"}, Proceed(r, where, Nil, 0), ev' = ev
  PROVE  LockDiscipline'
  BY StoreAssumption DEF StTypeOK, LockDiscipline, Proceed

\* No step takes a locked row from its transaction, or changes the row.
LEMMA LockStep ==
  ASSUME StInv, [Next]_vars
  PROVE  LockDiscipline'
<1> USE DEF LockDiscipline, memory, store, committer, observed, Proceed
<1>0. StTypeOK /\ LockDiscipline /\ SavingFresh
  BY DEF StInv
<1>2. ASSUME NEW r \in Replicas, NEW x \in Ids, SaveEvidence(r, x) PROVE LockDiscipline'
  <2>1. ev[x] = Absent
    BY <1>0, <1>2 DEF SavingFresh, SaveEvidence
  <2>2. \A id \in Ids : ev[id] = Nil => ev'[id] = Nil
    BY <1>0, <1>2, <2>1, StoreAssumption DEF SaveEvidence, StTypeOK
  <2>. QED
    BY <1>0, <1>2, <2>2 DEF SaveEvidence, StTypeOK
<1>4. ASSUME NEW r \in Replicas, MemAssign(r) PROVE LockDiscipline'
  <2>0. cpc[r] = "sleep" /\ UNCHANGED rowLock
    BY <1>4 DEF MemAssign
  <2>1. ASSUME NEW id \in Ids, Pending(id), ev' = [ev EXCEPT ![id] = NextLeaf],
               Proceed(r, "publish", id, NextLeaf)
        PROVE  LockDiscipline'
    BY <1>0, <2>0, <2>1, StoreAssumption DEF Pending, StTypeOK
  <2>2. CASE Proceed(r, "local", Nil, 0) /\ UNCHANGED ev
    BY <1>0, <2>0, <2>2, StoreAssumption DEF StTypeOK
  <2>. QED
    BY <1>4, <2>1, <2>2 DEF MemAssign
<1>5. ASSUME NEW r \in Replicas, TxPick(r) PROVE LockDiscipline'
  <2>1. ASSUME NEW i \in DOMAIN rows, Pending(rows[i]),
               rowLock' = [rowLock EXCEPT ![rows[i]] = r],
               Proceed(r, "max", rows[i], 0), UNCHANGED ev
        PROVE  LockDiscipline'
    <3>1. rows[i] \in Ids /\ cpc[r] = "sleep"
      BY <1>0, <1>5 DEF TxPick, StTypeOK
    <3>. QED
      BY <1>0, <2>1, <3>1, StoreAssumption DEF Pending, StTypeOK
  <2>2. CASE Rollback(r)
    BY <1>0, <2>2, UnlockKeeps DEF Rollback
  <2>. QED
    BY <1>5, <2>1, <2>2 DEF TxPick
<1>6. ASSUME NEW r \in Replicas, TxMax(r) PROVE LockDiscipline'
  <2>1. CASE Proceed(r, "commit", cid[r], NextLeaf) /\ UNCHANGED store
    BY <1>0, <1>6, <2>1 DEF TxMax, StTypeOK
  <2>2. CASE Rollback(r)
    BY <1>0, <2>2, UnlockKeeps DEF Rollback
  <2>. QED
    BY <1>6, <2>1, <2>2 DEF TxMax
<1>7. ASSUME NEW r \in Replicas, TxCommit(r) PROVE LockDiscipline'
  <2>1. cid[r] \in Ids /\ rowLock[cid[r]] = r /\ cpc[r] = "commit"
    BY <1>0, <1>7 DEF TxCommit
  <2>2. CASE /\ ev' = [ev EXCEPT ![cid[r]] = cidx[r]]
             /\ rowLock' = [rowLock EXCEPT ![cid[r]] = Nil]
             /\ cpc'[r] \in {"publish", "local"}
             /\ \A q \in Replicas \ {r} : cpc'[q] = cpc[q] /\ cid'[q] = cid[q]
    <3>1. /\ rowLock'[cid[r]] = Nil
          /\ \A x \in Ids : x # cid[r] => rowLock'[x] = rowLock[x] /\ ev'[x] = ev[x]
      BY <1>0, <2>1, <2>2 DEF StTypeOK
    <3>2. \A q \in Replicas : q # r /\ cpc[q] \in {"max", "commit"} => cid[q] # cid[r]
      BY <1>0, <2>1
    <3>3. \A x \in Ids : rowLock[x] = r => x = cid[r]
      BY <1>0, StoreAssumption
    <3>4. \A x \in Ids : rowLock[x] # Nil => rowLock[x] \in Replicas
      BY <1>0 DEF StTypeOK
    <3>. QED
      BY <1>0, <2>1, <2>2, <3>1, <3>2, <3>3, <3>4
  <2>3. CASE Rollback(r)
    BY <1>0, <2>3, UnlockKeeps DEF Rollback
  <2>4. CASE /\ ev' = [ev EXCEPT ![cid[r]] = cidx[r]]
             /\ rowLock' = [rowLock EXCEPT ![cid[r]] = Nil]
             /\ Proceed(r, "publish", cid[r], cidx[r])
    BY <1>0, <2>2, <2>4 DEF StTypeOK
  <2>5. CASE /\ ev' = [ev EXCEPT ![cid[r]] = cidx[r]]
             /\ rowLock' = [rowLock EXCEPT ![cid[r]] = Nil]
             /\ Proceed(r, "local", Nil, 0)
    BY <1>0, <2>2, <2>5 DEF StTypeOK
  <2>. QED
    BY <1>7, <2>3, <2>4, <2>5 DEF TxCommit
<1>8. ASSUME NEW r \in Replicas, Publish(r) \/ Local(r) PROVE LockDiscipline'
  <2>1. UNCHANGED <<ev, rowLock>> /\ cpc[r] \notin {"max", "commit"} /\ cpc'[r] = "sleep"
    BY <1>0, <1>8 DEF Publish, Local, StTypeOK
  <2>2. \A q \in Replicas : q # r => cpc'[q] = cpc[q] /\ cid'[q] = cid[q]
    BY <1>0, <1>8 DEF Publish, Local, StTypeOK
  <2>3. \A x \in Ids : rowLock[x] # Nil => rowLock[x] \in Replicas /\ rowLock[x] # r
    BY <1>0, <2>1 DEF StTypeOK
  <2>. QED
    BY <1>0, <2>1, <2>2, <2>3
<1>10. ASSUME NEW r \in Replicas, Crash(r) PROVE LockDiscipline'
  <2>. DEFINE where == "sleep"
  <2>1. /\ rowLock' = [id \in Ids |-> IF rowLock[id] = r THEN Nil ELSE rowLock[id]]
        /\ Proceed(r, where, Nil, 0)
        /\ ev' = ev
    BY <1>10 DEF Crash
  <2>2. where \in {"local", "sleep"}
    OBVIOUS
  <2>. HIDE DEF where
  <2>. QED
    BY <1>0, <2>1, <2>2, UnlockKeeps
<1>11. CASE UNCHANGED <<ev, rowLock, cpc, cid>>
  BY <1>0, <1>11
<1>. QED
  BY <1>0, <1>2, <1>4, <1>5, <1>6, <1>7, <1>8, <1>10, <1>11, StepCases
     DEF IngestRecord, SaveAudit, vars
-----------------------------------------------------------------------------
(* Records being ingested *)

\* uuid.NewString returns an unused id, and only its goroutine saves it.
LEMMA SavingStep ==
  ASSUME StInv, [Next]_vars
  PROVE  SavingFresh'
<1> USE DEF SavingFresh, memory, store, committer, observed
<1>0. StTypeOK /\ LockDiscipline /\ SavingFresh
  BY DEF StInv
<1>1. ASSUME NEW r \in Replicas, NEW id \in Ids, IngestRecord(r, id) PROVE SavingFresh'
  <2>1. /\ storeMap' = [storeMap EXCEPT ![r][id] = Nil]
        /\ ipc' = [ipc EXCEPT ![r][id] = "save"]
        /\ ev' = ev /\ ev[id] = Absent
        /\ \A q \in Replicas : storeMap[q][id] = Absent
    BY <1>1 DEF IngestRecord, Fresh
  <2>2. /\ \A q \in Replicas, x \in Ids : storeMap[q][x] # Absent => storeMap'[q][x] # Absent
        /\ storeMap'[r][id] # Absent
    BY <1>0, <2>1, StoreAssumption DEF StTypeOK
  <2>3. \A q \in Replicas : ipc[q][id] = "idle"
    BY <1>0, <2>1
  <2>4. /\ ipc'[r][id] = "save"
        /\ \A q \in Replicas, x \in Ids : q # r \/ x # id => ipc'[q][x] = ipc[q][x]
    BY <1>0, <2>1 DEF StTypeOK
  <2>. QED
    BY <1>0, <2>1, <2>2, <2>3, <2>4
<1>2. ASSUME NEW r \in Replicas, NEW id \in Ids, SaveEvidence(r, id) PROVE SavingFresh'
  <2>1. ipc[r][id] = "save" /\ UNCHANGED storeMap
    BY <1>2 DEF SaveEvidence
  <2>2. /\ ipc'[r][id] = "audit"
        /\ \A q \in Replicas, x \in Ids : q # r \/ x # id => ipc'[q][x] = ipc[q][x]
    BY <1>0, <1>2 DEF SaveEvidence, StTypeOK
  <2>3. \A x \in Ids : x # id => ev'[x] = ev[x]
    <3>1. CASE ev' = [ev EXCEPT ![id] = Nil]
      BY <1>0, <3>1 DEF StTypeOK
    <3>2. CASE ev' = ev
      BY <3>2
    <3>. QED
      BY <1>2, <3>1, <3>2 DEF SaveEvidence
  <2>. QED
    BY <1>0, <2>1, <2>2, <2>3
<1>3. ASSUME NEW r \in Replicas, NEW id \in Ids, SaveAudit(r, id) PROVE SavingFresh'
  <2>1. ipc[r][id] = "audit" /\ UNCHANGED <<storeMap, ev>>
    BY <1>3 DEF SaveAudit
  <2>2. /\ ipc'[r][id] = "idle"
        /\ \A q \in Replicas, x \in Ids : q # r \/ x # id => ipc'[q][x] = ipc[q][x]
    BY <1>0, <1>3 DEF SaveAudit, StTypeOK
  <2>. QED
    BY <1>0, <2>1, <2>2
<1>4. ASSUME \A id \in Ids : ev[id] = Absent => ev'[id] = Absent,
             \A q \in Replicas, id \in Ids :
               storeMap[q][id] # Absent => storeMap'[q][id] # Absent,
             UNCHANGED ipc
      PROVE  SavingFresh'
  BY <1>0, <1>4
<1>5. ASSUME NEW r \in Replicas, MemAssign(r) PROVE SavingFresh'
  <2>1. \A id \in Ids : ev[id] = Absent => ev'[id] = Absent
    <3>1. ASSUME NEW x \in Ids, Pending(x), ev' = [ev EXCEPT ![x] = NextLeaf]
          PROVE  \A id \in Ids : ev[id] = Absent => ev'[id] = Absent
      BY <1>0, <3>1, StoreAssumption DEF Pending, StTypeOK
    <3>. QED
      BY <1>5, <3>1 DEF MemAssign
  <2>. QED
    BY <1>4, <1>5, <2>1 DEF MemAssign
<1>6. ASSUME NEW r \in Replicas, TxPick(r) \/ TxMax(r) PROVE SavingFresh'
  BY <1>4, <1>6 DEF TxPick, TxMax, Rollback
<1>7. ASSUME NEW r \in Replicas, TxCommit(r) PROVE SavingFresh'
  <2>1. cid[r] \in Ids /\ ev[cid[r]] = Nil
    BY <1>0, <1>7, StoreAssumption DEF TxCommit, LockDiscipline
  <2>2. \A id \in Ids : ev[id] = Absent => ev'[id] = Absent
    <3>1. CASE ev' = [ev EXCEPT ![cid[r]] = cidx[r]]
      BY <1>0, <2>1, <3>1, StoreAssumption DEF StTypeOK
    <3>2. CASE ev' = ev
      BY <3>2
    <3>. QED
      BY <1>7, <3>1, <3>2 DEF TxCommit, Rollback
  <2>. QED
    BY <1>4, <1>7, <2>2 DEF TxCommit
<1>8. ASSUME NEW r \in Replicas, Publish(r) PROVE SavingFresh'
  <2>1. cidx[r] # Absent
    BY <1>0, StoreAssumption DEF StTypeOK
  <2>2. \A q \in Replicas, id \in Ids : storeMap[q][id] # Absent => storeMap'[q][id] # Absent
    <3>1. CASE storeMap' = [storeMap EXCEPT ![r][cid[r]] = cidx[r]]
      BY <1>0, <2>1, <3>1 DEF StTypeOK
    <3>2. CASE storeMap' = storeMap
      BY <3>2
    <3>. QED
      BY <1>8, <3>1, <3>2 DEF Publish
  <2>. QED
    BY <1>4, <1>8, <2>2 DEF Publish
<1>9. ASSUME NEW r \in Replicas, Local(r) PROVE SavingFresh'
  <2>1. next[r] # Absent
    BY <1>0, StoreAssumption DEF StTypeOK
  <2>2. \A q \in Replicas, id \in Ids : storeMap[q][id] # Absent => storeMap'[q][id] # Absent
    <3>1. ASSUME NEW x \in Ids, storeMap' = [storeMap EXCEPT ![r][x] = next[r]]
          PROVE  \A q \in Replicas, id \in Ids :
                   storeMap[q][id] # Absent => storeMap'[q][id] # Absent
      BY <1>0, <2>1, <3>1 DEF StTypeOK
    <3>. QED
      BY <1>9, <3>1 DEF Local
  <2>. QED
    BY <1>4, <1>9, <2>2 DEF Local
<1>10. ASSUME NEW r \in Replicas, Crash(r) PROVE SavingFresh'
  <2>1. /\ ev' = ev /\ \A x \in Ids : ipc'[r][x] = "idle"
        /\ \A q \in Replicas : q # r => ipc'[q] = ipc[q] /\ storeMap'[q] = storeMap[q]
    BY <1>0, <1>10 DEF Crash, StTypeOK
  <2>. QED
    BY <1>0, <2>1
<1>11. CASE UNCHANGED vars
  BY <1>4, <1>11 DEF vars
<1>. QED
  BY <1>0, <1>1, <1>2, <1>3, <1>5, <1>6, <1>7, <1>8, <1>9, <1>10, <1>11, StepCases
-----------------------------------------------------------------------------
(* Leaves *)

\* A record gets leaf k, no more than the number of leaves: the leaves are
\* still 0, 1, 2, ... without a gap.
LEMMA LeafGiven ==
  ASSUME StTypeOK, NEW n \in Nat, LeavesUpTo(n),
         NEW id \in Ids, ev[id] = Nil, NEW k \in 0..n,
         ev' = [ev EXCEPT ![id] = k],
         \A q \in Replicas : cpc'[q] = "commit" => cpc[q] = "commit" /\ cidx'[q] = cidx[q]
  PROVE  \E m \in Nat : LeavesUpTo(m)'
<1>0. Nil \notin Nat
  BY StoreAssumption
<1>1. ev'[id] = k /\ \A x \in Ids : x # id => ev'[x] = ev[x]
  BY DEF StTypeOK
<1>2. \A i \in 0..(n - 1) : \E x \in Ids : ev'[x] = i
  <2>1. ASSUME NEW i \in 0..(n - 1) PROVE \E x \in Ids : ev'[x] = i
    <3>1. PICK x \in Ids : ev[x] = i
      BY <2>1 DEF LeavesUpTo
    <3>2. x # id
      BY <1>0, <3>1
    <3>. QED
      BY <1>1, <3>1, <3>2
  <2>. QED
    BY <2>1
<1>3. CASE k = n
  <2>1. \A i \in 0..n : \E x \in Ids : ev'[x] = i
    BY <1>1, <1>2, <1>3
  <2>2. \A x \in Ids : ev'[x] \in Nat => ev'[x] < n + 1
    BY <1>1, <1>3 DEF LeavesUpTo
  <2>3. \A q \in Replicas : cpc'[q] = "commit" => cidx'[q] <= n + 1
    BY DEF LeavesUpTo, StTypeOK
  <2>4. LeavesUpTo(n + 1)'
    BY <2>1, <2>2, <2>3 DEF LeavesUpTo
  <2>. QED
    BY <2>4
<1>4. CASE k # n
  <2>1. \A x \in Ids : ev'[x] \in Nat => ev'[x] < n
    BY <1>1, <1>4 DEF LeavesUpTo
  <2>2. LeavesUpTo(n)'
    BY <1>2, <2>1 DEF LeavesUpTo
  <2>. QED
    BY <2>2
<1>. QED
  BY <1>3, <1>4

\* No step leaves a gap below the largest leaf.
LEMMA LeavesStep ==
  ASSUME StInv, [Next]_vars
  PROVE  \E n \in Nat : LeavesUpTo(n)'
<1> USE DEF memory, store, committer, observed
<1>0. PICK n \in Nat : StTypeOK /\ LockDiscipline /\ SavingFresh /\ LeavesUpTo(n)
  BY DEF StInv
<1>1. ASSUME \A id \in Ids : ev'[id] = ev[id] \/ (ev[id] = Absent /\ ev'[id] = Nil),
             \A q \in Replicas : cpc'[q] = "commit" =>
               cidx'[q] = n \/ (cpc[q] = "commit" /\ cidx'[q] = cidx[q])
      PROVE  LeavesUpTo(n)'
  <2>1. \A id \in Ids, i \in Nat : ev'[id] = i <=> ev[id] = i
    BY <1>1, StoreAssumption
  <2>2. /\ \A id \in Ids : ev'[id] \in Nat => ev'[id] < n
        /\ \A i \in 0..(n - 1) : \E id \in Ids : ev'[id] = i
    BY <1>0, <2>1 DEF LeavesUpTo
  <2>3. \A q \in Replicas : cpc'[q] = "commit" => cidx'[q] <= n
    BY <1>0, <1>1 DEF LeavesUpTo
  <2>. QED
    BY <2>2, <2>3 DEF LeavesUpTo
<1>2. ASSUME NEW r \in Replicas, NEW x \in Ids, SaveEvidence(r, x) PROVE LeavesUpTo(n)'
  <2>1. ev[x] = Absent
    BY <1>0, <1>2 DEF SaveEvidence, SavingFresh
  <2>2. \A id \in Ids : ev'[id] = ev[id] \/ (ev[id] = Absent /\ ev'[id] = Nil)
    <3>1. CASE ev' = [ev EXCEPT ![x] = Nil]
      BY <1>0, <2>1, <3>1 DEF StTypeOK
    <3>2. CASE ev' = ev
      BY <3>2
    <3>. QED
      BY <1>2, <3>1, <3>2 DEF SaveEvidence
  <2>. QED
    BY <1>1, <1>2, <2>2 DEF SaveEvidence
<1>3. ASSUME NEW r \in Replicas, NEW where, where # "commit", NEW x, NEW i,
             Proceed(r, where, x, i)
      PROVE  \A q \in Replicas : cpc'[q] = "commit" => cpc[q] = "commit" /\ cidx'[q] = cidx[q]
  BY <1>0, <1>3 DEF Proceed, StTypeOK
<1>4. ASSUME NEW r \in Replicas, MemAssign(r) PROVE \E m \in Nat : LeavesUpTo(m)'
  <2>1. ASSUME NEW id \in Ids, Pending(id), ev' = [ev EXCEPT ![id] = NextLeaf],
               Proceed(r, "publish", id, NextLeaf)
        PROVE  \E m \in Nat : LeavesUpTo(m)'
    <3>1. NextLeaf = n
      BY <1>0, NextLeafIs
    <3>2. \A q \in Replicas : cpc'[q] = "commit" => cpc[q] = "commit" /\ cidx'[q] = cidx[q]
      BY <1>3, <2>1
    <3>3. ev[id] = Nil /\ n \in 0..n /\ ev' = [ev EXCEPT ![id] = n]
      BY <1>0, <2>1, <3>1 DEF Pending
    <3>. QED
      BY <1>0, <3>2, <3>3, LeafGiven
  <2>2. CASE Proceed(r, "local", Nil, 0) /\ UNCHANGED ev
    BY <1>1, <1>3, <2>2
  <2>. QED
    BY <1>4, <2>1, <2>2 DEF MemAssign
<1>5. ASSUME NEW r \in Replicas, Rollback(r) PROVE LeavesUpTo(n)'
  BY <1>1, <1>3, <1>5 DEF Rollback
<1>6. ASSUME NEW r \in Replicas, TxPick(r) PROVE LeavesUpTo(n)'
  <2>1. ASSUME NEW i \in DOMAIN rows, Proceed(r, "max", rows[i], 0), UNCHANGED ev
        PROVE  LeavesUpTo(n)'
    BY <1>1, <1>3, <2>1
  <2>. QED
    BY <1>5, <1>6, <2>1 DEF TxPick
<1>7. ASSUME NEW r \in Replicas, TxMax(r) PROVE LeavesUpTo(n)'
  <2>1. CASE Proceed(r, "commit", cid[r], NextLeaf) /\ UNCHANGED ev
    <3>1. NextLeaf = n
      BY <1>0, NextLeafIs
    <3>2. \A q \in Replicas : cpc'[q] = "commit" =>
            cidx'[q] = n \/ (cpc[q] = "commit" /\ cidx'[q] = cidx[q])
      BY <1>0, <2>1, <3>1 DEF Proceed, StTypeOK
    <3>. QED
      BY <1>1, <2>1, <3>2
  <2>. QED
    BY <1>5, <1>7, <2>1 DEF TxMax
<1>8. ASSUME NEW r \in Replicas, TxCommit(r) PROVE \E m \in Nat : LeavesUpTo(m)'
  <2>1. cid[r] \in Ids /\ ev[cid[r]] = Nil
    BY <1>0, <1>8, StoreAssumption DEF TxCommit, LockDiscipline
  <2>2. cidx[r] \in 0..n
    BY <1>0, <1>8 DEF TxCommit, LeavesUpTo, StTypeOK
  <2>3. ASSUME ev' = [ev EXCEPT ![cid[r]] = cidx[r]],
               \A q \in Replicas : cpc'[q] = "commit" => cpc[q] = "commit" /\ cidx'[q] = cidx[q]
        PROVE  \E m \in Nat : LeavesUpTo(m)'
    BY <1>0, <2>1, <2>2, <2>3, LeafGiven
  <2>4. CASE ev' = [ev EXCEPT ![cid[r]] = cidx[r]] /\ Proceed(r, "publish", cid[r], cidx[r])
    BY <1>3, <2>3, <2>4
  <2>5. CASE ev' = [ev EXCEPT ![cid[r]] = cidx[r]] /\ Proceed(r, "local", Nil, 0)
    BY <1>3, <2>3, <2>5
  <2>. QED
    BY <1>5, <1>8, <2>4, <2>5 DEF TxCommit
<1>9. ASSUME NEW r \in Replicas, Publish(r) \/ Local(r) \/ Crash(r) PROVE LeavesUpTo(n)'
  <2>1. UNCHANGED ev /\ Proceed(r, "sleep", Nil, 0)
    BY <1>9 DEF Publish, Local, Crash
  <2>. QED
    BY <1>1, <1>3, <2>1
<1>10. CASE UNCHANGED <<ev, committer>>
  BY <1>1, <1>10
<1>. QED
  BY <1>0, <1>2, <1>4, <1>6, <1>7, <1>8, <1>9, <1>10, StepCases
     DEF IngestRecord, SaveAudit, vars
-----------------------------------------------------------------------------
(* Theorems *)

\* The four parts are inductive together.
LEMMA StInvariant == Spec => []StInv
<1>1. Init => StInv
  <2>1. ASSUME Init PROVE StTypeOK /\ LockDiscipline /\ SavingFresh
    BY <2>1, StoreAssumption DEF Init, StTypeOK, LeafState, LockDiscipline, SavingFresh
  <2>2. ASSUME Init PROVE LeavesUpTo(0)
    BY <2>2, StoreAssumption DEF Init, LeavesUpTo
  <2>. QED
    BY <2>1, <2>2 DEF StInv
<1>2. StInv /\ [Next]_vars => StInv'
  BY TypeStep, LockStep, SavingStep, LeavesStep DEF StInv
<1>. QED
  BY <1>1, <1>2, PTL DEF Spec

\* The variables keep their types: in particular the leaf a transaction writes
\* is always a number, max(leaf_index) of an empty table included.
THEOREM StTypeCorrect == Spec => []StTypeOK
<1>1. StInv => StTypeOK
  BY DEF StInv
<1>. QED
  BY <1>1, StInvariant, PTL

\* For any number of replicas, crashes and failed statements, a row locked by
\* AssignNextPendingLeaf is pending and belongs to one live transaction.
THEOREM LockTheorem == Spec => []LockDiscipline
<1>1. StInv => LockDiscipline
  BY DEF StInv
<1>. QED
  BY <1>1, StInvariant, PTL

\* A step saves at most one new record at the end of the table, and keeps the
\* leaves the other records have.
RecordsKept ==
  /\ \A id \in Ids : ev[id] \in Nat => ev'[id] = ev[id]
  /\ \A id \in Ids : ev[id] # Absent => ev'[id] # Absent
  /\ rows' = rows \/ \E x \in Ids : rows' = Append(rows, x)

\* The store's records are kept by every step.
LEMMA EvStep ==
  ASSUME StInv, [Next]_vars
  PROVE  RecordsKept
<1> USE DEF memory, store, committer, observed
<1>0. StTypeOK /\ LockDiscipline /\ SavingFresh
  BY DEF StInv
<1>1. ASSUME NEW x \in Ids, ev[x] \in {Absent, Nil}, NEW leaf \in Nat \cup {Nil},
             ev' = [ev EXCEPT ![x] = leaf],
             rows' = rows \/ rows' = Append(rows, x)
      PROVE  RecordsKept
  BY <1>0, <1>1, StoreAssumption DEF RecordsKept, StTypeOK
<1>2. ASSUME NEW r \in Replicas, NEW x \in Ids, SaveEvidence(r, x) PROVE RecordsKept
  <2>1. ev[x] = Absent
    BY <1>0, <1>2 DEF SaveEvidence, SavingFresh
  <2>2. CASE ev' = [ev EXCEPT ![x] = Nil] /\ rows' = Append(rows, x)
    BY <1>1, <2>1, <2>2
  <2>3. CASE UNCHANGED <<ev, rows>>
    BY <2>3 DEF RecordsKept
  <2>. QED
    BY <1>2, <2>2, <2>3 DEF SaveEvidence
<1>3. ASSUME NEW r \in Replicas, MemAssign(r) PROVE RecordsKept
  <2>0. UNCHANGED rows
    BY <1>3 DEF MemAssign
  <2>1. ASSUME NEW id \in Ids, Pending(id), ev' = [ev EXCEPT ![id] = NextLeaf] PROVE RecordsKept
    <3>1. NextLeaf \in Nat
      BY NextLeafIs DEF StInv
    <3>. QED
      BY <1>1, <2>0, <2>1, <3>1 DEF Pending
  <2>2. CASE UNCHANGED ev
    BY <2>0, <2>2 DEF RecordsKept
  <2>. QED
    BY <1>3, <2>1, <2>2 DEF MemAssign
<1>4. ASSUME NEW r \in Replicas, TxCommit(r) PROVE RecordsKept
  <2>1. cid[r] \in Ids /\ ev[cid[r]] = Nil /\ cidx[r] \in Nat /\ UNCHANGED rows
    BY <1>0, <1>4, StoreAssumption DEF TxCommit, Rollback, LockDiscipline, StTypeOK
  <2>2. CASE ev' = [ev EXCEPT ![cid[r]] = cidx[r]]
    BY <1>1, <2>1, <2>2
  <2>3. CASE UNCHANGED ev
    BY <2>1, <2>3 DEF RecordsKept
  <2>. QED
    BY <1>4, <2>2, <2>3 DEF TxCommit, Rollback
<1>5. CASE UNCHANGED <<ev, rows>>
  BY <1>5 DEF RecordsKept
<1>6. ASSUME NEW r \in Replicas,
             TxPick(r) \/ TxMax(r) \/ Publish(r) \/ Local(r) \/ Crash(r)
      PROVE  RecordsKept
  BY <1>5, <1>6 DEF TxPick, TxMax, Rollback, Publish, Local, Crash
<1>7. ASSUME NEW r \in Replicas, NEW id \in Ids, IngestRecord(r, id) \/ SaveAudit(r, id)
      PROVE  RecordsKept
  BY <1>5, <1>7 DEF IngestRecord, SaveAudit
<1>8. CASE UNCHANGED vars
  BY <1>5, <1>8 DEF vars
<1>. QED
  BY <1>0, <1>2, <1>3, <1>4, <1>6, <1>7, <1>8, StepCases

\* A leaf index is written once and no row is removed or moved, whatever the
\* number of replicas and the failures: AssignNextPendingLeaf only ever
\* updates a row that is pending.
THEOREM StoreAppendOnlyTheorem == Spec => StoreAppendOnly
<1>1. ASSUME StInv, [Next]_vars
      PROVE  /\ \A id \in Ids : ev[id] \in Nat => ev'[id] = ev[id]
             /\ \A id \in Ids : ev[id] # Absent => ev'[id] # Absent
             /\ IsPrefix(rows, rows')
  <2>1. rows \in Seq(Ids)
    BY <1>1 DEF StInv, StTypeOK
  <2>2. IsPrefix(rows, rows)
    BY <2>1 DEF IsPrefix
  <2>3. ASSUME NEW x \in Ids PROVE IsPrefix(rows, Append(rows, x))
    BY <2>1 DEF IsPrefix
  <2>. QED
    BY <1>1, <2>2, <2>3, EvStep DEF RecordsKept
<1>. QED
  BY <1>1, StInvariant, PTL DEF Spec, StoreAppendOnly

\* A record about to be answered was saved, unless SaveEvidence failed.
SavedFirst ==
  \A r \in Replicas, id \in Ids :
    ipc[r][id] = "audit" => ev[id] # Absent \/ <<"evidence", id>> \in dropped

\* A 202 is backed by the store's row and audit entry, unless the statement
\* that saves it failed, for any number of replicas and crashes.
THEOREM AckedTheorem == Spec => []AckedKept
<1>. DEFINE Inv == AckedKept /\ SavedFirst
<1> USE DEF memory, store, committer, observed
<1>1. Init => Inv
  BY DEF Init, AckedKept, SavedFirst
<1>2. ASSUME StInv, Inv, [Next]_vars PROVE Inv'
  <2>0. /\ StTypeOK /\ SavingFresh
        /\ \A id \in Ids : ev[id] # Absent => ev'[id] # Absent
    BY <1>2, EvStep DEF RecordsKept, StInv
  <2>1. ASSUME UNCHANGED <<acked, dropped, auditRows>>,
               \A q \in Replicas, x \in Ids : ipc'[q][x] = "audit" => ipc[q][x] = "audit"
        PROVE  Inv'
    BY <1>2, <2>0, <2>1 DEF AckedKept, SavedFirst, StTypeOK
  <2>2. ASSUME NEW r \in Replicas, NEW id \in Ids, IngestRecord(r, id) PROVE Inv'
    BY <2>0, <2>1, <2>2 DEF IngestRecord, StTypeOK
  <2>3. ASSUME NEW r \in Replicas, NEW id \in Ids, SaveEvidence(r, id) PROVE Inv'
    <3>1. /\ UNCHANGED <<acked, auditRows>> /\ dropped \subseteq dropped'
          /\ \A q \in Replicas, x \in Ids : q # r \/ x # id => ipc'[q][x] = ipc[q][x]
      BY <2>0, <2>3 DEF SaveEvidence, StTypeOK
    <3>2. ev'[id] # Absent \/ <<"evidence", id>> \in dropped'
      BY <2>0, <2>3, StoreAssumption DEF SaveEvidence, StTypeOK
    <3>3. AckedKept'
      BY <1>2, <2>0, <3>1 DEF AckedKept, StTypeOK
    <3>4. SavedFirst'
      BY <1>2, <2>0, <3>1, <3>2 DEF SavedFirst
    <3>. QED
      BY <3>3, <3>4
  <2>4. ASSUME NEW r \in Replicas, NEW id \in Ids, SaveAudit(r, id) PROVE Inv'
    <3>1. ipc[r][id] = "audit" /\ acked' = acked \cup {id} /\ ev' = ev
      BY <2>4 DEF SaveAudit
    <3>2. dropped \subseteq dropped' /\ auditRows \subseteq auditRows'
      BY <2>4 DEF SaveAudit
    <3>3. id \in auditRows' \/ <<"audit", id>> \in dropped'
      BY <2>4 DEF SaveAudit
    <3>4. ev[id] # Absent \/ <<"evidence", id>> \in dropped
      BY <1>2, <3>1 DEF SavedFirst
    <3>5. AckedKept'
      BY <1>2, <3>1, <3>2, <3>3, <3>4 DEF AckedKept
    <3>6. \A q \in Replicas, x \in Ids : ipc'[q][x] = "audit" => ipc[q][x] = "audit"
      BY <2>0, <2>4 DEF SaveAudit, StTypeOK
    <3>7. SavedFirst'
      BY <1>2, <3>1, <3>2, <3>6 DEF SavedFirst
    <3>. QED
      BY <3>5, <3>7
  <2>5. ASSUME NEW r \in Replicas, Crash(r) PROVE Inv'
    <3>1. \A q \in Replicas, x \in Ids : ipc'[q][x] = "audit" => ipc[q][x] = "audit"
      BY <2>0, <2>5 DEF Crash, StTypeOK
    <3>. QED
      BY <2>1, <2>5, <3>1 DEF Crash
  <2>6. ASSUME NEW r \in Replicas,
               MemAssign(r) \/ TxPick(r) \/ TxMax(r) \/ TxCommit(r) \/ Publish(r) \/ Local(r)
        PROVE  Inv'
    BY <2>1, <2>6 DEF MemAssign, TxPick, TxMax, TxCommit, Publish, Local, Rollback
  <2>7. CASE UNCHANGED vars
    BY <2>1, <2>7 DEF vars
  <2>. QED
    BY <1>2, <2>0, <2>2, <2>3, <2>4, <2>5, <2>6, <2>7, StepCases
<1>. QED
  BY <1>1, <1>2, StInvariant, PTL DEF Spec
-----------------------------------------------------------------------------
(* One replica: the store implements the append-only log *)

\* With one replica a transaction that has read the maximum is the only one
\* that can write a leaf, so the leaf it was given is still above all others,
\* and no leaf is given twice.
OneWriter ==
  Single =>
    /\ \A r \in deploy.replicas :
         cpc[r] = "commit" => \A id \in Ids : ev[id] \in Nat => ev[id] < cidx[r]
    /\ \A x, y \in Ids : ev[x] \in Nat /\ ev[x] = ev[y] => x = y

\* What a step does to the store's records: a row is inserted, a pending row is
\* given a leaf.
Saved(id) == ev[id] = Absent /\ ev' = [ev EXCEPT ![id] = Nil]

Given(id, leaf) == ev[id] = Nil /\ ev' = [ev EXCEPT ![id] = leaf]

\* The deployment is chosen once.
LEMMA DeployFixed ==
  ASSUME StInv, [Next]_vars
  PROVE  deploy' = deploy
  BY StepCases DEF StInv, vars, IngestRecord, SaveEvidence, SaveAudit, MemAssign, TxPick, TxMax,
     TxCommit, Publish, Local, Crash

\* With one replica a step inserts a row, gives a row the next leaf, or leaves
\* the records alone.
LEMMA SingleEffect ==
  ASSUME StInv, OneWriter, Single, [Next]_vars
  PROVE  \/ UNCHANGED ev
         \/ \E id \in Ids : Saved(id) \/ Given(id, NextLeaf)
<1> USE DEF memory, store, committer, observed
<1>0. PICK n \in Nat : StTypeOK /\ LockDiscipline /\ SavingFresh /\ LeavesUpTo(n)
  BY DEF StInv
<1>1. deploy.replicas \subseteq Replicas /\ NextLeaf = n
  BY <1>0, StoreAssumption, NextLeafIs DEF StTypeOK
<1>2. ASSUME NEW r \in deploy.replicas, NEW id \in Ids, SaveEvidence(r, id)
      PROVE  UNCHANGED ev \/ Saved(id)
  BY <1>0, <1>1, <1>2 DEF SaveEvidence, SavingFresh, Saved
<1>3. ASSUME NEW r \in deploy.replicas, MemAssign(r)
      PROVE  UNCHANGED ev \/ \E id \in Ids : Given(id, NextLeaf)
  BY <1>3 DEF MemAssign, Pending, Given
<1>4. ASSUME NEW r \in deploy.replicas, TxCommit(r)
      PROVE  UNCHANGED ev \/ \E id \in Ids : Given(id, NextLeaf)
  <2>1. cpc[r] = "commit" /\ cid[r] \in Ids /\ ev[cid[r]] = Nil /\ cidx[r] \in Nat
    BY <1>0, <1>1, <1>4, StoreAssumption DEF TxCommit, LockDiscipline, StTypeOK
  <2>2. cidx[r] = n
    <3>1. cidx[r] <= n
      BY <1>0, <1>1, <2>1 DEF LeavesUpTo
    <3>2. ASSUME cidx[r] < n PROVE FALSE
      <4>1. n - 1 \in 0..(n - 1)
        BY <2>1, <3>2
      <4>2. PICK id \in Ids : ev[id] = n - 1
        BY <1>0, <4>1 DEF LeavesUpTo
      <4>3. n - 1 < cidx[r]
        BY <2>1, <4>1, <4>2 DEF OneWriter
      <4>. QED
        BY <2>1, <3>2, <4>3
    <3>. QED
      BY <2>1, <3>1, <3>2
  <2>. QED
    BY <1>1, <1>4, <2>1, <2>2 DEF TxCommit, Rollback, Given
<1>5. ASSUME NEW r \in deploy.replicas,
             TxPick(r) \/ TxMax(r) \/ Publish(r) \/ Local(r) \/ Crash(r)
      PROVE  UNCHANGED ev
  BY <1>5 DEF TxPick, TxMax, Rollback, Publish, Local, Crash
<1>6. ASSUME NEW r \in deploy.replicas, NEW id \in Ids, IngestRecord(r, id) \/ SaveAudit(r, id)
      PROVE  UNCHANGED ev
  BY <1>6 DEF IngestRecord, SaveAudit
<1>7. CASE UNCHANGED vars
  BY <1>7 DEF vars
<1>. QED
  BY <1>2, <1>3, <1>4, <1>5, <1>6, <1>7 DEF Next, Tick

\* The only writer stays the only writer.
LEMMA OneWriterStep ==
  ASSUME StInv, OneWriter, [Next]_vars
  PROVE  OneWriter'
<1> SUFFICES ASSUME Single'
             PROVE  /\ \A r \in deploy.replicas' :
                         cpc'[r] = "commit" => \A id \in Ids : ev'[id] \in Nat => ev'[id] < cidx'[r]
                    /\ \A x, y \in Ids : ev'[x] \in Nat /\ ev'[x] = ev'[y] => x = y
  BY DEF OneWriter
<1> USE DEF memory, store, committer, observed
<1>0. PICK n \in Nat : StTypeOK /\ LockDiscipline /\ SavingFresh /\ LeavesUpTo(n)
  BY DEF StInv
<1>1. /\ deploy' = deploy /\ Single
      /\ deploy.replicas \subseteq Replicas /\ NextLeaf = n
      /\ Nil \notin Nat /\ Absent \notin Nat
  BY <1>0, StoreAssumption, NextLeafIs, DeployFixed DEF StTypeOK, Single
<1>2. ASSUME NEW x \in Ids, NEW y \in Ids, ev'[x] \in Nat, ev'[x] = ev'[y] PROVE x = y
  <2>0. \A u, v \in Ids : ev[u] \in Nat /\ ev[u] = ev[v] => u = v
    BY <1>1 DEF OneWriter
  <2>1. CASE UNCHANGED ev
    BY <1>2, <2>0, <2>1
  <2>2. ASSUME NEW id \in Ids, Saved(id) PROVE x = y
    BY <1>0, <1>1, <1>2, <2>0, <2>2 DEF Saved, StTypeOK
  <2>3. ASSUME NEW id \in Ids, Given(id, NextLeaf) PROVE x = y
    <3>1. ev'[id] = n /\ \A u \in Ids : u # id => ev'[u] = ev[u]
      BY <1>0, <1>1, <2>3 DEF Given, StTypeOK
    <3>2. \A u \in Ids : ev[u] # n
      BY <1>0 DEF LeavesUpTo
    <3>. QED
      BY <1>2, <2>0, <3>1, <3>2
  <2>. QED
    BY <1>1, <2>1, <2>2, <2>3, SingleEffect
<1>3. ASSUME NEW r \in deploy.replicas, cpc'[r] = "commit",
             NEW id \in Ids, ev'[id] \in Nat
      PROVE  ev'[id] < cidx'[r]
  <2>0. \A q \in deploy.replicas : q = r
    BY <1>1 DEF Single
  <2>1. CASE TxMax(r)
    <3>1. UNCHANGED ev /\ cidx'[r] = n
      BY <1>0, <1>1, <1>3, <2>1 DEF TxMax, Rollback, Proceed, StTypeOK
    <3>. QED
      BY <1>0, <1>3, <3>1 DEF LeavesUpTo
  <2>2. CASE UNCHANGED committer /\ (UNCHANGED ev \/ \E x \in Ids : Saved(x))
    <3>1. cpc[r] = "commit" /\ cidx'[r] = cidx[r]
      BY <1>3, <2>2
    <3>2. ev[id] \in Nat /\ ev'[id] = ev[id]
      BY <1>0, <1>1, <1>3, <2>2 DEF Saved, StTypeOK
    <3>. QED
      BY <1>1, <3>1, <3>2 DEF OneWriter
  <2>3. ASSUME NEW where, NEW x, NEW leaf, where # "commit", Proceed(r, where, x, leaf)
        PROVE  FALSE
    BY <1>0, <1>1, <1>3, <2>3 DEF Proceed, StTypeOK
  <2>4. ~(MemAssign(r) \/ TxPick(r) \/ TxCommit(r) \/ Publish(r) \/ Local(r) \/ Crash(r))
    BY <2>3 DEF MemAssign, TxPick, TxCommit, Rollback, Publish, Local, Crash
  <2>5. ASSUME NEW x \in Ids, SaveEvidence(r, x)
        PROVE  UNCHANGED committer /\ (UNCHANGED ev \/ \E y \in Ids : Saved(y))
    BY <1>0, <1>1, <2>5 DEF SaveEvidence, SavingFresh, Saved
  <2>6. ASSUME (\E x \in Ids : IngestRecord(r, x) \/ SaveAudit(r, x)) \/ UNCHANGED vars
        PROVE  UNCHANGED committer /\ UNCHANGED ev
    BY <2>6 DEF SaveAudit, IngestRecord, vars
  <2>7. \/ \E x \in Ids : IngestRecord(r, x) \/ SaveEvidence(r, x) \/ SaveAudit(r, x)
        \/ Tick(r) \/ Crash(r) \/ UNCHANGED vars
    BY <2>0 DEF Next
  <2>. QED
    BY <2>1, <2>2, <2>4, <2>5, <2>6, <2>7 DEF Tick
<1>. QED
  BY <1>1, <1>2, <1>3

\* With one replica no leaf is given twice.
LEMMA OneWriterInvariant == Spec => []OneWriter
<1>1. Init => OneWriter
  BY StoreAssumption DEF Init, OneWriter
<1>2. StInv /\ OneWriter /\ [Next]_vars => OneWriter'
  BY OneWriterStep
<1>. QED
  BY <1>1, <1>2, StInvariant, PTL DEF Spec

\* The record that has a leaf is the one the log of the refinement names.
LEMMA RecordAt ==
  ASSUME NEW f \in [Ids -> LeafState], NEW i \in Nat, NEW id \in Ids, f[id] = i,
         \A x, y \in Ids : f[x] \in Nat /\ f[x] = f[y] => x = y
  PROVE  (CHOOSE x \in Ids : f[x] = i) = id
  OBVIOUS

\* What Append adds to a sequence of known length.
LEMMA AppendIs ==
  ASSUME NEW q \in Seq(Ids), NEW n \in Nat, Len(q) = n, NEW id \in Ids
  PROVE  Append(q, id) = [i \in 1..(n + 1) |-> IF i = n + 1 THEN id ELSE q[i]]
<1> DEFINE app == Append(q, id)
<1>1. app \in Seq(Ids) /\ Len(app) = n + 1
  OBVIOUS
<1>2. \A i \in 1..(n + 1) : app[i] = IF i = n + 1 THEN id ELSE q[i]
  OBVIOUS
<1> HIDE DEF app
<1>3. app = [i \in 1..Len(app) |-> app[i]]
  BY <1>1
<1>4. app = [i \in 1..(n + 1) |-> IF i = n + 1 THEN id ELSE q[i]]
  BY <1>1, <1>2, <1>3
<1>. QED
  BY <1>4 DEF app

\* With one replica, however often it crashes and its statements fail, the
\* store implements AppendOnlyLog: SaveEvidence's INSERT is Submit, the UPDATE
\* of AssignNextPendingLeaf is AppendLeaf, everything else is a stutter.
THEOREM StoreRefinementTheorem == Spec => StoreImplementsLog
<1> DEFINE sub == {id \in Ids : ev[id] # Absent}
           lg  == [i \in 1..NextLeaf |-> CHOOSE id \in Ids : ev[id] = i - 1]
<1>1. Init => Log!AInit
  <2>1. ASSUME Init PROVE Leaves = {}
    BY <2>1, StoreAssumption DEF Init, Leaves
  <2>. QED
    BY <2>1 DEF Init, Log!AInit, NextLeaf
<1>2. ASSUME StInv, OneWriter, StInv', OneWriter', [Next]_vars, Single
      PROVE  [Log!ANext]_(Log!absVars)
  <2> USE <1>2
  <2>0. PICK n \in Nat : LeavesUpTo(n)
    BY DEF StInv
  <2>1. /\ NextLeaf = n /\ StTypeOK
        /\ Nil \notin Nat /\ Absent \notin Nat /\ Nil # Absent
    BY <2>0, NextLeafIs, StoreAssumption DEF StInv
  <2>2. ev \in [Ids -> LeafState] /\ ev' \in [Ids -> LeafState] /\ Single'
    BY DeployFixed DEF StInv, StTypeOK, Single
  <2>3. /\ \A x, y \in Ids : ev[x] \in Nat /\ ev[x] = ev[y] => x = y
        /\ \A x, y \in Ids : ev'[x] \in Nat /\ ev'[x] = ev'[y] => x = y
    BY <2>2 DEF OneWriter
  <2>4. CASE UNCHANGED ev
    BY <2>4 DEF Log!absVars, NextLeaf, Leaves
  <2>5. ASSUME \A id \in Ids : ev[id] \in Nat => ev'[id] = ev[id]
        PROVE  \A i \in 1..n : /\ (CHOOSE id \in Ids : ev[id] = i - 1) \in Ids
                               /\ ev[CHOOSE id \in Ids : ev[id] = i - 1] = i - 1
                               /\ (CHOOSE id \in Ids : ev'[id] = i - 1) =
                                    (CHOOSE id \in Ids : ev[id] = i - 1)
    <3>1. ASSUME NEW i \in 1..n
          PROVE  /\ (CHOOSE id \in Ids : ev[id] = i - 1) \in Ids
                 /\ ev[CHOOSE id \in Ids : ev[id] = i - 1] = i - 1
                 /\ (CHOOSE id \in Ids : ev'[id] = i - 1) = (CHOOSE id \in Ids : ev[id] = i - 1)
      <4>1. i - 1 \in 0..(n - 1) /\ i - 1 \in Nat
        BY <3>1
      <4>2. PICK x \in Ids : ev[x] = i - 1
        BY <2>0, <4>1 DEF LeavesUpTo
      <4>3. (CHOOSE id \in Ids : ev[id] = i - 1) = x
        BY <2>2, <2>3, <4>1, <4>2, RecordAt
      <4>4. ev'[x] = i - 1
        BY <2>5, <4>1, <4>2
      <4>5. (CHOOSE id \in Ids : ev'[id] = i - 1) = x
        BY <2>2, <2>3, <4>1, <4>4, RecordAt
      <4>. QED
        BY <4>2, <4>3, <4>5
    <3>. QED
      BY <3>1
  <2>6. ASSUME NEW id \in Ids, Saved(id) PROVE Log!Submit(id)
    <3>1. /\ ev'[id] = Nil /\ ev[id] = Absent
          /\ \A x \in Ids : x # id => ev'[x] = ev[x]
      BY <2>2, <2>6 DEF Saved
    <3>2. Leaves' = Leaves
      BY <2>1, <3>1 DEF Leaves
    <3>3. NextLeaf' = NextLeaf
      BY <3>2 DEF NextLeaf
    <3>4. lg' = lg
      BY <2>1, <2>5, <3>1, <3>3
    <3>5. id \notin sub /\ sub' = sub \cup {id}
      BY <2>1, <3>1
    <3>. QED
      BY <3>4, <3>5 DEF Log!Submit
  <2>7. ASSUME NEW id \in Ids, Given(id, NextLeaf) PROVE Log!AppendLeaf(id)
    <3>1. /\ ev'[id] = n /\ ev[id] = Nil
          /\ \A x \in Ids : x # id => ev'[x] = ev[x]
      BY <2>1, <2>2, <2>7 DEF Given
    <3>2. NextLeaf' = n + 1
      <4>1. Leaves' = 0..n
        <5>1. ASSUME NEW i \in Leaves' PROVE i \in 0..n
          BY <2>0, <3>1, <5>1 DEF Leaves, LeavesUpTo
        <5>2. ASSUME NEW i \in 0..n PROVE i \in Leaves'
          <6>1. PICK x \in Ids : ev'[x] = i
            BY <2>0, <2>1, <3>1, <5>2 DEF LeavesUpTo
          <6>. QED
            BY <5>2, <6>1 DEF Leaves
        <5>. QED
          BY <5>1, <5>2
      <4>2. n \in Leaves' /\ Leaves' # {} /\ \A y \in Leaves' : n >= y
        BY <4>1
      <4>3. \A x \in Leaves' : (\A y \in Leaves' : x >= y) => x = n
        BY <4>1
      <4>4. Max(Leaves') = n
        BY <4>2, <4>3 DEF Max
      <4>. QED
        BY <4>2, <4>4 DEF NextLeaf, Max
    <3>3. /\ \A i \in 1..n : lg[i] \in Ids /\ ev[lg[i]] = i - 1
          /\ lg = [i \in 1..n |-> lg[i]] /\ lg \in Seq(Ids) /\ Len(lg) = n
      BY <2>1, <2>5, <3>1
    <3>4. lg' = Append(lg, id)
      <4>1. Append(lg, id) = [i \in 1..(n + 1) |-> IF i = n + 1 THEN id ELSE lg[i]]
        <5> HIDE DEF lg
        <5>. QED
          BY <3>3, AppendIs
      <4>2. (CHOOSE x \in Ids : ev'[x] = n) = id
        BY <2>2, <2>3, <3>1, RecordAt
      <4>3. ASSUME NEW i \in 1..(n + 1)
            PROVE  (CHOOSE x \in Ids : ev'[x] = i - 1) = IF i = n + 1 THEN id ELSE lg[i]
        <5>1. CASE i = n + 1
          <6>1. i - 1 = n
            BY <5>1
          <6>. QED
            BY <4>2, <5>1, <6>1
        <5>2. CASE i # n + 1
          <6>1. i \in 1..n
            BY <5>2
          <6>. QED
            BY <2>1, <2>5, <3>1, <5>2, <6>1
        <5>. QED
          BY <5>1, <5>2
      <4>4. lg' = [i \in 1..(n + 1) |-> CHOOSE x \in Ids : ev'[x] = i - 1]
        BY <3>2
      <4>. QED
        BY <4>1, <4>3, <4>4
    <3>5. \A i \in DOMAIN lg : lg[i] # id
      BY <2>1, <3>1, <3>3
    <3>6. id \in sub /\ sub' = sub
      BY <2>1, <3>1
    <3>. QED
      BY <3>4, <3>5, <3>6 DEF Log!AppendLeaf
  <2>. QED
    BY <2>4, <2>6, <2>7, SingleEffect DEF Log!ANext
<1>. QED
  BY <1>1, <1>2, StInvariant, OneWriterInvariant, PTL DEF Spec, StoreImplementsLog
-----------------------------------------------------------------------------
(* One replica, no fault: the two places a record is read from *)

\* While nothing has failed, the one replica has in its globals every record
\* the store has, and a committer about to publish holds the record's leaf.
GlobalsCover ==
  Single /\ faults = 0 =>
    \A r \in deploy.replicas :
      /\ \A id \in Ids : ev[id] # Absent => storeMap[r][id] # Absent
      /\ cpc[r] = "publish" => cid[r] \in Ids /\ ev[cid[r]] = cidx[r]

\* ReadsAgree for one record of one replica.
Agrees(r, id) ==
  GetEvidence(id) \in Nat /\ storeMap[r][id] # GetEvidence(id) =>
    cpc[r] = "publish" /\ cid[r] = id

\* In one process whose database has not failed, GetEvidence, which reads the
\* store, and GetProof and the checkpoints, which read storeMap, give a record
\* the same leaf, but for the moment between the commit and Publish.
THEOREM ReadsTheorem == Spec => []ReadsAgree
<1> USE DEF memory, store, committer, observed, GetEvidence
<1>1. Init => GlobalsCover /\ ReadsAgree
  BY StoreAssumption DEF Init, GlobalsCover, ReadsAgree
<1>2. ASSUME StInv, GlobalsCover, ReadsAgree, [Next]_vars
      PROVE  GlobalsCover' /\ ReadsAgree'
  <2> SUFFICES ASSUME Single', faults' = 0, NEW r \in deploy.replicas'
               PROVE  /\ \A id \in Ids : ev'[id] # Absent => storeMap'[r][id] # Absent
                      /\ cpc'[r] = "publish" => cid'[r] \in Ids /\ ev'[cid'[r]] = cidx'[r]
                      /\ \A id \in Ids : Agrees(r, id)'
    BY DEF GlobalsCover, ReadsAgree, Agrees
  <2> DEFINE Covers == \A id \in Ids : ev[id] # Absent => storeMap[r][id] # Absent
             Holds  == cpc[r] = "publish" => cid[r] \in Ids /\ ev[cid[r]] = cidx[r]
             Agree  == \A id \in Ids : Agrees(r, id)
             Goal   == Covers' /\ Holds' /\ Agree'
  <2>0. /\ StTypeOK /\ LockDiscipline /\ SavingFresh
        /\ deploy' = deploy /\ Single /\ r \in deploy.replicas /\ r \in Replicas
        /\ Nil \notin Nat /\ Absent \notin Nat /\ Nil # Absent /\ NextLeaf \in Nat
    <3>1. deploy' = deploy /\ StTypeOK
      BY <1>2, DeployFixed DEF StInv
    <3>2. Single /\ r \in deploy.replicas
      BY <3>1 DEF Single
    <3>3. r \in Replicas
      BY <3>1, <3>2, StoreAssumption DEF StTypeOK
    <3>. QED
      BY <1>2, <3>1, <3>2, <3>3, StoreAssumption, NextLeafIs DEF StInv
  <2>1. ~Fault /\ faults' = faults
    <3>1. ~Fault
      BY <2>0 DEF Fault, StTypeOK
    <3>. QED
      BY <1>2, <2>0, <3>1, StepCases
         DEF IngestRecord, SaveEvidence, SaveAudit, MemAssign, TxPick, TxMax, TxCommit,
             Publish, Local, Crash, vars
  <2>2. Covers /\ Holds /\ Agree
    BY <1>2, <2>0, <2>1 DEF GlobalsCover, ReadsAgree, Agrees
  <2>3. CASE UNCHANGED <<ev, storeMap, committer>>
    BY <2>2, <2>3 DEF Agrees
  <2>4. ASSUME NEW id \in Ids, IngestRecord(r, id) PROVE Goal
    <3>1. /\ storeMap'[r] = [storeMap[r] EXCEPT ![id] = Nil] /\ ev[id] = Absent
          /\ UNCHANGED <<ev, cpc, cid, cidx>>
      BY <2>0, <2>4 DEF IngestRecord, Fresh, StTypeOK
    <3>2. storeMap'[r][id] = Nil /\ \A x \in Ids : x # id => storeMap'[r][x] = storeMap[r][x]
      BY <2>0, <3>1 DEF StTypeOK
    <3>. QED
      BY <2>0, <2>2, <3>1, <3>2 DEF Agrees
  <2>5. ASSUME NEW y \in Ids, SaveEvidence(r, y) PROVE Goal
    <3>1. /\ ev' = [ev EXCEPT ![y] = Nil] /\ ev[y] = Absent
          /\ storeMap[r][y] # Absent
          /\ UNCHANGED <<storeMap, cpc, cid, cidx>>
      BY <2>0, <2>1, <2>5 DEF SaveEvidence, SavingFresh
    <3>2. ev'[y] = Nil /\ \A x \in Ids : x # y => ev'[x] = ev[x]
      BY <2>0, <3>1 DEF StTypeOK
    <3>3. Covers'
      BY <2>2, <3>1, <3>2
    <3>4. Holds'
      <4>1. cpc[r] = "publish" => cidx[r] \in Nat
        BY <2>0 DEF StTypeOK
      <4>. QED
        BY <2>0, <2>2, <3>1, <3>2, <4>1
    <3>5. Agree'
      BY <2>0, <2>2, <3>1, <3>2 DEF Agrees
    <3>. QED
      BY <3>3, <3>4, <3>5
  <2>6. ASSUME NEW id \in Ids, NEW leaf \in Nat, cpc[r] # "publish", ev[id] = Nil,
               ev' = [ev EXCEPT ![id] = leaf], Proceed(r, "publish", id, leaf), UNCHANGED storeMap
        PROVE  Goal
    <3>1. ev'[id] = leaf /\ \A x \in Ids : x # id => ev'[x] = ev[x]
      BY <2>0, <2>6 DEF StTypeOK
    <3>2. cpc'[r] = "publish" /\ cid'[r] = id /\ cidx'[r] = leaf
      BY <2>0, <2>6 DEF Proceed, StTypeOK
    <3>. QED
      BY <2>0, <2>2, <2>6, <3>1, <3>2 DEF Agrees
  <2>7. ASSUME NEW where, NEW x, NEW leaf, where # "publish", cpc[r] # "publish",
               Proceed(r, where, x, leaf), UNCHANGED <<ev, storeMap>>
        PROVE  Goal
    <3>1. cpc'[r] # "publish"
      BY <2>0, <2>7 DEF Proceed, StTypeOK
    <3>. QED
      BY <2>2, <2>7, <3>1 DEF Agrees
  <2>8. CASE MemAssign(r)
    <3>1. cpc[r] # "publish" /\ UNCHANGED storeMap
      BY <2>8 DEF MemAssign
    <3>. QED
      BY <2>0, <2>6, <2>7, <2>8, <3>1 DEF MemAssign, Pending
  <2>9. CASE TxPick(r) \/ TxMax(r)
    <3>1. cpc[r] # "publish" /\ UNCHANGED storeMap
      BY <2>9 DEF TxPick, TxMax
    <3>. QED
      BY <2>1, <2>7, <2>9, <3>1 DEF TxPick, TxMax, Rollback
  <2>10. CASE TxCommit(r)
    <3>1. /\ cpc[r] = "commit" /\ UNCHANGED storeMap
          /\ ev' = [ev EXCEPT ![cid[r]] = cidx[r]] /\ Proceed(r, "publish", cid[r], cidx[r])
      BY <2>1, <2>10 DEF TxCommit
    <3>2. cid[r] \in Ids /\ ev[cid[r]] = Nil /\ cidx[r] \in Nat
      BY <2>0, <3>1, StoreAssumption DEF LockDiscipline, StTypeOK
    <3>. QED
      BY <2>6, <3>1, <3>2
  <2>11. CASE Publish(r)
    <3>1. /\ cid[r] \in Ids /\ ev[cid[r]] = cidx[r] /\ cidx[r] \in Nat
          /\ UNCHANGED ev /\ Proceed(r, "sleep", Nil, 0)
      BY <2>0, <2>2, <2>11 DEF Publish, StTypeOK
    <3>2. storeMap' = [storeMap EXCEPT ![r][cid[r]] = cidx[r]]
      BY <2>0, <2>2, <2>11, <3>1 DEF Publish
    <3>3. /\ storeMap'[r][cid[r]] = cidx[r]
          /\ \A x \in Ids : x # cid[r] => storeMap'[r][x] = storeMap[r][x]
      BY <2>0, <3>1, <3>2 DEF StTypeOK
    <3>4. cpc'[r] = "sleep"
      BY <2>0, <3>1 DEF Proceed, StTypeOK
    <3>. QED
      BY <2>0, <2>2, <3>1, <3>3, <3>4 DEF Agrees
  <2>12. CASE Local(r)
    <3>1. cpc[r] = "local" /\ UNCHANGED ev /\ Proceed(r, "sleep", Nil, 0)
      BY <2>12 DEF Local
    <3>2. cpc'[r] = "sleep"
      BY <2>0, <3>1 DEF Proceed, StTypeOK
    <3>3. ASSUME NEW id \in Ids, storeMap[r][id] = Nil,
                 storeMap' = [storeMap EXCEPT ![r][id] = next[r]]
          PROVE  Goal
      <4>1. /\ storeMap'[r][id] \in Nat
            /\ \A x \in Ids : x # id => storeMap'[r][x] = storeMap[r][x]
        BY <2>0, <3>3 DEF StTypeOK
      <4>2. ev[id] \notin Nat
        BY <2>0, <2>2, <3>1, <3>3 DEF Agrees
      <4>. QED
        BY <2>0, <2>2, <3>1, <3>2, <4>1, <4>2 DEF Agrees
    <3>. QED
      BY <2>7, <2>12, <3>1, <3>3 DEF Local
  <2>13. ASSUME (\E x \in Ids : SaveAudit(r, x)) \/ UNCHANGED vars
         PROVE  UNCHANGED <<ev, storeMap, committer>>
    BY <2>13 DEF SaveAudit, vars
  <2>14. ~Crash(r)
    BY <2>1 DEF Crash
  <2>15. \/ \E x \in Ids : IngestRecord(r, x) \/ SaveEvidence(r, x) \/ SaveAudit(r, x)
         \/ Tick(r) \/ UNCHANGED vars
    BY <1>2, <2>0, <2>14 DEF Next, Single
  <2>. QED
    BY <2>3, <2>4, <2>5, <2>8, <2>9, <2>10, <2>11, <2>12, <2>13, <2>15 DEF Tick
<1>. QED
  BY <1>1, <1>2, StInvariant, PTL DEF Spec
=============================================================================

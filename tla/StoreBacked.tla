----------------------------- MODULE StoreBacked -----------------------------
(***************************************************************************)
(* vault-api with a store installed (services/vault-api/store/store.go),   *)
(* the mode the handlers in ingest.go have branches for: Ingest also saves *)
(* the record to the store, GetEvidence reads it from there, and the       *)
(* committer asks the store for the next leaf before it falls back to the  *)
(* in-memory counter.                                                      *)
(*                                                                         *)
(* store.Init picks the kind once: without DATABASE_URL memStore, private  *)
(* to one process and guarded by its own mutex; otherwise pgStore, one     *)
(* database shared by the replicas of the deployment, in which             *)
(* AssignNextPendingLeaf is a READ COMMITTED transaction of three          *)
(* statements.  Any use of the database may fail; "faults" counts such     *)
(* failures and the restarts of replicas.                                  *)
(***************************************************************************)
EXTENDS Naturals, Sequences, SequencesExt

CONSTANTS Ids,         \* the identifiers uuid.NewString can return
          Replicas,    \* vault-api processes
          Deployments, \* the deployments considered
          MaxFaults,   \* bound on failed uses of the database and restarts
          Absent,      \* an id with no entry
          Nil          \* a leaf index that is nil (NULL), no record held

ASSUME StoreAssumption ==
  /\ \A d \in Deployments :
       /\ d \in [kind : {"mem", "pg"}, replicas : SUBSET Replicas]
       /\ d.kind = "mem" => \A r, q \in d.replicas : r = q
  /\ MaxFaults \in Nat
  /\ Absent # Nil
  /\ {Absent, Nil} \cap (Nat \cup Ids \cup Replicas) = {}

VARIABLES deploy,    \* the deployment: kind of store, running replicas
          storeMap,  \* replica -> id -> Absent, Nil or the leaf index it knows
          next,      \* replica -> the fallback counter of ingest.go
          ipc,       \* replica -> id -> where the Ingest goroutine of that record is
          rows,      \* ids saved to the store, in created_at order
          ev,        \* the store's leaf index of each id
          auditRows, \* ids with an audit entry in the store
          rowLock,   \* id -> the replica whose transaction holds the row, or Nil
          cpc,       \* where each replica's committer is
          cid,       \* the record the committer was given
          cidx,      \* the leaf index it was given
          acked,     \* ids answered with 202
          dropped,   \* <<table, id>> of the saves that failed
          faults     \* failures and restarts so far

memory == <<storeMap, next>>
store == <<rows, ev, auditRows, rowLock>>
committer == <<cpc, cid, cidx>>
observed == <<acked, dropped>>
vars == <<deploy, storeMap, next, ipc, rows, ev, auditRows, rowLock, cpc, cid,
          cidx, acked, dropped, faults>>

Leaves == {ev[id] : id \in {x \in Ids : ev[x] \in Nat}}

\* memStore's own counter and SELECT max(leaf_index) + 1 agree: leaves are
\* never removed, so both are one more than the largest leaf.
NextLeaf == IF Leaves = {} THEN 0 ELSE Max(Leaves) + 1

\* A use of the database fails.
Fault ==
  /\ deploy.kind = "pg"
  /\ faults < MaxFaults
  /\ faults' = faults + 1

\* store.Init has run in every replica; the globals and the store are empty.
Init ==
  /\ deploy \in Deployments
  /\ storeMap = [r \in Replicas |-> [id \in Ids |-> Absent]]
  /\ next = [r \in Replicas |-> 0]
  /\ ipc = [r \in Replicas |-> [id \in Ids |-> "idle"]]
  /\ rows = <<>>
  /\ ev = [id \in Ids |-> Absent]
  /\ auditRows = {}
  /\ rowLock = [id \in Ids |-> Nil]
  /\ cpc = [r \in Replicas |-> "sleep"]
  /\ cid = [r \in Replicas |-> Nil]
  /\ cidx = [r \in Replicas |-> 0]
  /\ acked = {}
  /\ dropped = {}
  /\ faults = 0
-----------------------------------------------------------------------------
(* Ingest and GetEvidence *)

Fresh(id) == ev[id] = Absent /\ \A q \in Replicas : storeMap[q][id] = Absent

\* Mutant: the client is answered before the record is saved.
IngestRecord_AckFirst(r, id) ==
  /\ Fresh(id) /\ id \notin acked
  /\ storeMap' = [storeMap EXCEPT ![r][id] = Nil]
  /\ ipc' = [ipc EXCEPT ![r][id] = "save"]
  /\ acked' = acked \cup {id}
  /\ UNCHANGED <<deploy, next, store, committer, dropped, faults>>

\* The critical section of mu, as without a store; the id was never used.  Any
\* number of requests are in flight, each in a goroutine of its own.
IngestRecord(r, id) ==
  /\ Fresh(id) /\ id \notin acked
  /\ storeMap' = [storeMap EXCEPT ![r][id] = Nil]
  /\ ipc' = [ipc EXCEPT ![r][id] = "save"]
  /\ UNCHANGED <<deploy, next, store, committer, observed, faults>>

\* SaveEvidence, after the unlock.  Its error is ignored.
SaveEvidence(r, id) ==
  /\ ipc[r][id] = "save"
  /\ \/ /\ ev' = [ev EXCEPT ![id] = Nil]
        /\ rows' = Append(rows, id)
        /\ UNCHANGED <<dropped, faults>>
     \/ /\ Fault
        /\ dropped' = dropped \cup {<<"evidence", id>>}
        /\ UNCHANGED <<ev, rows>>
  /\ ipc' = [ipc EXCEPT ![r][id] = "audit"]
  /\ UNCHANGED <<deploy, memory, auditRows, rowLock, committer, acked>>

\* SaveAudit, its error ignored too, and 202.
SaveAudit(r, id) ==
  /\ ipc[r][id] = "audit"
  /\ \/ /\ auditRows' = auditRows \cup {id}
        /\ UNCHANGED <<dropped, faults>>
     \/ /\ Fault
        /\ dropped' = dropped \cup {<<"audit", id>>}
        /\ UNCHANGED auditRows
  /\ acked' = acked \cup {id}
  /\ ipc' = [ipc EXCEPT ![r][id] = "idle"]
  /\ UNCHANGED <<deploy, memory, rows, ev, rowLock, committer>>

\* The leaf GetEvidence answers with: the store is asked, never storeMap.  An
\* id without a row is a 404, and a pending record shows no leaf.
GetEvidence(id) == ev[id]
-----------------------------------------------------------------------------
(* The committer's tick *)

Pending(id) == ev[id] = Nil /\ rowLock[id] = Nil

\* The committer of r goes to its next step with this record and leaf.
Proceed(r, where, id, leaf) ==
  /\ cpc' = [cpc EXCEPT ![r] = where]
  /\ cid' = [cid EXCEPT ![r] = id]
  /\ cidx' = [cidx EXCEPT ![r] = leaf]

\* memStore.AssignNextPendingLeaf: one critical section of the store's mutex;
\* any pending record (the map is ranged over in random order).
MemAssign(r) ==
  /\ deploy.kind = "mem" /\ cpc[r] = "sleep"
  /\ \/ \E id \in Ids :
          /\ Pending(id)
          /\ ev' = [ev EXCEPT ![id] = NextLeaf]
          /\ Proceed(r, "publish", id, NextLeaf)
     \/ /\ \A id \in Ids : ~ Pending(id)
        /\ Proceed(r, "local", Nil, 0)
        /\ UNCHANGED ev
  /\ UNCHANGED <<deploy, memory, ipc, rows, auditRows, rowLock, observed, faults>>

\* Mutant: a failed transaction keeps its row locked.
Rollback_KeepsLock(r) ==
  /\ Proceed(r, "local", Nil, 0)
  /\ UNCHANGED store

\* The transaction ends without effect and the tick goes on without the store.
Rollback(r) ==
  /\ rowLock' = [id \in Ids |-> IF rowLock[id] = r THEN Nil ELSE rowLock[id]]
  /\ Proceed(r, "local", Nil, 0)
  /\ UNCHANGED <<rows, ev, auditRows>>

\* Mutant: the row is read without FOR UPDATE SKIP LOCKED.
TxPick_NoLock(r) ==
  /\ deploy.kind = "pg" /\ cpc[r] = "sleep"
  /\ \E id \in Ids : ev[id] = Nil /\ Proceed(r, "max", id, 0)
  /\ UNCHANGED <<deploy, memory, ipc, store, observed, faults>>

\* Begin and SELECT id ... FOR UPDATE SKIP LOCKED LIMIT 1: the oldest pending
\* row nobody has locked.  No such row, and any error, end the transaction.
TxPick(r) ==
  /\ deploy.kind = "pg" /\ cpc[r] = "sleep"
  /\ \/ \E i \in DOMAIN rows :
          /\ Pending(rows[i])
          /\ \A j \in 1..(i - 1) : ~ Pending(rows[j])
          /\ rowLock' = [rowLock EXCEPT ![rows[i]] = r]
          /\ Proceed(r, "max", rows[i], 0)
          /\ UNCHANGED <<rows, ev, auditRows, faults>>
     \/ /\ \A i \in DOMAIN rows : ~ Pending(rows[i])
        /\ Rollback(r)
        /\ UNCHANGED faults
     \/ Fault /\ Rollback(r)
  /\ UNCHANGED <<deploy, memory, ipc, observed>>

\* Mutant: the NULL of an empty table is used as it comes.
TxMax_Null(r) ==
  /\ cpc[r] = "max"
  /\ Proceed(r, "commit", cid[r], IF Leaves = {} THEN Nil ELSE NextLeaf)
  /\ UNCHANGED <<deploy, memory, ipc, store, observed, faults>>

\* Mutant: the maximum itself is taken for the new leaf.
TxMax_NoIncrement(r) ==
  /\ cpc[r] = "max"
  /\ Proceed(r, "commit", cid[r], IF Leaves = {} THEN 0 ELSE Max(Leaves))
  /\ UNCHANGED <<deploy, memory, ipc, store, observed, faults>>

\* SELECT max(leaf_index): sees what is committed now, locks nothing.
TxMax(r) ==
  /\ cpc[r] = "max"
  /\ \/ /\ Proceed(r, "commit", cid[r], NextLeaf)
        /\ UNCHANGED <<store, faults>>
     \/ Fault /\ Rollback(r)
  /\ UNCHANGED <<deploy, memory, ipc, observed>>

\* UPDATE and COMMIT.  A commit can also take effect and its answer be lost:
\* the tick then goes on as after an error.
TxCommit(r) ==
  /\ cpc[r] = "commit"
  /\ \/ /\ ev' = [ev EXCEPT ![cid[r]] = cidx[r]]
        /\ rowLock' = [rowLock EXCEPT ![cid[r]] = Nil]
        /\ \/ Proceed(r, "publish", cid[r], cidx[r]) /\ UNCHANGED faults
           \/ Proceed(r, "local", Nil, 0) /\ Fault
        /\ UNCHANGED <<rows, auditRows>>
     \/ Fault /\ Rollback(r)
  /\ UNCHANGED <<deploy, memory, ipc, observed>>

\* Mutant: a record that has a number in memory keeps it.
Publish_KeepsLocal(r) ==
  /\ cpc[r] = "publish"
  /\ storeMap' = IF storeMap[r][cid[r]] = Nil
                   THEN [storeMap EXCEPT ![r][cid[r]] = cidx[r]]
                   ELSE storeMap
  /\ Proceed(r, "sleep", Nil, 0)
  /\ UNCHANGED <<deploy, next, ipc, store, observed, faults>>

\* Under mu: the replica that was given the leaf notes it, if the record is one
\* of its own, in place of the number the fallback may have given it.
Publish(r) ==
  /\ cpc[r] = "publish"
  /\ storeMap' = IF storeMap[r][cid[r]] # Absent
                   THEN [storeMap EXCEPT ![r][cid[r]] = cidx[r]]
                   ELSE storeMap
  /\ Proceed(r, "sleep", Nil, 0)
  /\ UNCHANGED <<deploy, next, ipc, store, observed, faults>>

\* Under mu: no leaf from the store, so any pending record of storeMap gets
\* one from the process's own counter.
Local(r) ==
  /\ cpc[r] = "local"
  /\ \/ \E id \in Ids :
          /\ storeMap[r][id] = Nil
          /\ storeMap' = [storeMap EXCEPT ![r][id] = next[r]]
          /\ next' = [next EXCEPT ![r] = @ + 1]
     \/ /\ \A id \in Ids : storeMap[r][id] # Nil
        /\ UNCHANGED memory
  /\ Proceed(r, "sleep", Nil, 0)
  /\ UNCHANGED <<deploy, ipc, store, observed, faults>>
-----------------------------------------------------------------------------
\* A replica dies and starts again: its globals are empty, its transaction is
\* rolled back by the database.  (A process with memStore starts from Init.)
Crash(r) ==
  /\ Fault
  /\ storeMap' = [storeMap EXCEPT ![r] = [id \in Ids |-> Absent]]
  /\ next' = [next EXCEPT ![r] = 0]
  /\ ipc' = [ipc EXCEPT ![r] = [id \in Ids |-> "idle"]]
  /\ rowLock' = [id \in Ids |-> IF rowLock[id] = r THEN Nil ELSE rowLock[id]]
  /\ Proceed(r, "sleep", Nil, 0)
  /\ UNCHANGED <<deploy, rows, ev, auditRows, observed>>

Tick(r) ==
  MemAssign(r) \/ TxPick(r) \/ TxMax(r) \/ TxCommit(r) \/ Publish(r) \/ Local(r)

Next ==
  \E r \in deploy.replicas :
    \/ \E id \in Ids : IngestRecord(r, id) \/ SaveEvidence(r, id) \/ SaveAudit(r, id)
    \/ Tick(r)
    \/ Crash(r)

Spec == Init /\ [][Next]_vars

\* The committer's loop never ends.  Nothing is assumed of the handlers.
FairSpec == Spec /\ \A r \in Replicas : WF_vars(r \in deploy.replicas /\ Tick(r))
-----------------------------------------------------------------------------
(* Properties *)

LeafState == Nat \cup {Absent, Nil}

\* Every variable holds what the handlers and the store's statements put there.
StTypeOK ==
  /\ deploy \in Deployments
  /\ storeMap \in [Replicas -> [Ids -> LeafState]]
  /\ next \in [Replicas -> Nat]
  /\ ipc \in [Replicas -> [Ids -> {"idle", "save", "audit"}]]
  /\ rows \in Seq(Ids)
  /\ ev \in [Ids -> LeafState]
  /\ auditRows \subseteq Ids
  /\ rowLock \in [Ids -> Replicas \cup {Nil}]
  /\ cpc \in [Replicas -> {"sleep", "max", "commit", "publish", "local"}]
  /\ cid \in [Replicas -> Ids \cup {Nil}]
  /\ cidx \in [Replicas -> Nat]
  /\ acked \subseteq Ids
  /\ dropped \subseteq {"evidence", "audit"} \X Ids
  /\ faults \in Nat

\* FOR UPDATE SKIP LOCKED hands a row to one replica at a time, and the row
\* stays pending until that transaction ends, crash or error included.
LockDiscipline ==
  /\ \A r \in Replicas :
       cpc[r] \in {"max", "commit"} => cid[r] \in Ids /\ rowLock[cid[r]] = r
  /\ \A id \in Ids :
       rowLock[id] # Nil =>
         ev[id] = Nil /\ cid[rowLock[id]] = id /\ cpc[rowLock[id]] \in {"max", "commit"}

\* A 202 is backed by the store, whatever crashed since: the record has a row
\* and an audit entry there, unless the very statement that saves it failed.
AckedKept ==
  \A id \in acked :
    /\ ev[id] # Absent \/ <<"evidence", id>> \in dropped
    /\ id \in auditRows \/ <<"audit", id>> \in dropped

Single == \A r, q \in deploy.replicas : r = q

\* GetEvidence reads the store, GetProof and the checkpoints read storeMap.
\* In one process whose database has not failed they disagree on a record that
\* has a leaf only while the committer is between the store and mu.
ReadsAgree ==
  Single /\ faults = 0 =>
    \A r \in deploy.replicas, id \in Ids :
      GetEvidence(id) \in Nat /\ storeMap[r][id] # GetEvidence(id) =>
        cpc[r] = "publish" /\ cid[r] = id

\* Whatever the replicas, crashes and failed statements do, a leaf index in
\* the store is written once, and no row is removed.
StoreAppendOnly ==
  [][/\ \A id \in Ids : ev[id] \in Nat => ev'[id] = ev[id]
     /\ \A id \in Ids : ev[id] # Absent => ev'[id] # Absent
     /\ IsPrefix(rows, rows')]_vars

\* The store's leaves are 0, 1, 2, ... with no index given twice or skipped.
StoreLeavesExact ==
  /\ \A id1, id2 \in Ids : ev[id1] \in Nat /\ ev[id1] = ev[id2] => id1 = id2
  /\ \A id \in Ids : ev[id] \in Nat => \A i \in 0..ev[id] : \E x \in Ids : ev[x] = i

\* The log of the refinement: the store read in leaf order.
Log == INSTANCE AppendOnlyLog
         WITH submitted <- {id \in Ids : ev[id] # Absent},
              log       <- [i \in 1..NextLeaf |-> CHOOSE id \in Ids : ev[id] = i - 1]

\* With one replica, crashing, restarting and losing statements as it may, the
\* store implements the append-only log: every step saves one record, appends
\* one leaf at the end, or does neither.
StoreImplementsLog == Log!AInit /\ [][Single => [Log!ANext]_(Log!absVars)]_vars

\* Every record the store accepted gets a leaf there once the database stops
\* failing; with memStore the process ends up reporting that leaf for good,
\* even if the fallback counter numbered the record differently in between.
SavedCommitted ==
  \A id \in Ids :
    /\ (ev[id] = Nil) ~> (ev[id] \in Nat)
    /\ (deploy.kind = "mem" /\ ev[id] = Nil)
         ~> [](\A r \in deploy.replicas : storeMap[r][id] = ev[id])
=============================================================================

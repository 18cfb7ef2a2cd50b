----------------------------- MODULE EvidenceLog -----------------------------
(***************************************************************************)
(* The evidence side of the vault-api process                              *)
(* (services/vault-api/handler/ingest.go): the globals storeMap, next and  *)
(* audits, the goroutines that serve Ingest, GetEvidence, GetProof and     *)
(* GetAudit, and the committer goroutine, as cmd/server/main.go wires      *)
(* them.  No store is installed there (store.Init has no caller), so       *)
(* store.Current() is nil and the globals are the only state.              *)
(*                                                                         *)
(* A step is what runs between two points at which another goroutine can   *)
(* interfere: a whole critical section of mu, or one access to a shared    *)
(* record outside it.  GetEvidence and GetProof look a record up under mu  *)
(* but read rec.LeafIndex after the unlock; each such racy read is a step  *)
(* of its own and returns the value of the pointer at that moment.         *)
(***************************************************************************)
EXTENDS Naturals, Sequences, SequencesExt

CONSTANTS Ids,       \* the identifiers uuid.NewString can return
          Clients,   \* goroutines serving requests, one request at a time
          Absent,    \* an id with no entry in storeMap
          Nil        \* a nil pointer: a LeafIndex not assigned, no record held

ASSUME SentinelAssumption ==
  /\ Absent # Nil
  /\ Absent \notin Nat \cup Ids
  /\ Nil \notin Nat \cup Ids

VARIABLES storeMap,  \* id -> Absent, Nil or the leaf index
          next,      \* the next leaf index to hand out
          audits,    \* resource ids of the audit entries, oldest first
          pc,        \* where each client's goroutine is
          arg,       \* the record each client's goroutine holds
          leaf,      \* GetProof's first dereference of rec.LeafIndex
          status,    \* the HTTP status each client got last (0: none yet)
          acked,     \* ids handed to a client with status 202
          shown,     \* <<id, leaf index>> pairs disclosed to clients
          proofs,    \* <<id, leaf_index, tree_size>> of the proofs served
          auditView  \* the audit entries each client's last GetAudit listed

globals == <<storeMap, next, audits>>
requests == <<pc, arg, leaf, status>>
observed == <<acked, shown, proofs, auditView>>
evVars == <<storeMap, next, audits, pc, arg, leaf, status,
            acked, shown, proofs, auditView>>

Roles == {"auditor", "ingester", "none"}

LeafState == Nat \cup {Absent, Nil}

Committed(id) == storeMap[id] \in Nat

EvInit ==
  /\ storeMap = [id \in Ids |-> Absent]
  /\ next = 0
  /\ audits = <<>>
  /\ pc = [c \in Clients |-> "idle"]
  /\ arg = [c \in Clients |-> Nil]
  /\ leaf = [c \in Clients |-> 0]
  /\ status = [c \in Clients |-> 0]
  /\ acked = {}
  /\ shown = {}
  /\ proofs = {}
  /\ auditView = [c \in Clients |-> <<>>]

\* The goroutine of client c answers with an HTTP status and is done; its
\* local variables go with it.
Respond(c, code) ==
  /\ pc' = [pc EXCEPT ![c] = "idle"]
  /\ arg' = [arg EXCEPT ![c] = Nil]
  /\ leaf' = [leaf EXCEPT ![c] = 0]
  /\ status' = [status EXCEPT ![c] = code]
-----------------------------------------------------------------------------
(* Ingest *)

\* The body is not JSON, or the payload is empty: 400 before any state.
IngestReject(c) ==
  /\ pc[c] = "idle"
  /\ Respond(c, 400)
  /\ UNCHANGED <<globals, observed>>

\* Mutants of IngestRecord: no audit entry, audit entries kept newest first.
IngestRecord_NoAudit(c, id) ==
  /\ pc[c] = "idle"
  /\ storeMap[id] = Absent
  /\ storeMap' = [storeMap EXCEPT ![id] = Nil]
  /\ pc' = [pc EXCEPT ![c] = "accepted"]
  /\ arg' = [arg EXCEPT ![c] = id]
  /\ UNCHANGED <<audits, next, leaf, status, observed>>

IngestRecord_NewestFirst(c, id) ==
  /\ pc[c] = "idle"
  /\ storeMap[id] = Absent
  /\ storeMap' = [storeMap EXCEPT ![id] = Nil]
  /\ audits' = <<id>> \o audits
  /\ pc' = [pc EXCEPT ![c] = "accepted"]
  /\ arg' = [arg EXCEPT ![c] = id]
  /\ UNCHANGED <<next, leaf, status, observed>>

\* The critical section: a fresh id is recorded as pending and audited.
IngestRecord(c, id) ==
  /\ pc[c] = "idle"
  /\ storeMap[id] = Absent
  /\ storeMap' = [storeMap EXCEPT ![id] = Nil]
  /\ audits' = Append(audits, id)
  /\ pc' = [pc EXCEPT ![c] = "accepted"]
  /\ arg' = [arg EXCEPT ![c] = id]
  /\ UNCHANGED <<next, leaf, status, observed>>

\* No store to save to: the client gets 202 and the id.
IngestReply(c) ==
  /\ pc[c] = "accepted"
  /\ acked' = acked \cup {arg[c]}
  /\ Respond(c, 202)
  /\ UNCHANGED <<globals, shown, proofs, auditView>>
-----------------------------------------------------------------------------
(* GetEvidence and GetProof *)

\* The lookup under mu that both start with; an unknown id is a 404.
Lookup(c, id, then) ==
  /\ pc[c] = "idle"
  /\ \/ /\ storeMap[id] = Absent
        /\ Respond(c, 404)
     \/ /\ storeMap[id] # Absent
        /\ arg' = [arg EXCEPT ![c] = id]
        /\ pc' = [pc EXCEPT ![c] = then]
        /\ UNCHANGED <<leaf, status>>
  /\ UNCHANGED <<globals, observed>>

\* GetEvidence encodes rec.LeafIndex after the unlock: null while pending.
EvidenceReply(c) ==
  /\ pc[c] = "evidence"
  /\ shown' = IF Committed(arg[c]) THEN shown \cup {<<arg[c], storeMap[arg[c]]>>}
                                  ELSE shown
  /\ Respond(c, 200)
  /\ UNCHANGED <<globals, acked, proofs, auditView>>

\* Mutant of ProofCheck: the nil check is missing.
ProofCheck_NoNilCheck(c) ==
  /\ pc[c] = "proof"
  /\ pc' = [pc EXCEPT ![c] = "deref"]
  /\ UNCHANGED <<globals, arg, leaf, status, observed>>

\* GetProof's nil check, after the unlock.
ProofCheck(c) ==
  /\ pc[c] = "proof"
  /\ \/ /\ ~ Committed(arg[c])
        /\ Respond(c, 404)
     \/ /\ Committed(arg[c])
        /\ pc' = [pc EXCEPT ![c] = "deref"]
        /\ UNCHANGED <<arg, leaf, status>>
  /\ UNCHANGED <<globals, observed>>

\* The first dereference, for "leaf_index".
ProofLeaf(c) ==
  /\ pc[c] = "deref"
  /\ leaf' = [leaf EXCEPT ![c] = storeMap[arg[c]]]
  /\ pc' = [pc EXCEPT ![c] = "size"]
  /\ UNCHANGED <<globals, arg, status, observed>>

\* Mutant of ProofReply: tree_size is the number of leaves at that moment.
ProofReply_CurrentSize(c) ==
  /\ pc[c] = "size"
  /\ proofs' = proofs \cup {<<arg[c], leaf[c], next>>}
  /\ Respond(c, 200)
  /\ UNCHANGED <<globals, acked, shown, auditView>>

\* The second one, for "tree_size"; both go out in one reply.
ProofReply(c) ==
  /\ pc[c] = "size"
  /\ proofs' = proofs \cup {<<arg[c], leaf[c], storeMap[arg[c]] + 1>>}
  /\ Respond(c, 200)
  /\ UNCHANGED <<globals, acked, shown, auditView>>
-----------------------------------------------------------------------------
(* GetAudit *)

\* Only an auditor may list; the entries are copied under mu.
GetAudit(c, role) ==
  /\ pc[c] = "idle"
  /\ \/ /\ role # "auditor"
        /\ Respond(c, 403)
        /\ UNCHANGED auditView
     \/ /\ role = "auditor"
        /\ auditView' = [auditView EXCEPT ![c] = audits]
        /\ Respond(c, 200)
  /\ UNCHANGED <<globals, acked, shown, proofs>>
-----------------------------------------------------------------------------
(* The committer *)

\* Mutants of CommitLeaf: next is not advanced, a committed record is picked
\* again, the break after the first record is missing, the loop ends early.
CommitLeaf_NoAdvance(id) ==
  /\ storeMap[id] = Nil
  /\ storeMap' = [storeMap EXCEPT ![id] = next]
  /\ UNCHANGED <<next, audits, requests, observed>>

CommitLeaf_PicksAny(id) ==
  /\ storeMap[id] # Absent
  /\ next < 4
  /\ storeMap' = [storeMap EXCEPT ![id] = next]
  /\ next' = next + 1
  /\ UNCHANGED <<audits, requests, observed>>

CommitLeaf_NoBreak(id) ==
  /\ storeMap[id] = Nil
  /\ \/ /\ \A other \in Ids \ {id} : storeMap[other] # Nil
        /\ storeMap' = [storeMap EXCEPT ![id] = next]
        /\ next' = next + 1
     \/ \E other \in Ids \ {id} :
          /\ storeMap[other] = Nil
          /\ storeMap' = [storeMap EXCEPT ![id] = next, ![other] = next + 1]
          /\ next' = next + 2
  /\ UNCHANGED <<audits, requests, observed>>

CommitLeaf_OneTick(id) ==
  /\ next = 0
  /\ storeMap[id] = Nil
  /\ storeMap' = [storeMap EXCEPT ![id] = next]
  /\ next' = next + 1
  /\ UNCHANGED <<audits, requests, observed>>

\* One tick: any pending record (the map is ranged over in random order)
\* gets the next index.  With nothing pending the tick changes nothing.
CommitLeaf(id) ==
  /\ storeMap[id] = Nil
  /\ storeMap' = [storeMap EXCEPT ![id] = next]
  /\ next' = next + 1
  /\ UNCHANGED <<audits, requests, observed>>

Committer == \E id \in Ids : CommitLeaf(id)
-----------------------------------------------------------------------------
\* What a goroutine that has begun to serve a request does next.
Serve(c) ==
  \/ IngestReply(c)
  \/ EvidenceReply(c)
  \/ ProofCheck(c)
  \/ ProofLeaf(c)
  \/ ProofReply(c)

Request(c) ==
  \/ IngestReject(c)
  \/ \E id \in Ids : IngestRecord(c, id)
  \/ \E id \in Ids : Lookup(c, id, "evidence") \/ Lookup(c, id, "proof")
  \/ \E role \in Roles : GetAudit(c, role)

EvNext ==
  \/ \E c \in Clients : Request(c) \/ Serve(c)
  \/ Committer

EvSpec == EvInit /\ [][EvNext]_evVars

\* The committer's loop never ends.  Clients owe nothing.
EvFairSpec == EvSpec /\ WF_evVars(Committer)
-----------------------------------------------------------------------------
(* Properties *)

\* Every variable holds what the Go declarations and the handlers allow; a
\* goroutine past GetProof's nil check holds a record with a leaf, so neither
\* of its dereferences can hit a nil pointer.
EvTypeOK ==
  /\ storeMap \in [Ids -> LeafState]
  /\ next \in Nat
  /\ audits \in Seq(Ids)
  /\ pc \in [Clients -> {"idle", "accepted", "evidence", "proof", "deref", "size"}]
  /\ arg \in [Clients -> Ids \cup {Nil}]
  /\ leaf \in [Clients -> Nat]
  /\ status \in [Clients -> {0, 200, 202, 400, 403, 404}]
  /\ acked \subseteq Ids
  /\ shown \subseteq Ids \X Nat
  /\ proofs \subseteq Ids \X Nat \X Nat
  /\ auditView \in [Clients -> Seq(Ids)]

\* A goroutine that serves a request holds a record of storeMap, and one past
\* GetProof's nil check holds a committed record, whose leaf it keeps.
HeldRecords ==
  \A c \in Clients :
    /\ pc[c] # "idle" => arg[c] \in Ids /\ storeMap[arg[c]] # Absent
    /\ pc[c] \in {"deref", "size"} => Committed(arg[c])
    /\ pc[c] = "size" => leaf[c] = storeMap[arg[c]]

\* The committer hands out 0, 1, ..., next-1, each of them to one record: no
\* two records share a leaf and no index is skipped.
LeafBelowNext == \A id \in Ids : Committed(id) => storeMap[id] < next

LeafUnique ==
  \A id1, id2 \in Ids :
    Committed(id1) /\ storeMap[id1] = storeMap[id2] => id1 = id2

LeafDense == \A i \in 0..(next - 1) : \E id \in Ids : storeMap[id] = i

LeavesExact == LeafBelowNext /\ LeafUnique /\ LeafDense

\* The audit trail and storeMap list the same evidence, once each: nothing a
\* client was told is accepted, and nothing that has a leaf, is unaudited.
AuditExact ==
  /\ \A id \in Ids : storeMap[id] # Absent <=> \E i \in DOMAIN audits : audits[i] = id
  /\ \A i, j \in DOMAIN audits : audits[i] = audits[j] => i = j
  /\ \A id \in acked : storeMap[id] # Absent

\* What GetEvidence disclosed stays true: a leaf index a client has seen, by a
\* read outside the lock, is the record's index in every later state.
ShownStable == \A s \in shown : storeMap[s[1]] = s[2]

\* GetProof dereferences the record's pointer twice, outside the lock, while
\* the committer may write it: the two reads still form one consistent proof,
\* for the index the record has.
ProofsConsistent ==
  \A p \in proofs : storeMap[p[1]] = p[2] /\ p[3] = p[2] + 1

\* Whatever GetEvidence or GetProof disclosed about a leaf stays true.
DisclosedFinal == ShownStable /\ ProofsConsistent

\* Two listings of the audit trail never disagree: what any client was shown
\* is a prefix of the trail as it is now.
AuditViewsPrefix == \A c \in Clients : IsPrefix(auditView[c], audits)

\* The append-only policy for one process: no step removes or renumbers a
\* leaf, deletes a record, rewrites an audit entry or lowers next.
AppendOnly ==
  [][/\ \A id \in Ids : Committed(id) => storeMap'[id] = storeMap[id]
     /\ \A id \in Ids : storeMap[id] # Absent => storeMap'[id] # Absent
     /\ \A i \in DOMAIN audits : i \in DOMAIN audits' /\ audits'[i] = audits[i]
     /\ next' >= next]_evVars

\* Everything accepted is committed: the committer's loop reaches each
\* pending record once clients stop adding new ones.  (Ids is finite: a stream
\* of new records that never ends is not examined.)
EventuallyCommitted ==
  \A id \in Ids : (storeMap[id] = Nil) ~> Committed(id)
-----------------------------------------------------------------------------
(* The refinement: the log is storeMap read in leaf order. *)

LeafAt(i) == CHOOSE id \in Ids : storeMap[id] = i

Log == INSTANCE AppendOnlyLog
         WITH submitted <- {id \in Ids : storeMap[id] # Absent},
              log       <- [i \in 1..next |-> LeafAt(i - 1)]

\* The vault-api process implements the append-only log: every step of its
\* goroutines submits one record, appends one leaf at the end, or does neither.
ImplementsLog == Log!ASpec
=============================================================================

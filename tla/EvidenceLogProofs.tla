-------------------------- MODULE EvidenceLogProofs --------------------------
(***************************************************************************)
(* Proofs about EvidenceLog, for any set of records and clients.           *)
(***************************************************************************)
EXTENDS EvidenceLog, TLAPS

\* The handlers and the committer keep every variable in its type.  The one
\* delicate point is GetProof: its dereferences need HeldRecords.
LEMMA TypeInit == EvInit => EvTypeOK
  BY SentinelAssumption DEF EvInit, EvTypeOK, LeafState

LEMMA HeldInit == EvInit => HeldRecords
  BY DEF EvInit, HeldRecords

LEMMA TypeStep ==
  ASSUME EvTypeOK, HeldRecords, [EvNext]_evVars
  PROVE  EvTypeOK'
<1> USE SentinelAssumption DEF EvTypeOK, LeafState, Respond, globals, requests,
                               observed, evVars
<1>1. ASSUME NEW c \in Clients, IngestReject(c) PROVE EvTypeOK'
  BY <1>1 DEF IngestReject
<1>2. ASSUME NEW c \in Clients, NEW id \in Ids, IngestRecord(c, id) PROVE EvTypeOK'
  BY <1>2 DEF IngestRecord
<1>3. ASSUME NEW c \in Clients, IngestReply(c) PROVE EvTypeOK'
  BY <1>3 DEF IngestReply, HeldRecords
<1>4. ASSUME NEW c \in Clients, NEW id \in Ids, NEW then \in {"evidence", "proof"},
             Lookup(c, id, then)
      PROVE  EvTypeOK'
  <2>1. CASE Respond(c, 404)
    BY <1>4, <2>1 DEF Lookup
  <2>2. CASE /\ arg' = [arg EXCEPT ![c] = id]
             /\ pc' = [pc EXCEPT ![c] = then]
             /\ UNCHANGED <<leaf, status>>
    BY <1>4, <2>2 DEF Lookup
  <2>. QED
    BY <1>4, <2>1, <2>2 DEF Lookup
<1>5. ASSUME NEW c \in Clients, EvidenceReply(c) PROVE EvTypeOK'
  BY <1>5 DEF EvidenceReply, HeldRecords, Committed
<1>6. ASSUME NEW c \in Clients, ProofCheck(c) PROVE EvTypeOK'
  <2>1. CASE Respond(c, 404)
    BY <1>6, <2>1 DEF ProofCheck
  <2>2. CASE pc' = [pc EXCEPT ![c] = "deref"] /\ UNCHANGED <<arg, leaf, status>>
    BY <1>6, <2>2 DEF ProofCheck
  <2>. QED
    BY <1>6, <2>1, <2>2 DEF ProofCheck
<1>7. ASSUME NEW c \in Clients, ProofLeaf(c) PROVE EvTypeOK'
  BY <1>7 DEF ProofLeaf, HeldRecords, Committed
<1>8. ASSUME NEW c \in Clients, ProofReply(c) PROVE EvTypeOK'
  BY <1>8 DEF ProofReply, HeldRecords, Committed
<1>9. ASSUME NEW c \in Clients, NEW role \in Roles, GetAudit(c, role) PROVE EvTypeOK'
  <2>1. CASE Respond(c, 403) /\ UNCHANGED auditView
    BY <1>9, <2>1 DEF GetAudit
  <2>2. CASE auditView' = [auditView EXCEPT ![c] = audits] /\ Respond(c, 200)
    BY <1>9, <2>2 DEF GetAudit
  <2>. QED
    BY <1>9, <2>1, <2>2 DEF GetAudit
<1>10. ASSUME NEW id \in Ids, CommitLeaf(id) PROVE EvTypeOK'
  BY <1>10 DEF CommitLeaf
<1>11. CASE UNCHANGED evVars
  BY <1>11
<1>. QED
  BY <1>1, <1>2, <1>3, <1>4, <1>5, <1>6, <1>7, <1>8, <1>9, <1>10, <1>11
     DEF EvNext, Request, Serve, Committer
-----------------------------------------------------------------------------
(* The globals change in two ways only. *)

\* Ingest's critical section, as the globals see it.
Recorded(id) ==
  /\ storeMap[id] = Absent
  /\ storeMap' = [storeMap EXCEPT ![id] = Nil]
  /\ audits' = Append(audits, id)
  /\ next' = next

\* The committer's critical section, as the globals see it.
Assigned(id) ==
  /\ storeMap[id] = Nil
  /\ storeMap' = [storeMap EXCEPT ![id] = next]
  /\ next' = next + 1
  /\ audits' = audits

\* Every step of the process is one of those two or leaves the globals alone.
LEMMA GlobalsStep ==
  ASSUME [EvNext]_evVars
  PROVE  \/ UNCHANGED globals
         \/ \E id \in Ids : Recorded(id)
         \/ \E id \in Ids : Assigned(id)
<1>1. ASSUME NEW c \in Clients, Serve(c) PROVE UNCHANGED globals
  BY <1>1 DEF Serve, IngestReply, EvidenceReply, ProofCheck, ProofLeaf, ProofReply,
              globals
<1>2. ASSUME NEW c \in Clients, Request(c)
      PROVE  UNCHANGED globals \/ \E id \in Ids : Recorded(id)
  BY <1>2 DEF Request, IngestReject, IngestRecord, Lookup, GetAudit, Recorded, globals
<1>3. ASSUME Committer PROVE \E id \in Ids : Assigned(id)
  BY <1>3 DEF Committer, CommitLeaf, Assigned
<1>4. ASSUME UNCHANGED evVars PROVE UNCHANGED globals
  BY <1>4 DEF evVars, globals
<1>. QED
  BY <1>1, <1>2, <1>3, <1>4 DEF EvNext

\* A record is never dropped, and its leaf index never changes once assigned.
LEMMA RecordsMonotone ==
  ASSUME EvTypeOK, [EvNext]_evVars, NEW id \in Ids
  PROVE  /\ Committed(id) => storeMap'[id] = storeMap[id]
         /\ storeMap[id] # Absent => storeMap'[id] # Absent
  BY GlobalsStep, SentinelAssumption
     DEF EvTypeOK, LeafState, Recorded, Assigned, Committed, globals

\* The goroutines that hold a record keep the facts they checked about it,
\* although they read it outside the lock: records are monotone.
LEMMA HeldStep ==
  ASSUME EvTypeOK, HeldRecords, [EvNext]_evVars
  PROVE  HeldRecords'
<1> DEFINE Held(c) ==
      /\ pc[c] # "idle" => arg[c] \in Ids /\ storeMap[arg[c]] # Absent
      /\ pc[c] \in {"deref", "size"} => Committed(arg[c])
      /\ pc[c] = "size" => leaf[c] = storeMap[arg[c]]
<1> SUFFICES ASSUME NEW d \in Clients PROVE Held(d)'
  BY DEF HeldRecords
<1>1. Held(d)
  BY DEF HeldRecords
<1>2. CASE pc'[d] = pc[d] /\ arg'[d] = arg[d] /\ leaf'[d] = leaf[d]
  BY <1>1, <1>2, RecordsMonotone DEF Committed
<1>3. CASE pc'[d] = "idle"
  BY <1>3
<1> USE DEF EvTypeOK, Respond
<1>4. ASSUME NEW c \in Clients, IngestReject(c) PROVE Held(d)'
  BY <1>2, <1>3, <1>4 DEF IngestReject
<1>5. ASSUME NEW c \in Clients, NEW id \in Ids, IngestRecord(c, id) PROVE Held(d)'
  <2>1. CASE c = d
    BY <1>5, <2>1, SentinelAssumption DEF IngestRecord
  <2>. QED
    BY <1>2, <1>5, <2>1 DEF IngestRecord
<1>6. ASSUME NEW c \in Clients, NEW id \in Ids, NEW then \in {"evidence", "proof"},
             Lookup(c, id, then)
      PROVE  Held(d)'
  <2>1. CASE c = d
    BY <1>3, <1>6, <2>1 DEF Lookup, globals
  <2>. QED
    BY <1>2, <1>6, <2>1 DEF Lookup
<1>7. ASSUME NEW c \in Clients, IngestReply(c) \/ EvidenceReply(c) \/ ProofReply(c)
      PROVE  Held(d)'
  BY <1>2, <1>3, <1>7 DEF IngestReply, EvidenceReply, ProofReply
<1>8. ASSUME NEW c \in Clients, ProofCheck(c) PROVE Held(d)'
  <2>1. CASE c = d
    BY <1>1, <1>3, <1>8, <2>1 DEF ProofCheck, globals, Committed
  <2>. QED
    BY <1>2, <1>8, <2>1 DEF ProofCheck
<1>9. ASSUME NEW c \in Clients, ProofLeaf(c) PROVE Held(d)'
  <2>1. CASE c = d
    BY <1>1, <1>9, <2>1 DEF ProofLeaf, globals, Committed
  <2>. QED
    BY <1>2, <1>9, <2>1 DEF ProofLeaf
<1>10. ASSUME NEW c \in Clients, NEW role \in Roles, GetAudit(c, role) PROVE Held(d)'
  BY <1>2, <1>3, <1>10 DEF GetAudit
<1>11. ASSUME NEW id \in Ids, CommitLeaf(id) PROVE Held(d)'
  BY <1>2, <1>11 DEF CommitLeaf, requests
<1>12. CASE UNCHANGED evVars
  BY <1>2, <1>12 DEF evVars
<1>. QED
  BY <1>4, <1>5, <1>6, <1>7, <1>8, <1>9, <1>10, <1>11, <1>12
     DEF EvNext, Request, Serve, Committer

\* The two together are inductive; the type invariant alone is not.
LEMMA EvInvariant == EvSpec => [](EvTypeOK /\ HeldRecords)
<1>1. EvTypeOK /\ HeldRecords /\ [EvNext]_evVars => (EvTypeOK /\ HeldRecords)'
  BY TypeStep, HeldStep
<1>. QED
  BY <1>1, TypeInit, HeldInit, PTL DEF EvSpec

\* Every variable keeps its type; what GetProof dereferences is a number.
THEOREM EvTypeCorrect == EvSpec => []EvTypeOK
  BY EvInvariant, PTL

\* No handler dereferences a nil leaf index, although the nil check and the two
\* dereferences of GetProof are made without the lock.
THEOREM HeldTheorem == EvSpec => []HeldRecords
  BY EvInvariant, PTL
-----------------------------------------------------------------------------
(* Leaf indices *)

\* Assigning next to a pending record keeps the indices unique and dense.
LEMMA LeavesStep ==
  ASSUME EvTypeOK, LeavesExact, [EvNext]_evVars
  PROVE  LeavesExact'
<1> USE SentinelAssumption DEF EvTypeOK, LeafState, LeavesExact
<1>1. CASE UNCHANGED globals
  BY <1>1 DEF globals, LeafBelowNext, LeafUnique, LeafDense, Committed
<1>2. ASSUME NEW id \in Ids, Recorded(id) PROVE LeavesExact'
  <2>1. \A x \in Ids : Committed(x)' => x # id /\ storeMap'[x] = storeMap[x]
    BY <1>2 DEF Recorded, Committed
  <2>2. LeafBelowNext'
    BY <1>2, <2>1 DEF Recorded, LeafBelowNext, Committed
  <2>3. LeafUnique'
    <3> SUFFICES ASSUME NEW x \in Ids, NEW y \in Ids, Committed(x)',
                        storeMap'[x] = storeMap'[y]
                 PROVE  x = y
      BY DEF LeafUnique, Committed
    <3>1. Committed(y)'
      BY DEF Committed
    <3>. QED
      BY <2>1, <3>1 DEF LeafUnique, Committed
  <2>4. LeafDense'
    <3> SUFFICES ASSUME NEW i \in 0..(next - 1) PROVE \E x \in Ids : storeMap'[x] = i
      BY <1>2 DEF Recorded, LeafDense
    <3>1. PICK x \in Ids : storeMap[x] = i
      BY DEF LeafDense
    <3>. QED
      BY <1>2, <3>1 DEF Recorded
  <2>. QED
    BY <2>2, <2>3, <2>4
<1>3. ASSUME NEW id \in Ids, Assigned(id) PROVE LeavesExact'
  <2>1. \A x \in Ids : x # id => storeMap'[x] = storeMap[x]
    BY <1>3 DEF Assigned
  <2>2. storeMap'[id] = next /\ next' = next + 1
    BY <1>3 DEF Assigned
  <2>3. LeafBelowNext'
    <3> SUFFICES ASSUME NEW x \in Ids, storeMap'[x] \in Nat PROVE storeMap'[x] < next'
      BY DEF LeafBelowNext, Committed
    <3>1. CASE x = id
      BY <2>2, <3>1
    <3>2. CASE x # id
      BY <2>1, <2>2, <3>2 DEF LeafBelowNext, Committed
    <3>. QED
      BY <3>1, <3>2
  <2>4. LeafUnique'
    <3> SUFFICES ASSUME NEW x \in Ids, NEW y \in Ids, storeMap'[x] \in Nat,
                        storeMap'[x] = storeMap'[y]
                 PROVE  x = y
      BY DEF LeafUnique, Committed
    <3>1. CASE x = id \/ y = id
      BY <2>1, <2>2, <3>1 DEF LeafBelowNext, Committed
    <3>2. CASE x # id /\ y # id
      BY <2>1, <3>2 DEF LeafUnique, Committed
    <3>. QED
      BY <3>1, <3>2
  <2>5. LeafDense'
    <3> SUFFICES ASSUME NEW i \in 0..next PROVE \E x \in Ids : storeMap'[x] = i
      BY <2>2 DEF LeafDense
    <3>1. CASE i = next
      BY <2>2, <3>1
    <3>2. CASE i # next
      <4>1. PICK x \in Ids : storeMap[x] = i
        BY <3>2 DEF LeafDense
      <4>. QED
        BY <1>3, <2>1, <4>1 DEF Assigned
    <3>. QED
      BY <3>1, <3>2
  <2>. QED
    BY <2>3, <2>4, <2>5
<1>. QED
  BY <1>1, <1>2, <1>3, GlobalsStep

\* In every run of the process the leaves are 0..next-1, one record each.
THEOREM LeavesTheorem == EvSpec => []LeavesExact
<1>1. EvInit => LeavesExact
  BY SentinelAssumption DEF EvInit, LeavesExact, LeafBelowNext, LeafUnique, LeafDense,
                            Committed
<1>2. EvTypeOK /\ LeavesExact /\ [EvNext]_evVars => LeavesExact'
  BY LeavesStep
<1>. QED
  BY <1>1, <1>2, EvTypeCorrect, PTL DEF EvSpec

\* No step of the process breaks the append-only policy.
THEOREM AppendOnlyTheorem == EvSpec => AppendOnly
<1>1. ASSUME EvTypeOK, [EvNext]_evVars
      PROVE  /\ \A id \in Ids : Committed(id) => storeMap'[id] = storeMap[id]
             /\ \A id \in Ids : storeMap[id] # Absent => storeMap'[id] # Absent
             /\ \A i \in DOMAIN audits : i \in DOMAIN audits' /\ audits'[i] = audits[i]
             /\ next' >= next
  <2>1. \A i \in DOMAIN audits : i \in DOMAIN audits' /\ audits'[i] = audits[i]
    <3>1. CASE audits' = audits
      BY <3>1
    <3>2. ASSUME NEW id \in Ids, audits' = Append(audits, id)
          PROVE  \A i \in DOMAIN audits : i \in DOMAIN audits' /\ audits'[i] = audits[i]
      BY <1>1, <3>2 DEF EvTypeOK
    <3>. QED
      BY <1>1, <3>1, <3>2, GlobalsStep DEF Recorded, Assigned, globals
  <2>2. next' >= next
    BY <1>1, GlobalsStep DEF EvTypeOK, Recorded, Assigned, globals
  <2>. QED
    BY <1>1, <2>1, <2>2, RecordsMonotone
<1>. QED
  BY <1>1, EvTypeCorrect, PTL DEF EvSpec, AppendOnly
-----------------------------------------------------------------------------
(* What clients are told *)

\* Every index a client has been shown, alone or in a proof, is still the
\* record's index, and proofs are for a tree that just contains the leaf.
THEOREM DisclosedTheorem == EvSpec => []DisclosedFinal
<1>1. EvInit => ShownStable /\ ProofsConsistent
  BY DEF EvInit, ShownStable, ProofsConsistent
<1>2. ASSUME EvTypeOK, HeldRecords, ShownStable, ProofsConsistent, [EvNext]_evVars
      PROVE  (ShownStable /\ ProofsConsistent)'
  <2> USE <1>2
  <2>1. ASSUME NEW s \in shown PROVE storeMap'[s[1]] = s[2]
    BY RecordsMonotone DEF EvTypeOK, ShownStable, Committed
  <2>2. ASSUME NEW p \in proofs PROVE storeMap'[p[1]] = p[2] /\ p[3] = p[2] + 1
    BY RecordsMonotone DEF EvTypeOK, ProofsConsistent, Committed
  <2>3. ASSUME NEW c \in Clients, EvidenceReply(c)
        PROVE  (ShownStable /\ ProofsConsistent)'
    <3>1. storeMap' = storeMap /\ proofs' = proofs
      BY <2>3 DEF EvidenceReply, globals
    <3>. QED
      BY <2>1, <2>2, <2>3, <3>1
         DEF EvidenceReply, ShownStable, ProofsConsistent, HeldRecords
  <2>4. ASSUME NEW c \in Clients, ProofReply(c)
        PROVE  (ShownStable /\ ProofsConsistent)'
    <3>1. storeMap' = storeMap /\ shown' = shown
      BY <2>4 DEF ProofReply, globals
    <3>2. leaf[c] = storeMap[arg[c]]
      BY <2>4 DEF ProofReply, HeldRecords
    <3>. QED
      BY <2>1, <2>2, <2>4, <3>1, <3>2 DEF ProofReply, ShownStable, ProofsConsistent
  <2>5. CASE UNCHANGED <<shown, proofs>>
    BY <2>1, <2>2, <2>5 DEF ShownStable, ProofsConsistent
  <2>. QED
    BY <2>3, <2>4, <2>5
       DEF EvNext, Request, Serve, Committer, IngestReject, IngestRecord, IngestReply,
           Lookup, ProofCheck, ProofLeaf, GetAudit, CommitLeaf, observed, evVars
<1>. QED
  BY <1>1, <1>2, EvInvariant, PTL DEF EvSpec, DisclosedFinal
-----------------------------------------------------------------------------
(* The audit trail *)

\* A goroutine that is about to answer 202 holds a recorded id, so whatever was
\* acknowledged is in storeMap; and a fresh id is not in the trail yet, so the
\* trail names each record once.
THEOREM AuditTheorem == EvSpec => []AuditExact
<1>1. EvInit => AuditExact
  BY DEF EvInit, AuditExact
<1>2. ASSUME EvTypeOK, HeldRecords, AuditExact, [EvNext]_evVars PROVE AuditExact'
  <2> USE <1>2
  <2>1. \A id \in acked' : id \in Ids /\ storeMap'[id] # Absent
    <3>1. ASSUME NEW id \in acked PROVE id \in Ids /\ storeMap'[id] # Absent
      BY RecordsMonotone DEF AuditExact, EvTypeOK
    <3>2. ASSUME NEW c \in Clients, IngestReply(c)
          PROVE  \A id \in acked' : id \in Ids /\ storeMap'[id] # Absent
      <4>1. arg[c] \in Ids /\ storeMap[arg[c]] # Absent /\ acked' = acked \cup {arg[c]}
        BY <3>2 DEF IngestReply, HeldRecords
      <4>. QED
        BY <3>1, <4>1, RecordsMonotone
    <3>3. CASE UNCHANGED acked
      BY <3>1, <3>3
    <3>. QED
      BY <3>2, <3>3
         DEF EvNext, Request, Serve, Committer, IngestReject, IngestRecord, EvidenceReply,
             Lookup, ProofCheck, ProofLeaf, ProofReply, GetAudit, CommitLeaf, observed, evVars
  <2>2. /\ \A id \in Ids : storeMap'[id] # Absent <=> \E i \in DOMAIN audits' : audits'[i] = id
        /\ \A i, j \in DOMAIN audits' : audits'[i] = audits'[j] => i = j
    <3>1. CASE UNCHANGED globals
      BY <3>1 DEF globals, AuditExact
    <3>2. ASSUME NEW id \in Ids, Assigned(id)
          PROVE  /\ \A x \in Ids : storeMap'[x] # Absent <=> storeMap[x] # Absent
                 /\ audits' = audits
      BY <3>2, SentinelAssumption DEF Assigned, EvTypeOK
    <3>3. ASSUME NEW id \in Ids, Recorded(id)
          PROVE  /\ \A x \in Ids : storeMap'[x] # Absent <=>
                                    \E i \in DOMAIN audits' : audits'[i] = x
                 /\ \A i, j \in DOMAIN audits' : audits'[i] = audits'[j] => i = j
      <4>1. \A x \in Ids : storeMap'[x] # Absent <=> storeMap[x] # Absent \/ x = id
        BY <3>3, SentinelAssumption DEF Recorded, EvTypeOK
      <4>2. /\ audits \in Seq(Ids) /\ audits' = Append(audits, id)
            /\ \A i \in DOMAIN audits : audits[i] # id
        BY <3>3 DEF Recorded, EvTypeOK, AuditExact
      <4>3. /\ DOMAIN audits = 1..Len(audits) /\ DOMAIN audits' = 1..(Len(audits) + 1)
            /\ Len(audits) \in Nat /\ audits'[Len(audits) + 1] = id
            /\ \A i \in DOMAIN audits : audits'[i] = audits[i]
        BY <4>2
      <4>4. \A i \in DOMAIN audits' : i = Len(audits) + 1 \/ i \in DOMAIN audits
        BY <4>3
      <4>5. \A x \in Ids : (\E i \in DOMAIN audits' : audits'[i] = x) <=>
                            (\E i \in DOMAIN audits : audits[i] = x) \/ x = id
        BY <4>3, <4>4
      <4>6. \A i, j \in DOMAIN audits' : audits'[i] = audits'[j] => i = j
        BY <4>2, <4>3, <4>4 DEF AuditExact
      <4>. QED
        BY <4>1, <4>5, <4>6 DEF AuditExact
    <3>. QED
      BY <3>1, <3>2, <3>3, GlobalsStep DEF AuditExact
  <2>. QED
    BY <2>1, <2>2 DEF AuditExact
<1>. QED
  BY <1>1, <1>2, EvInvariant, PTL DEF EvSpec

\* Any listing GetAudit has handed out is a prefix of the trail for ever.
THEOREM AuditViewsTheorem == EvSpec => []AuditViewsPrefix
<1>1. EvInit => AuditViewsPrefix
  BY DEF EvInit, AuditViewsPrefix, IsPrefix
<1>2. ASSUME EvTypeOK, AuditViewsPrefix, [EvNext]_evVars PROVE AuditViewsPrefix'
  <2>1. audits \in Seq(Ids) /\ \A c \in Clients : auditView[c] \in Seq(Ids)
    BY <1>2 DEF EvTypeOK
  <2>2. audits' = audits \/ \E id \in Ids : audits' = Append(audits, id)
    BY <1>2, GlobalsStep DEF globals, Recorded, Assigned
  <2>3. \A c \in Clients : auditView'[c] = auditView[c] \/ auditView'[c] = audits
    <3>1. ASSUME NEW c \in Clients, NEW role \in Roles, GetAudit(c, role)
          PROVE  \A d \in Clients : auditView'[d] = auditView[d] \/ auditView'[d] = audits
      BY <1>2, <3>1 DEF GetAudit, EvTypeOK
    <3>2. CASE UNCHANGED auditView
      BY <3>2
    <3>. QED
      BY <1>2, <3>1, <3>2
         DEF EvNext, Request, Serve, Committer, IngestReject, IngestRecord, IngestReply,
             EvidenceReply, Lookup, ProofCheck, ProofLeaf, ProofReply, CommitLeaf, observed,
             evVars
  <2>4. ASSUME NEW q \in Seq(Ids), IsPrefix(q, audits) PROVE IsPrefix(q, audits')
    <3>1. ASSUME NEW id \in Ids PROVE IsPrefix(q, Append(audits, id))
      <4>1. Len(q) <= Len(audits) /\ Len(q) \in Nat /\ Len(audits) \in Nat
        BY <2>1, <2>4 DEF IsPrefix
      <4>2. SubSeq(Append(audits, id), 1, Len(q)) = SubSeq(audits, 1, Len(q))
        BY <2>1, <4>1
      <4>3. Len(Append(audits, id)) = Len(audits) + 1
        BY <2>1
      <4>. QED
        BY <2>4, <4>1, <4>2, <4>3 DEF IsPrefix
    <3>. QED
      BY <2>2, <2>4, <3>1
  <2>5. IsPrefix(audits, audits)
    BY <2>1 DEF IsPrefix
  <2>. QED
    BY <1>2, <2>1, <2>3, <2>4, <2>5 DEF AuditViewsPrefix
<1>. QED
  BY <1>1, <1>2, EvTypeCorrect, PTL DEF EvSpec
-----------------------------------------------------------------------------
(* The refinement *)

\* Every index below next has a record, and only one.
LEMMA LeafAtIs ==
  ASSUME EvTypeOK, LeavesExact, NEW i \in 0..(next - 1)
  PROVE  /\ LeafAt(i) \in Ids
         /\ storeMap[LeafAt(i)] = i
         /\ \A id \in Ids : storeMap[id] = i => id = LeafAt(i)
<1>1. \E id \in Ids : storeMap[id] = i
  BY DEF LeavesExact, LeafDense
<1>2. LeafAt(i) \in Ids /\ storeMap[LeafAt(i)] = i
  BY <1>1 DEF LeafAt
<1>3. i \in Nat
  OBVIOUS
<1>. QED
  BY <1>2, <1>3 DEF LeavesExact, LeafUnique, Committed

\* Records that keep their leaf keep their place in the log.
LEMMA LeafAtKept ==
  ASSUME EvTypeOK, LeavesExact, EvTypeOK', LeavesExact', [EvNext]_evVars,
         next' >= next, NEW i \in 0..(next - 1)
  PROVE  LeafAt(i)' = LeafAt(i)
<1>1. LeafAt(i) \in Ids /\ storeMap[LeafAt(i)] = i
  BY LeafAtIs
<1>2. storeMap'[LeafAt(i)] = i
  BY <1>1, RecordsMonotone DEF Committed
<1>3. LeafAt(i)' \in Ids /\ storeMap'[LeafAt(i)'] = i
  <2>1. \E id \in Ids : storeMap'[id] = i
    BY <1>1, <1>2
  <2>. QED
    BY <2>1 DEF LeafAt
<1>. QED
  BY <1>1, <1>2, <1>3 DEF LeavesExact, LeafUnique, Committed

\* The vault-api process implements AppendOnlyLog: Ingest's critical section
\* is Submit, the committer's is AppendLeaf, everything else a stutter.
THEOREM RefinementTheorem == EvSpec => ImplementsLog
<1> DEFINE sub == {id \in Ids : storeMap[id] # Absent}
           lg  == [i \in 1..next |-> LeafAt(i - 1)]
<1>1. EvInit => Log!AInit
  BY DEF EvInit, Log!AInit
<1>2. ASSUME EvTypeOK, LeavesExact, EvTypeOK', LeavesExact', [EvNext]_evVars
      PROVE  [Log!ANext]_(Log!absVars)
  <2> USE <1>2, SentinelAssumption
  <2>1. CASE UNCHANGED globals
    BY <2>1 DEF globals, Log!absVars, LeafAt
  <2>2. ASSUME NEW id \in Ids, Recorded(id) PROVE Log!Submit(id)
    <3>1. \A i \in 0..(next - 1) : LeafAt(i)' = LeafAt(i)
      BY <2>2, LeafAtKept DEF Recorded, EvTypeOK
    <3>2. lg' = lg
      <4>1. next \in Nat /\ next' = next
        BY <2>2 DEF Recorded, EvTypeOK
      <4>2. \A i \in 1..next : LeafAt(i - 1)' = LeafAt(i - 1)
        BY <3>1, <4>1
      <4>. QED
        BY <4>1, <4>2
    <3>3. id \notin sub /\ sub' = sub \cup {id}
      BY <2>2 DEF Recorded, EvTypeOK
    <3>. QED
      BY <3>2, <3>3 DEF Log!Submit
  <2>3. ASSUME NEW id \in Ids, Assigned(id) PROVE Log!AppendLeaf(id)
    <3>1. next \in Nat /\ next' = next + 1 /\ storeMap'[id] = next
      BY <2>3 DEF Assigned, EvTypeOK
    <3>2. \A i \in 0..(next - 1) : LeafAt(i)' = LeafAt(i)
      BY <3>1, LeafAtKept
    <3>3. ASSUME NEW n \in Nat, n = next PROVE LeafAt(n)' = id
      <4>1. \E x \in Ids : storeMap'[x] = n
        BY <3>1, <3>3
      <4>2. LeafAt(n)' \in Ids /\ storeMap'[LeafAt(n)'] = n
        BY <4>1 DEF LeafAt
      <4>. QED
        BY <3>1, <3>3, <4>2 DEF LeavesExact, LeafUnique, Committed
    <3>4. lg' = Append(lg, id)
      <4> DEFINE app == Append(lg, id)
      <4>1. lg \in Seq(Ids) /\ Len(lg) = next
        BY <3>1, LeafAtIs
      <4>2. app = [i \in 1..(next + 1) |-> IF i = next + 1 THEN id ELSE lg[i]]
        BY <3>1, <4>1
      <4>3. \A i \in 1..(next + 1) : LeafAt(i - 1)' = IF i = next + 1 THEN id ELSE lg[i]
        BY <3>1, <3>2, <3>3
      <4>. QED
        BY <3>1, <4>2, <4>3
    <3>5. id \in sub /\ sub' = sub
      BY <2>3 DEF Assigned, EvTypeOK
    <3>6. \A i \in DOMAIN lg : lg[i] # id
      BY <2>3, <3>1, LeafAtIs DEF Assigned
    <3>. QED
      BY <3>4, <3>5, <3>6 DEF Log!AppendLeaf
  <2>. QED
    BY <2>1, <2>2, <2>3, GlobalsStep DEF Log!ANext
<1>. QED
  BY <1>1, <1>2, EvTypeCorrect, LeavesTheorem, PTL
     DEF EvSpec, ImplementsLog, Log!ASpec
=============================================================================

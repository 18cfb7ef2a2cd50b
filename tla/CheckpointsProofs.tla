-------------------------- MODULE CheckpointsProofs --------------------------
(***************************************************************************)
(* Proofs about Checkpoints, for any records, clients, builders and keys.  *)
(***************************************************************************)
EXTENDS Checkpoints, EvidenceLogProofs

\* Composed with the checkpoint handlers, the evidence side behaves as it does
\* alone: they read storeMap and write none of its variables.  What is proved
\* of EvSpec therefore holds of the whole process.
THEOREM CompositionTheorem == Spec => EvSpec
<1>1. Init => EvInit
  BY DEF Init
<1>2. [Next]_vars => [EvNext]_evVars
  BY DEF Next, vars
<1>. QED
  BY <1>1, <1>2, PTL DEF Spec, EvSpec

\* The tree size a builder computes from storeMap is the number of leaves.
LEMMA LatestSizeIsNext ==
  ASSUME EvTypeOK, LeavesExact
  PROVE  LatestSize = next
<1> DEFINE leaves == {storeMap[id] : id \in {x \in Ids : Committed(x)}}
<1>1. leaves = 0..(next - 1)
  BY DEF EvTypeOK, LeavesExact, LeafBelowNext, LeafDense, Committed
<1>2. CASE next = 0
  BY <1>1, <1>2 DEF LatestSize
<1>3. CASE next # 0
  <2>1. next \in Nat
    BY DEF EvTypeOK
  <2>2. Max(leaves) = next - 1
    <3>1. next - 1 \in leaves /\ \A y \in leaves : next - 1 >= y
      BY <1>1, <1>3, <2>1
    <3>2. \A x \in leaves : (\A y \in leaves : x >= y) => x = next - 1
      BY <1>1, <1>3, <2>1
    <3>. QED
      BY <3>1, <3>2 DEF Max
  <2>3. leaves # {}
    <3>1. 0 \in leaves
      BY <1>1, <1>3, <2>1
    <3>. QED
      BY <3>1
  <2>4. LatestSize = IF leaves = {} THEN 0 ELSE Max(leaves) + 1
    BY DEF LatestSize
  <2>. HIDE DEF leaves
  <2>. QED
    BY <2>1, <2>2, <2>3, <2>4
<1>. QED
  BY <1>2, <1>3
-----------------------------------------------------------------------------
(* Types *)

\* The replies the handlers build are well-typed.
LEMMA ReplyTypes ==
  /\ \A n \in Nat : Placeholder(n) \in Checkpoint
  /\ \A code \in {0, 200, 400, 403, 404, 503}, v \in {"none", "true", "false"}, q \in Seq(Nat) :
       Reply(code, v, q) \in Replies
  /\ \A code \in {0, 200, 400, 403, 404, 503} : StatusOnly(code) \in Replies
  /\ \A cp \in Checkpoint : Verdict(cp) \in Replies
<1>1. \A n \in Nat : Placeholder(n) \in Checkpoint
  BY DEF Placeholder, Checkpoint
<1>2. \A code \in {0, 200, 400, 403, 404, 503}, v \in {"none", "true", "false"}, q \in Seq(Nat) :
        Reply(code, v, q) \in Replies
  BY DEF Reply, Replies
<1>3. \A code \in {0, 200, 400, 403, 404, 503} : StatusOnly(code) \in Replies
  <2>1. <<>> \in Seq(Nat)
    OBVIOUS
  <2>. QED
    BY <2>1 DEF StatusOnly, Reply, Replies
<1>4. \A cp \in Checkpoint : Verdict(cp) \in Replies
  <2>1. VerifyStatus \in {200, 503}
    BY DEF VerifyStatus
  <2>2. \A cp \in Checkpoint : Verified(cp) \in {"true", "false"}
    BY DEF Verified
  <2>3. <<>> \in Seq(Nat)
    OBVIOUS
  <2>. QED
    BY <2>1, <2>2, <2>3 DEF Verdict, Reply, Replies
<1>. QED
  BY <1>1, <1>2, <1>3, <1>4

\* Reversing a sequence of sizes gives a sequence of sizes.
LEMMA ReverseType ==
  ASSUME NEW q \in Seq(Nat)
  PROVE  /\ Reverse(q) \in Seq(Nat)
         /\ Len(Reverse(q)) = Len(q)
         /\ \A i \in 1..Len(q) : Reverse(q)[i] = q[Len(q) - i + 1]
  BY DEF Reverse

\* A builder that has its checkpoint is past the lookup, and keeps it to reply.
LEMMA AfterBuildIs ==
  ASSUME CpTypeOK, NEW b \in Builders, NEW cp \in Checkpoint, AfterBuild(b, cp)
  PROVE  /\ bpc' \in [Builders -> {"idle", "lookup", "sign", "publish", "reply", "list"}]
         /\ bcp' \in [Builders -> Checkpoint]
         /\ bpc'[b] \in {"list", "reply"}
         /\ bpc'[b] = "reply" => bcp'[b] = cp
         /\ \A d \in Builders : d # b => bpc'[d] = bpc[d] /\ bcp'[d] = bcp[d]
  BY ReplyTypes DEF CpTypeOK, AfterBuild

\* Every step of the process keeps the checkpoint variables in their types.
LEMMA CpTypeStep ==
  ASSUME CpTypeOK, EvTypeOK, LeavesExact, [Next]_vars
  PROVE  CpTypeOK'
<1>1. CASE UNCHANGED cpVars
  BY <1>1 DEF cpVars, CpTypeOK
<1>2. ASSUME NEW b \in Builders, NEW r \in Replies, Answer(b, r), UNCHANGED memory
      PROVE  CpTypeOK'
  BY <1>2, ReplyTypes DEF CpTypeOK, Answer, memory, Ops
<1>3. ASSUME NEW b \in Builders, NEW op \in Ops, NEW role \in Roles, BuildStart(b, op, role)
      PROVE  CpTypeOK'
  <2>1. LatestSize \in Nat
    BY LatestSizeIsNext DEF EvTypeOK
  <2>2. CASE Answer(b, StatusOnly(403)) \/ Answer(b, StatusOnly(404))
    BY <1>2, <1>3, <2>2, ReplyTypes DEF BuildStart
  <2>3. CASE ~ (Answer(b, StatusOnly(403)) \/ Answer(b, StatusOnly(404)))
    <3>1. /\ bop' = [bop EXCEPT ![b] = op]
          /\ bsize' = [bsize EXCEPT ![b] = LatestSize]
          /\ bpc' = [bpc EXCEPT ![b] = IF LatestSize = 0 THEN "list" ELSE "lookup"]
          /\ breply' = [breply EXCEPT ![b] = StatusOnly(0)]
          /\ UNCHANGED <<memory, bcp>>
      BY <1>3, <2>3 DEF BuildStart
    <3>. QED
      BY <2>1, <3>1, ReplyTypes DEF CpTypeOK, memory
  <2>. QED
    BY <2>2, <2>3
<1>4. ASSUME NEW b \in Builders, NEW n \in Nat, NEW role \in Roles, VerifyBySize(b, n, role)
      PROVE  CpTypeOK'
  BY <1>2, <1>4, ReplyTypes DEF VerifyBySize, CpTypeOK
<1>5. ASSUME NEW b \in Builders, BuildLookup(b) PROVE CpTypeOK'
  <2>1. CASE bsize[b] \in DOMAIN checkpointHistory
    <3>1. checkpointHistory[bsize[b]] \in Checkpoint
      BY <2>1 DEF CpTypeOK
    <3>2. AfterBuild(b, checkpointHistory[bsize[b]])
      BY <1>5, <2>1 DEF BuildLookup
    <3>. QED
      BY <1>5, <3>1, <3>2, AfterBuildIs DEF BuildLookup, CpTypeOK, memory
  <2>2. CASE bsize[b] \notin DOMAIN checkpointHistory
    BY <1>5, <2>2 DEF BuildLookup, CpTypeOK, memory
  <2>. QED
    BY <2>1, <2>2
<1>6. ASSUME NEW b \in Builders, BuildSign(b) PROVE CpTypeOK'
  <2>1. bcp' \in [Builders -> Checkpoint]
    <3>1. ASSUME NEW svcKey, NEW s \in Offered(svcKey), NEW k \in Offered(svcKey)
          PROVE  [size |-> bsize[b], sig |-> s, ref |-> k] \in Checkpoint
      BY DEF Offered, CpTypeOK, Checkpoint
    <3>. QED
      BY <1>6, <3>1 DEF BuildSign, CpTypeOK
  <2>. QED
    BY <1>6, <2>1 DEF BuildSign, CpTypeOK, memory
<1>7. ASSUME NEW b \in Builders, BuildPublish(b) PROVE CpTypeOK'
  <2>1. bcp[b] \in Checkpoint /\ bsize[b] \in Nat
    BY DEF CpTypeOK
  <2>2. /\ bpc' \in [Builders -> {"idle", "lookup", "sign", "publish", "reply", "list"}]
        /\ bcp' \in [Builders -> Checkpoint]
    BY <1>7, <2>1, AfterBuildIs DEF BuildPublish
  <2>. QED
    BY <1>7, <2>1, <2>2 DEF BuildPublish, CpTypeOK
<1>8. ASSUME NEW b \in Builders, LatestReply(b) \/ VerifyReply(b) PROVE CpTypeOK'
  <2>1. bcp[b] \in Checkpoint /\ <<>> \in Seq(Nat)
    BY DEF CpTypeOK
  <2>2. Reply(200, "none", <<>>) \in Replies
    BY <2>1 DEF Reply, Replies
  <2>3. Verdict(bcp[b]) \in Replies
    BY <2>1, ReplyTypes
  <2>. QED
    BY <1>2, <1>8, <2>2, <2>3 DEF LatestReply, VerifyReply
<1>9. ASSUME NEW b \in Builders, HistoryReply(b) PROVE CpTypeOK'
  <2>1. Reverse(checkpointOrder) \in Seq(Nat)
    BY ReverseType DEF CpTypeOK
  <2>2. Reply(200, "none", Reverse(checkpointOrder)) \in Replies
    BY <2>1, ReplyTypes
  <2>. QED
    BY <1>2, <1>9, <2>2 DEF HistoryReply
<1>. QED
  BY <1>1, <1>3, <1>4, <1>5, <1>6, <1>7, <1>8, <1>9
     DEF Next, CpNext, Build, vars, EvTypeOK

\* The type invariant of the checkpoint side holds in every run.
THEOREM CpTypeCorrect == Spec => []CpTypeOK
<1>1. Init => CpTypeOK
  <2>1. <<>> \in Seq(Nat) /\ "latest" \in Ops
    BY DEF Ops
  <2>. QED
    BY <2>1, ReplyTypes DEF Init, CpInit, CpTypeOK
<1>2. CpTypeOK /\ EvTypeOK /\ LeavesExact /\ [Next]_vars => CpTypeOK'
  BY CpTypeStep
<1>. QED
  BY <1>1, <1>2, CompositionTheorem, EvTypeCorrect, LeavesTheorem, PTL DEF Spec
-----------------------------------------------------------------------------
(* The published checkpoints *)

\* The checkpoint maps change only when a builder publishes.
LEMMA MemoryStep ==
  ASSUME [Next]_vars
  PROVE  UNCHANGED memory \/ \E b \in Builders : BuildPublish(b)
<1>1. CASE UNCHANGED cpVars
  BY <1>1 DEF cpVars, memory
<1>2. ASSUME NEW b \in Builders, Build(b), ~ BuildPublish(b) PROVE UNCHANGED memory
  BY <1>2 DEF Build, BuildLookup, BuildSign, LatestReply, VerifyReply, HistoryReply
<1>. QED
  BY <1>1, <1>2 DEF Next, CpNext, BuildStart, VerifyBySize, vars

\* However the publications of two builders interleave, the listing and the
\* map keep naming the same sizes, each once.
THEOREM OrderTheorem == Spec => []OrderMatchesHistory
<1>1. Init => OrderMatchesHistory
  BY DEF Init, CpInit, OrderMatchesHistory
<1>2. ASSUME CpTypeOK, OrderMatchesHistory, [Next]_vars PROVE OrderMatchesHistory'
  <2>1. CASE UNCHANGED memory
    BY <1>2, <2>1 DEF memory, OrderMatchesHistory
  <2>2. ASSUME NEW b \in Builders, BuildPublish(b) PROVE OrderMatchesHistory'
    <3>1. DOMAIN checkpointHistory' = DOMAIN checkpointHistory \cup {bsize[b]}
      BY <2>2 DEF BuildPublish
    <3>2. CASE bsize[b] \in DOMAIN checkpointHistory
      BY <1>2, <2>2, <3>1, <3>2 DEF BuildPublish, OrderMatchesHistory
    <3>3. CASE bsize[b] \notin DOMAIN checkpointHistory
      <4>1. checkpointOrder' = Append(checkpointOrder, bsize[b])
        BY <2>2, <3>3 DEF BuildPublish
      <4>2. checkpointOrder \in Seq(Nat) /\ bsize[b] \in Nat
        BY <1>2 DEF CpTypeOK
      <4>3. /\ DOMAIN checkpointOrder = 1..Len(checkpointOrder)
            /\ DOMAIN checkpointOrder' = 1..(Len(checkpointOrder) + 1)
            /\ checkpointOrder'[Len(checkpointOrder) + 1] = bsize[b]
            /\ \A i \in DOMAIN checkpointOrder : checkpointOrder'[i] = checkpointOrder[i]
        BY <4>1, <4>2
      <4>4. \A i \in DOMAIN checkpointOrder' :
               i = Len(checkpointOrder) + 1 \/ i \in DOMAIN checkpointOrder
        BY <4>2, <4>3
      <4>5. \A n \in DOMAIN checkpointHistory' :
               \E i \in DOMAIN checkpointOrder' : checkpointOrder'[i] = n
        BY <1>2, <3>1, <4>2, <4>3 DEF OrderMatchesHistory
      <4>6. \A i \in DOMAIN checkpointOrder' : checkpointOrder'[i] \in DOMAIN checkpointHistory'
        BY <1>2, <3>1, <4>3, <4>4 DEF OrderMatchesHistory
      <4>7. ASSUME NEW i \in DOMAIN checkpointOrder', NEW j \in DOMAIN checkpointOrder',
                   checkpointOrder'[i] = checkpointOrder'[j]
            PROVE  i = j
        BY <1>2, <3>3, <4>3, <4>4, <4>7 DEF OrderMatchesHistory
      <4>. QED
        BY <4>5, <4>6, <4>7 DEF OrderMatchesHistory
    <3>. QED
      BY <3>2, <3>3
  <2>. QED
    BY <1>2, <2>1, <2>2, MemoryStep
<1>. QED
  BY <1>1, <1>2, CpTypeCorrect, PTL DEF Spec

\* A builder's size, read under one lock, is still within the log when it is
\* published under another: the log never shrinks.
THEOREM CoveredTheorem == Spec => []CheckpointsCovered
<1> DEFINE Mine(b) ==
      /\ bpc[b] \in {"lookup", "sign", "publish", "reply"} => 0 < bsize[b]
      /\ bpc[b] \in {"lookup", "sign", "publish", "reply", "list"} => bsize[b] <= next
      /\ bpc[b] \in {"publish", "reply"} => bcp[b].size = bsize[b]
<1>1. Init => CheckpointsCovered
  BY DEF Init, CpInit, CheckpointsCovered
<1>2. ASSUME CpTypeOK, EvTypeOK, EvTypeOK', LeavesExact, CheckpointsCovered, [Next]_vars
      PROVE  CheckpointsCovered'
  <2> USE <1>2
  <2>1. next \in Nat /\ next' \in Nat /\ next <= next'
    <3>1. [EvNext]_evVars
      BY DEF Next, vars
    <3>. QED
      BY <3>1, GlobalsStep DEF EvTypeOK, globals, Recorded, Assigned
  <2>2. \A n \in DOMAIN checkpointHistory' :
           0 < n /\ n <= next' /\ checkpointHistory'[n].size = n
    <3>1. CASE UNCHANGED memory
      BY <2>1, <3>1 DEF memory, CheckpointsCovered, CpTypeOK
    <3>2. ASSUME NEW b \in Builders, BuildPublish(b)
          PROVE  \A n \in DOMAIN checkpointHistory' :
                   0 < n /\ n <= next' /\ checkpointHistory'[n].size = n
      BY <2>1, <3>2 DEF BuildPublish, CheckpointsCovered, CpTypeOK
    <3>. QED
      BY <3>1, <3>2, MemoryStep
  <2>3. ASSUME NEW d \in Builders PROVE Mine(d)'
    <3>1. Mine(d) /\ bsize[d] \in Nat
      BY DEF CheckpointsCovered, CpTypeOK
    <3>2. CASE bpc'[d] = bpc[d] /\ bsize'[d] = bsize[d] /\ bcp'[d] = bcp[d]
      BY <2>1, <3>1, <3>2
    <3>3. CASE bpc'[d] = "idle"
      BY <3>3
    <3> USE DEF CpTypeOK
    <3>4. ASSUME NEW b \in Builders, NEW r, Answer(b, r) PROVE Mine(d)'
      BY <3>2, <3>3, <3>4 DEF Answer
    <3>5. ASSUME NEW b \in Builders, NEW op \in Ops, NEW role \in Roles, BuildStart(b, op, role)
          PROVE  Mine(d)'
      <4>1. CASE b = d /\ bpc'[d] # "idle"
        <5>1. bsize'[d] = next /\ bpc'[d] = IF next = 0 THEN "list" ELSE "lookup"
          BY <3>5, <4>1, LatestSizeIsNext DEF BuildStart, Answer
        <5>. QED
          BY <2>1, <5>1
      <4>2. CASE b # d
        BY <3>2, <3>5, <4>2 DEF BuildStart, Answer
      <4>. QED
        BY <3>3, <4>1, <4>2
    <3>6. ASSUME NEW b \in Builders, BuildLookup(b) PROVE Mine(d)'
      <4>1. CASE b = d
        BY <2>1, <3>1, <3>6, <4>1 DEF BuildLookup, AfterBuild, CheckpointsCovered
      <4>. QED
        BY <3>2, <3>6, <4>1 DEF BuildLookup, AfterBuild
    <3>7. ASSUME NEW b \in Builders, BuildSign(b) PROVE Mine(d)'
      <4>1. CASE b = d
        BY <2>1, <3>1, <3>7, <4>1 DEF BuildSign
      <4>. QED
        BY <3>2, <3>7, <4>1 DEF BuildSign
    <3>8. ASSUME NEW b \in Builders, BuildPublish(b) PROVE Mine(d)'
      <4>1. CASE b = d
        BY <2>1, <3>1, <3>8, <4>1 DEF BuildPublish, AfterBuild
      <4>. QED
        BY <3>2, <3>8, <4>1 DEF BuildPublish, AfterBuild
    <3>9. CASE UNCHANGED cpVars
      BY <3>2, <3>9 DEF cpVars
    <3>10. ASSUME NEW b \in Builders, NEW n, NEW role, VerifyBySize(b, n, role) PROVE Mine(d)'
      BY <3>4, <3>10 DEF VerifyBySize
    <3>11. ASSUME NEW b \in Builders, LatestReply(b) \/ VerifyReply(b) \/ HistoryReply(b)
           PROVE  Mine(d)'
      BY <3>4, <3>11 DEF LatestReply, VerifyReply, HistoryReply
    <3>. QED
      BY <3>5, <3>6, <3>7, <3>8, <3>9, <3>10, <3>11
         DEF Next, CpNext, Build, vars
  <2>. QED
    BY <2>2, <2>3 DEF CheckpointsCovered
<1>. QED
  BY <1>1, <1>2, CpTypeCorrect, CompositionTheorem, EvTypeCorrect, LeavesTheorem, PTL
     DEF Spec
-----------------------------------------------------------------------------
(* The listing *)

\* No step unpublishes a size.
LEMMA HistoryMonotone ==
  ASSUME [Next]_vars
  PROVE  DOMAIN checkpointHistory \subseteq DOMAIN checkpointHistory'
  BY MemoryStep DEF memory, BuildPublish

\* Published sizes stay published and the listing only grows at its end,
\* however builders overlap and whatever the signing service does.
THEOREM HistoryGrowsTheorem == Spec => HistoryGrows
<1>1. ASSUME CpTypeOK, [Next]_vars
      PROVE  /\ DOMAIN checkpointHistory \subseteq DOMAIN checkpointHistory'
             /\ IsPrefix(checkpointOrder, checkpointOrder')
  <2>1. checkpointOrder \in Seq(Nat) /\ \A b \in Builders : bsize[b] \in Nat
    BY <1>1 DEF CpTypeOK
  <2>2. IsPrefix(checkpointOrder, checkpointOrder)
    BY <2>1 DEF IsPrefix
  <2>3. ASSUME NEW n \in Nat PROVE IsPrefix(checkpointOrder, Append(checkpointOrder, n))
    BY <2>1 DEF IsPrefix
  <2>4. \/ checkpointOrder' = checkpointOrder
        \/ \E b \in Builders : checkpointOrder' = Append(checkpointOrder, bsize[b])
    BY <1>1, MemoryStep DEF memory, BuildPublish
  <2>. QED
    BY <1>1, <2>1, <2>2, <2>3, <2>4, HistoryMonotone
<1>. QED
  BY <1>1, CpTypeCorrect, PTL DEF Spec, HistoryGrows

\* A checkpoint nobody is about to replace is final: a builder that comes later
\* finds it, whatever it holds, and never reaches the signing service.
THEOREM SettledTheorem == Spec => SettledFinal
<1>1. ASSUME CpTypeOK, [Next]_vars
      PROVE  \A n \in DOMAIN checkpointHistory :
               Settled(n) => Settled(n)' /\ checkpointHistory'[n] = checkpointHistory[n]
  <2> SUFFICES ASSUME NEW n \in DOMAIN checkpointHistory, Settled(n)
               PROVE  Settled(n)' /\ checkpointHistory'[n] = checkpointHistory[n]
    OBVIOUS
  <2> USE <1>1
  <2>1. checkpointHistory'[n] = checkpointHistory[n]
    BY MemoryStep DEF memory, BuildPublish, Settled
  <2>2. n \in DOMAIN checkpointHistory'
    BY HistoryMonotone
  <2>3. ASSUME NEW d \in Builders PROVE bpc'[d] \in {"sign", "publish"} => bsize'[d] # n
    <3>1. bpc[d] \in {"sign", "publish"} => bsize[d] # n
      BY DEF Settled
    <3>2. CASE bpc'[d] = bpc[d] /\ bsize'[d] = bsize[d]
      BY <3>1, <3>2
    <3> USE DEF CpTypeOK
    <3>3. ASSUME NEW b \in Builders, NEW r, Answer(b, r)
          PROVE  bpc'[d] \in {"sign", "publish"} => bsize'[d] # n
      BY <3>2, <3>3 DEF Answer
    <3>4. ASSUME NEW b \in Builders, NEW op \in Ops, NEW role \in Roles, BuildStart(b, op, role)
          PROVE  bpc'[d] \in {"sign", "publish"} => bsize'[d] # n
      <4>1. CASE Answer(b, StatusOnly(403)) \/ Answer(b, StatusOnly(404))
        BY <3>3, <4>1
      <4>2. CASE /\ bsize' = [bsize EXCEPT ![b] = LatestSize]
                 /\ bpc' = [bpc EXCEPT ![b] = IF LatestSize = 0 THEN "list" ELSE "lookup"]
        BY <3>2, <4>2
      <4>. QED
        BY <3>4, <4>1, <4>2 DEF BuildStart
    <3>5. ASSUME NEW b \in Builders, BuildLookup(b)
          PROVE  bpc'[d] \in {"sign", "publish"} => bsize'[d] # n
      <4>1. CASE b = d
        BY <3>5, <4>1 DEF BuildLookup, AfterBuild
      <4>. QED
        BY <3>2, <3>5, <4>1 DEF BuildLookup, AfterBuild
    <3>6. ASSUME NEW b \in Builders, BuildSign(b)
          PROVE  bpc'[d] \in {"sign", "publish"} => bsize'[d] # n
      BY <3>1, <3>6 DEF BuildSign
    <3>7. ASSUME NEW b \in Builders, BuildPublish(b)
          PROVE  bpc'[d] \in {"sign", "publish"} => bsize'[d] # n
      BY <3>1, <3>7 DEF BuildPublish, AfterBuild
    <3>8. CASE UNCHANGED cpVars
      BY <3>2, <3>8 DEF cpVars
    <3>9. ASSUME NEW b \in Builders, NEW m, NEW role, VerifyBySize(b, m, role)
           PROVE  bpc'[d] \in {"sign", "publish"} => bsize'[d] # n
      BY <3>3, <3>9 DEF VerifyBySize
    <3>10. ASSUME NEW b \in Builders, LatestReply(b) \/ VerifyReply(b) \/ HistoryReply(b)
           PROVE  bpc'[d] \in {"sign", "publish"} => bsize'[d] # n
      BY <3>3, <3>10 DEF LatestReply, VerifyReply, HistoryReply
    <3>. QED
      BY <3>4, <3>5, <3>6, <3>7, <3>8, <3>9, <3>10 DEF Next, CpNext, Build, vars
  <2>. QED
    BY <2>1, <2>2, <2>3 DEF Settled
<1>. QED
  BY <1>1, CpTypeCorrect, PTL DEF Spec, SettledFinal

\* A history request lists the checkpoint it built, although it gives up mu
\* between publishing it and listing, and lists nothing that is not published.
THEOREM ListingTheorem == Spec => []HistoryIncludesBuilt
<1> DEFINE Built(b) == bpc[b] = "list" /\ bsize[b] # 0 => bsize[b] \in DOMAIN checkpointHistory
           Listed(b) == \A i \in DOMAIN breply[b].sizes :
                           breply[b].sizes[i] \in DOMAIN checkpointHistory
<1>1. Init => HistoryIncludesBuilt
  <2>1. DOMAIN StatusOnly(0).sizes = {}
    BY DEF StatusOnly, Reply
  <2>. QED
    BY <2>1 DEF Init, CpInit, HistoryIncludesBuilt
<1>2. ASSUME CpTypeOK, OrderMatchesHistory, HistoryIncludesBuilt, [Next]_vars
      PROVE  HistoryIncludesBuilt'
  <2> USE <1>2
  <2> SUFFICES ASSUME NEW d \in Builders PROVE Built(d)' /\ Listed(d)'
    BY DEF HistoryIncludesBuilt
  <2>0. Built(d) /\ Listed(d) /\ DOMAIN checkpointHistory \subseteq DOMAIN checkpointHistory'
    BY HistoryMonotone DEF HistoryIncludesBuilt
  <2>1. ASSUME breply'[d] = breply[d] PROVE Listed(d)'
    BY <2>0, <2>1
  <2>2. ASSUME bpc'[d] = bpc[d], bsize'[d] = bsize[d] PROVE Built(d)'
    BY <2>0, <2>2
  <2>3. ASSUME NEW b \in Builders, NEW r, Answer(b, r),
               \A i \in DOMAIN r.sizes : r.sizes[i] \in DOMAIN checkpointHistory
        PROVE  Built(d)' /\ Listed(d)'
    <3>1. CASE b = d
      <4>1. bpc'[d] = "idle" /\ breply'[d] = r
        BY <2>3, <3>1 DEF Answer, CpTypeOK
      <4>. QED
        BY <2>0, <2>3, <4>1
    <3>2. CASE b # d
      <4>1. breply'[d] = breply[d] /\ bpc'[d] = bpc[d] /\ bsize'[d] = bsize[d]
        BY <2>3, <3>2 DEF Answer, CpTypeOK
      <4>. QED
        BY <2>0, <4>1
    <3>. QED
      BY <3>1, <3>2
  <2>4. /\ \A code : DOMAIN StatusOnly(code).sizes = {}
        /\ \A cp : DOMAIN Verdict(cp).sizes = {}
        /\ \A code : DOMAIN Reply(code, "none", <<>>).sizes = {}
    BY DEF StatusOnly, Verdict, Reply
  <2>5. ASSUME NEW b \in Builders, NEW op \in Ops, NEW role \in Roles, BuildStart(b, op, role)
        PROVE  Built(d)' /\ Listed(d)'
    <3>1. CASE Answer(b, StatusOnly(403)) \/ Answer(b, StatusOnly(404))
      BY <2>3, <2>4, <3>1
    <3>2. CASE /\ bsize' = [bsize EXCEPT ![b] = LatestSize]
               /\ bpc' = [bpc EXCEPT ![b] = IF LatestSize = 0 THEN "list" ELSE "lookup"]
               /\ breply' = [breply EXCEPT ![b] = StatusOnly(0)]
      <4>1. CASE b = d
        <5>1. /\ bsize'[d] = LatestSize
              /\ bpc'[d] = IF LatestSize = 0 THEN "list" ELSE "lookup"
              /\ breply'[d] = StatusOnly(0)
          BY <3>2, <4>1 DEF CpTypeOK
        <5>2. Built(d)'
          BY <5>1
        <5>3. Listed(d)'
          BY <2>4, <5>1
        <5>. QED
          BY <5>2, <5>3
      <4>2. CASE b # d
        BY <2>1, <2>2, <3>2, <4>2 DEF CpTypeOK
      <4>. QED
        BY <4>1, <4>2
    <3>. QED
      BY <2>5, <3>1, <3>2 DEF BuildStart
  <2>6. ASSUME NEW b \in Builders, NEW n, NEW role, VerifyBySize(b, n, role)
        PROVE  Built(d)' /\ Listed(d)'
    BY <2>3, <2>4, <2>6 DEF VerifyBySize
  <2>7. ASSUME NEW b \in Builders, BuildLookup(b) \/ BuildSign(b) \/ BuildPublish(b)
        PROVE  Built(d)' /\ Listed(d)'
    <3>1. Listed(d)'
      BY <2>1, <2>7 DEF BuildLookup, BuildSign, BuildPublish
    <3>2. Built(d)'
      <4>1. CASE b = d
        BY <2>0, <2>7, <4>1 DEF BuildLookup, BuildSign, BuildPublish, CpTypeOK, memory
      <4>2. CASE b # d
        BY <2>2, <2>7, <4>2 DEF BuildLookup, BuildSign, BuildPublish, AfterBuild, CpTypeOK
      <4>. QED
        BY <4>1, <4>2
    <3>. QED
      BY <3>1, <3>2
  <2>8. ASSUME NEW b \in Builders, LatestReply(b) \/ VerifyReply(b)
        PROVE  Built(d)' /\ Listed(d)'
    BY <2>3, <2>4, <2>8 DEF LatestReply, VerifyReply
  <2>9. ASSUME NEW b \in Builders, HistoryReply(b) PROVE Built(d)' /\ Listed(d)'
    <3> DEFINE q == Reverse(checkpointOrder)
               r == Reply(200, "none", q)
    <3>1. checkpointOrder \in Seq(Nat)
      BY DEF CpTypeOK
    <3>2. q \in Seq(Nat) /\ Len(q) = Len(checkpointOrder)
             /\ \A i \in 1..Len(checkpointOrder) :
                  q[i] = checkpointOrder[Len(checkpointOrder) - i + 1]
      BY <3>1, ReverseType
    <3>3. \A i \in DOMAIN q : q[i] \in DOMAIN checkpointHistory
      <4> HIDE DEF q
      <4> SUFFICES ASSUME NEW i \in DOMAIN q PROVE q[i] \in DOMAIN checkpointHistory
        OBVIOUS
      <4>1. i \in 1..Len(checkpointOrder) /\ Len(checkpointOrder) \in Nat
        BY <3>1, <3>2
      <4>2. Len(checkpointOrder) - i + 1 \in DOMAIN checkpointOrder
        BY <3>1, <4>1
      <4>. QED
        BY <3>2, <4>1, <4>2 DEF OrderMatchesHistory
    <3>4. r.sizes = q
      BY DEF Reply
    <3>5. Answer(b, r)
      BY <2>9 DEF HistoryReply
    <3> HIDE DEF r, q
    <3>. QED
      BY <2>3, <3>3, <3>4, <3>5
  <2>10. CASE UNCHANGED cpVars
    BY <2>1, <2>2, <2>10 DEF cpVars
  <2>. QED
    BY <2>5, <2>6, <2>7, <2>8, <2>9, <2>10 DEF Next, CpNext, Build, vars
<1>. QED
  BY <1>1, <1>2, CpTypeCorrect, OrderTheorem, PTL DEF Spec
=============================================================================

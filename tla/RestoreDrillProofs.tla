-------------------------- MODULE RestoreDrillProofs --------------------------
(***************************************************************************)
(* Proofs about RestoreDrill, for any number of seeds, samples, rounds of  *)
(* waiting and deaths of the vault.                                        *)
(***************************************************************************)
EXTENDS RestoreDrill, TLAPS

\* The steps at which after_state.json is being written or has been.
Late == {"after", "verify", "summary", "done", "exited"}

\* Any step of the drill or of the vault.
LEMMA DrillCases ==
  ASSUME Next
  PROVE  \/ NoDocker \/ Abort \/ Seed \/ SeedDone \/ Poll \/ ProbeBefore \/ ProbeAfter
         \/ Verify \/ Summarise \/ Finish
         \/ ComposeDown("start", "up1") \/ ComposeDown("down2", "up2")
         \/ ComposeUp("up1", "health1") \/ ComposeUp("up2", "health2")
         \/ Health("health1", "seed") \/ Health("health2", "restore")
         \/ Database("dump", "down2") \/ Database("restore", "after")
         \/ ProbeDone("before", "dump") \/ ProbeDone("after", "verify")
         \/ VaultReady \/ VaultHangs \/ VaultAnswers \/ OthersIngest \/ VaultDies
         \/ \E id \in {0} \cup Ids : VaultCommits(id)
  BY DEF Next, Script, Commands
-----------------------------------------------------------------------------
(* The exit status *)

\* The steps after the verifier ran.
Judging == {"summary", "done", "exited"}

\* The files of the verdict are written in order: the verifier's exit status
\* and verdict at "verify", the summary after it, the exit status at the end;
\* a success of the verifier and a pass of the summary come from a verdict
\* that the recorded states justify.
ExitInv ==
  /\ strict \in BOOLEAN
  /\ step # "exited" => exit = Nil
  /\ step \notin {"done", "exited"} => summary = Nil
  /\ step \notin Judging => verifyExit = Nil /\ verdict = Nil
  /\ verdict = TRUE => verifyDrill(before, after)
  /\ verifyExit = 0 => verdict = TRUE
  /\ summary = TRUE => verdict = TRUE
  /\ step = "done" /\ verifyExit = 0 => summary = TRUE
  /\ exit = 0 /\ strict => summary = TRUE /\ verifyExit = 0

\* What the verifier leaves behind.
LEMMA VerifyLeaves ==
  ASSUME Verify
  PROVE  \/ verdict' = TRUE /\ verifyExit' \in {0, 1} /\ verifyDrill(before, after)
         \/ verdict' = FALSE /\ verifyExit' = 1
         \/ verdict' = verdict /\ verifyExit' = 1
<1>1. CASE verdict' = verifyDrill(before, after) /\ verifyExit' \in IF verdict' THEN {0, 1} ELSE {1}
  <2>1. verdict' \in BOOLEAN
    BY <1>1 DEF verifyDrill
  <2>. QED
    BY <1>1, <2>1
<1>2. CASE verifyExit' = 1 /\ UNCHANGED verdict
  BY <1>2
<1>. QED
  BY <1>1, <1>2 DEF Verify

\* ExitInv holds.
LEMMA ExitInvariant == Spec => []ExitInv
<1>1. Init => ExitInv
  BY DrillAssumption DEF Init, ExitInv
<1>2. ASSUME ExitInv, [Next]_vars PROVE ExitInv'
  <2> USE <1>2 DEF ExitInv, Judging, Goto, files, service, script
  <2>0. Nil # 0 /\ Nil # TRUE /\ 0 # 1 /\ 0 # 127
    <3>1. 0 \in Nat /\ 0 # 1 /\ 0 # 127
      OBVIOUS
    <3>. QED
      BY <3>1, DrillAssumption, Zenon
  <2>1. CASE NoDocker
    <3>1. /\ step' = "done" /\ summary' = FALSE /\ verifyExit' = 127
          /\ verdict' = Nil /\ exit' = Nil /\ strict' = strict
      BY <2>1 DEF NoDocker
    <3>. QED
      BY <2>0, <3>1, Zenon
  <2>2. CASE Abort
    <3>1. /\ step' = "exited" /\ exit' = 1
          /\ UNCHANGED <<strict, before, after, verdict, verifyExit, summary>>
      BY <2>2 DEF Abort
    <3>. QED
      BY <2>0, <3>1, Zenon
  <2>3. CASE Verify
    <3>1. /\ step' = "summary" /\ summary' = Nil /\ exit' = Nil
          /\ verdict = Nil /\ UNCHANGED <<strict, before, after>>
      BY <2>3 DEF Verify
    <3>2. \/ verdict' = TRUE /\ verifyDrill(before', after')
          \/ verdict' # TRUE /\ verifyExit' = 1
      BY <2>0, <2>3, <3>1, VerifyLeaves, Zenon
    <3>. QED
      BY <2>0, <3>1, <3>2, Zenon
  <2>4. CASE Summarise
    <3>1. /\ step' = "done" /\ exit' = Nil
          /\ UNCHANGED <<strict, before, after, verdict, verifyExit>>
      BY <2>4 DEF Summarise
    <3>2. summary' = TRUE <=> verdict = TRUE
      BY <2>4, Zenon DEF Summarise
    <3>. QED
      BY <2>0, <3>1, <3>2, Zenon
  <2>4a. CASE Finish
    <3>1. /\ step = "done" /\ step' = "exited" /\ exit' = IF strict THEN verifyExit ELSE 0
          /\ UNCHANGED <<strict, before, after, verdict, verifyExit, summary>>
      BY <2>4a DEF Finish
    <3>. QED
      BY <2>0, <3>1, Zenon
  <2>5. ASSUME UNCHANGED <<strict, verdict, verifyExit, summary, exit>>,
               UNCHANGED <<before, after>> \/ step \notin Judging,
               step \notin {"verify", "summary", "done", "exited"} \/ step' = step,
               step' \notin {"summary", "done", "exited"} \/ step' = step
        PROVE  ExitInv'
    <3>1. CASE step' = step /\ UNCHANGED <<before, after>>
      BY <2>5, <3>1, Zenon
    <3>2. CASE step \notin Judging
      <4>1. verdict' = Nil /\ verifyExit' = Nil /\ summary' = Nil /\ exit' = Nil
        BY <2>5, <3>2
      <4>2. step' \notin {"done", "exited"}
        BY <2>5, <3>2
      <4>. QED
        BY <2>0, <2>5, <4>1, <4>2, Zenon
    <3>. QED
      BY <2>5, <3>1, <3>2
  <2>6. CASE Seed \/ SeedDone \/ Poll \/ ProbeBefore \/ ProbeAfter
    BY <2>5, <2>6 DEF Seed, SeedDone, Poll, ProbeBefore, ProbeAfter
  <2>7. CASE ComposeDown("start", "up1") \/ ComposeDown("down2", "up2")
    BY <2>5, <2>7 DEF ComposeDown
  <2>8. CASE ComposeUp("up1", "health1") \/ ComposeUp("up2", "health2")
    BY <2>5, <2>8 DEF ComposeUp
  <2>9. CASE Health("health1", "seed") \/ Health("health2", "restore")
    BY <2>5, <2>9 DEF Health
  <2>10. CASE Database("dump", "down2") \/ Database("restore", "after")
    BY <2>5, <2>10 DEF Database
  <2>11. CASE ProbeDone("before", "dump") \/ ProbeDone("after", "verify")
    BY <2>5, <2>11 DEF ProbeDone
  <2>12. CASE VaultReady \/ VaultHangs \/ VaultAnswers \/ OthersIngest \/ VaultDies
    BY <2>5, <2>12 DEF VaultReady, VaultHangs, VaultAnswers, OthersIngest, VaultDies
  <2>13. ASSUME NEW id, VaultCommits(id) PROVE ExitInv'
    BY <2>5, <2>13 DEF VaultCommits
  <2>14. CASE UNCHANGED vars
    BY <2>5, <2>14 DEF vars
  <2>. QED
    BY <2>1, <2>2, <2>3, <2>4, <2>4a, <2>6, <2>7, <2>8, <2>9, <2>10, <2>11, <2>12, <2>13, <2>14,
       DrillCases
<1>. QED
  BY <1>1, <1>2, PTL DEF Spec

\* In strict mode the drill exits 0 only if the verifier did and a summary that
\* says pass was written, and a passing summary is one the recorded states
\* justify, whichever command failed on the way, the last ones included.
THEOREM StrictExitTheorem == Spec => []StrictExit
<1>1. ExitInv => StrictExit
  BY DEF ExitInv, StrictExit
<1>. QED
  BY <1>1, ExitInvariant, PTL
-----------------------------------------------------------------------------
(* What a passing drill means *)

\* A vault only holds evidence its own process accepted.
OfLast == \A id \in Ids : evidence[id] # "absent" => born.of[id] = born.last

\* Every proof recorded after the restore was answered by a vault that has the
\* sampled seed, and there is one for each seed once the probe is over.
Proved ==
  /\ after.proofs \in Seq(BOOLEAN)
  /\ step \notin Late => after.proofs = <<>>
  /\ step = "after" => /\ count \in 0..(2 + Len(Sampled))
                       /\ Len(after.proofs) = IF count <= 2 THEN 0 ELSE count - 2
  /\ step \in {"verify", "summary"} => Len(after.proofs) = Len(Sampled)
  /\ \A i \in DOMAIN after.proofs :
       after.proofs[i] = TRUE =>
         i \in DOMAIN Sampled /\ born.of[Sampled[i]] = born.last

\* A passing verdict has seen these proofs.
Judged ==
  /\ step = "summary" /\ verdict = TRUE =>
       /\ after.proofs # <<>>
       /\ \A i \in DOMAIN after.proofs : after.proofs[i] = TRUE

DrillTypes ==
  /\ ids \in Seq(Ids)
  /\ count \in Nat
  /\ DOMAIN after = {"root", "verified", "proofs"}
  /\ evidence \in [{0} \cup Ids -> {"absent", "pending", "leaf"}]
  /\ born \in [last : Nat, of : [Ids -> Nat]]

KeptInv == DrillTypes /\ OfLast /\ Proved /\ Judged /\ PassMeansKept

\* The sampled ids are ids of seeds.
LEMMA SampledType ==
  ASSUME ids \in Seq(Ids)
  PROVE  Sampled \in Seq(Ids) /\ Len(Sampled) \in Nat /\ DOMAIN Sampled = 1..Len(Sampled)
<1>1. DrillAssumption => Samples \in Nat
  BY DEF DrillAssumption
<1> DEFINE k == IF Len(ids) < Samples THEN Len(ids) ELSE Samples
<1>2. k \in Nat /\ k <= Len(ids)
  BY <1>1, DrillAssumption
<1> HIDE DEF k
<1>3. SubSeq(ids, 1, k) \in Seq(Ids)
  BY <1>2
<1>4. Sampled \in Seq(Ids)
  BY <1>3 DEF Sampled, k
<1>. QED
  BY <1>4

\* The vault's own steps and what the script leaves alone.
LEMMA VaultStep ==
  ASSUME DrillTypes, OfLast, [Next]_vars
  PROVE  DrillTypes' /\ OfLast'
<1> USE DEF DrillTypes, OfLast, Goto, files, service, script
<1>1. CASE UNCHANGED <<ids, after, evidence, born>> /\ count' \in Nat
  BY <1>1
<1>2. ASSUME evidence' = [id \in {0} \cup Ids |-> "absent"],
             born' = born \/ born' = [born EXCEPT !.last = @ + 1],
             UNCHANGED <<ids, after>>, count' \in Nat
      PROVE  DrillTypes' /\ OfLast'
  <2>1. born' \in [last : Nat, of : [Ids -> Nat]]
    BY <1>2
  <2>. QED
    BY <1>2, <2>1
<1>3. CASE Seed
  <2>1. count + 1 \in Ids /\ count' = count + 1 /\ count + 1 # 0
    BY <1>3, DrillAssumption DEF Seed, Ids
  <2>2. CASE UNCHANGED <<ids, evidence, born>>
    BY <1>1, <1>3, <2>1, <2>2 DEF Seed
  <2>3. CASE /\ ids' = Append(ids, count')
             /\ evidence' = [evidence EXCEPT ![count'] = "pending"]
             /\ born' = [born EXCEPT !.of[count'] = born.last]
    <3>1. ids' \in Seq(Ids) /\ evidence' \in [{0} \cup Ids -> {"absent", "pending", "leaf"}]
      BY <2>1, <2>3
    <3>2. /\ born' \in [last : Nat, of : [Ids -> Nat]] /\ born'.last = born.last
          /\ born'.of[count'] = born.last
          /\ \A id \in Ids : id # count' => born'.of[id] = born.of[id]
      BY <2>1, <2>3
    <3>3. \A id \in Ids : id # count' => evidence'[id] = evidence[id]
      BY <2>1, <2>3
    <3>4. UNCHANGED after
      BY <1>3 DEF Seed
    <3>5. DrillTypes'
      BY <2>1, <3>1, <3>2, <3>4
    <3>6. ASSUME NEW id \in Ids, evidence'[id] # "absent" PROVE born'.of[id] = born'.last
      <4>1. CASE id = count'
        BY <3>2, <4>1
      <4>2. CASE id # count'
        BY <3>2, <3>3, <3>6, <4>2
      <4>. QED
        BY <4>1, <4>2
    <3>. QED
      BY <3>5, <3>6
  <2>. QED
    BY <1>3, <2>2, <2>3 DEF Seed
<1>4. CASE ProbeAfter
  <2>1. /\ count' = count + 1 /\ UNCHANGED <<ids, evidence, born>>
        /\ after' = Probe(after) \/ after' = Failed(after)
    BY <1>4 DEF ProbeAfter
  <2>2. DOMAIN after' = DOMAIN after
    BY <2>1 DEF Probe, Failed
  <2>. QED
    BY <2>1, <2>2
<1>5. CASE NoDocker \/ Abort \/ SeedDone \/ Poll \/ ProbeBefore \/ Verify \/ Summarise \/ Finish
  BY <1>1, <1>5 DEF NoDocker, Abort, SeedDone, Poll, ProbeBefore, Verify, Summarise, Finish
<1>6. CASE ComposeDown("start", "up1") \/ ComposeDown("down2", "up2")
  BY <1>1, <1>2, <1>6 DEF ComposeDown, Stop
<1>7. CASE ComposeUp("up1", "health1") \/ ComposeUp("up2", "health2")
  BY <1>1, <1>2, <1>7 DEF ComposeUp, Boot
<1>8. CASE Health("health1", "seed") \/ Health("health2", "restore")
  BY <1>1, <1>8 DEF Health
<1>9. CASE Database("dump", "down2") \/ Database("restore", "after")
  BY <1>1, <1>9 DEF Database
<1>10. CASE ProbeDone("before", "dump") \/ ProbeDone("after", "verify")
  BY <1>1, <1>10 DEF ProbeDone
<1>11. CASE VaultReady \/ VaultHangs \/ VaultAnswers
  BY <1>1, <1>11 DEF VaultReady, VaultHangs, VaultAnswers
<1>12. CASE OthersIngest
  <2>1. \A id \in Ids : id # 0
    BY DrillAssumption DEF Ids
  <2>. QED
    BY <1>12, <2>1 DEF OthersIngest
<1>13. CASE VaultDies
  BY <1>2, <1>13 DEF VaultDies, Stop
<1>14. ASSUME NEW id \in {0} \cup Ids, VaultCommits(id) PROVE DrillTypes' /\ OfLast'
  BY <1>14 DEF VaultCommits
<1>15. CASE UNCHANGED vars
  BY <1>1, <1>15 DEF vars
<1>. QED
  BY <1>3, <1>4, <1>5, <1>6, <1>7, <1>8, <1>9, <1>10, <1>11, <1>12, <1>13, <1>14, <1>15,
     DrillCases

\* What Append adds to a sequence of answers.
LEMMA AnswerAdded ==
  ASSUME NEW S, NEW q \in Seq(S), NEW b \in S, NEW r, r = Append(q, b)
  PROVE  /\ r \in Seq(S) /\ Len(r) = Len(q) + 1
         /\ \A i \in DOMAIN r : \/ i \in DOMAIN q /\ r[i] = q[i]
                                \/ i = Len(q) + 1 /\ r[i] = b
<1>1. r \in Seq(S) /\ Len(r) = Len(q) + 1
  OBVIOUS
<1>2. DOMAIN r = 1..(Len(q) + 1) /\ DOMAIN q = 1..Len(q) /\ Len(q) \in Nat
  BY <1>1
<1>3. \A i \in 1..Len(q) : r[i] = q[i]
  OBVIOUS
<1>4. r[Len(q) + 1] = b
  OBVIOUS
<1>5. \A i \in 1..(Len(q) + 1) : i \in 1..Len(q) \/ i = Len(q) + 1
  BY <1>2
<1>. QED
  BY <1>1, <1>2, <1>3, <1>4, <1>5, Zenon

\* A probe adds an answer only once it is past the checkpoint and its
\* verification, and a positive one only from a vault that has the seed's leaf.
LEMMA ProbeAdds ==
  ASSUME DrillTypes, Proved, ProbeAfter
  PROVE  \/ count <= 1 /\ after'.proofs = after.proofs
         \/ /\ count > 1
            /\ \E b \in BOOLEAN : /\ after'.proofs = Append(after.proofs, b)
                                  /\ b = TRUE => HasProof(Sampled[count - 1])
<1> USE DEF DrillTypes
<1>1. CASE after' = Probe(after)
  <2>1. after'.proofs = IF count > 1 THEN Append(after.proofs, HasProof(Sampled[count - 1]))
                                     ELSE after.proofs
    BY <1>1 DEF Probe
  <2>2. HasProof(Sampled[count - 1]) \in BOOLEAN
    BY DEF HasProof
  <2>3. (count > 1) \/ (count <= 1 /\ ~(count > 1))
    OBVIOUS
  <2>. QED
    BY <2>1, <2>2, <2>3, Zenon
<1>2. CASE after' = Failed(after)
  <2>1. after'.proofs = IF count > 1 THEN Append(after.proofs, FALSE) ELSE after.proofs
    BY <1>2 DEF Failed
  <2>3. (count > 1) \/ (count <= 1 /\ ~(count > 1))
    OBVIOUS
  <2>. QED
    BY <2>1, <2>3, Zenon
<1>. QED
  BY <1>1, <1>2 DEF ProbeAfter

\* The recorded proofs stay justified: the vault's process and the sampled
\* seeds only change before the second probe begins.
LEMMA ProvedStep ==
  ASSUME DrillTypes, OfLast, Proved, [Next]_vars
  PROVE  Proved'
<1> USE DEF Goto, files, service, script, Late
<1>0. Sampled \in Seq(Ids) /\ Len(Sampled) \in Nat /\ DOMAIN Sampled = 1..Len(Sampled)
  BY SampledType DEF DrillTypes
<1>1. ASSUME after' = after, step \notin Late,
             step' \notin Late \/ step' \in {"done", "exited"} \/ (step' = "after" /\ count' = 0 /\ ids' = ids)
      PROVE  Proved'
  <2>1. after.proofs = <<>> /\ DOMAIN after.proofs = {} /\ Len(after.proofs) = 0
    BY <1>1 DEF Proved
  <2>2. step' = "after" => Sampled' = Sampled
    BY <1>1 DEF Sampled
  <2>. QED
    BY <1>0, <1>1, <2>1, <2>2 DEF Proved
<1>2. ASSUME UNCHANGED <<after, ids, born, step>>, step = "after" => count' = count
      PROVE  Proved'
  <2>1. Sampled' = Sampled
    BY <1>2 DEF Sampled
  <2>. QED
    BY <1>2, <2>1 DEF Proved
<1>3. CASE ProbeAfter
  <2>0. /\ step = "after" /\ step' = "after" /\ count' = count + 1 /\ count < 2 + Len(Sampled)
        /\ UNCHANGED <<ids, born>> /\ count \in Nat
    BY <1>3 DEF ProbeAfter, DrillTypes
  <2>1. Sampled' = Sampled
    BY <2>0 DEF Sampled
  <2>2. CASE count <= 1 /\ after'.proofs = after.proofs
    BY <1>0, <2>0, <2>1, <2>2 DEF Proved
  <2>3. ASSUME count > 1, NEW b \in BOOLEAN, after'.proofs = Append(after.proofs, b),
               b = TRUE => HasProof(Sampled[count - 1])
        PROVE  Proved'
    <3>1. after.proofs \in Seq(BOOLEAN) /\ Len(after.proofs) = count - 2
      BY <2>0, <2>3 DEF Proved
    <3>2. /\ after'.proofs \in Seq(BOOLEAN) /\ Len(after'.proofs) = count - 1
          /\ \A i \in DOMAIN after'.proofs :
               \/ i \in DOMAIN after.proofs /\ after'.proofs[i] = after.proofs[i]
               \/ i = count - 1 /\ after'.proofs[i] = b
      <4>1. /\ after'.proofs \in Seq(BOOLEAN) /\ Len(after'.proofs) = Len(after.proofs) + 1
            /\ \A i \in DOMAIN after'.proofs :
                 \/ i \in DOMAIN after.proofs /\ after'.proofs[i] = after.proofs[i]
                 \/ i = Len(after.proofs) + 1 /\ after'.proofs[i] = b
        BY <2>3, <3>1, AnswerAdded
      <4>2. Len(after.proofs) + 1 = count - 1
        BY <2>0, <3>1
      <4>. QED
        BY <4>1, <4>2
    <3>3. count - 1 \in DOMAIN Sampled
      BY <1>0, <2>0, <2>3
    <3>4. b = TRUE => born.of[Sampled[count - 1]] = born.last
      <4>1. Sampled[count - 1] \in Ids
        BY <1>0, <3>3
      <4>. QED
        BY <2>3, <4>1 DEF HasProof, OfLast
    <3>5. \A i \in DOMAIN after'.proofs :
            after'.proofs[i] = TRUE => i \in DOMAIN Sampled /\ born.of[Sampled[i]] = born.last
      <4>1. \A i \in DOMAIN after.proofs :
              after.proofs[i] = TRUE => i \in DOMAIN Sampled /\ born.of[Sampled[i]] = born.last
        BY DEF Proved
      <4>. QED
        BY <3>2, <3>3, <3>4, <4>1, Zenon
    <3>6. /\ count' \in 0..(2 + Len(Sampled'))
          /\ Len(after'.proofs) = IF count' <= 2 THEN 0 ELSE count' - 2
      BY <1>0, <2>0, <2>1, <2>3, <3>2
    <3>. QED
      BY <2>0, <2>1, <3>2, <3>5, <3>6 DEF Proved
  <2>. QED
    BY <1>3, <2>2, <2>3, ProbeAdds
<1>4. CASE ProbeDone("after", "verify")
  <2>1. /\ step = "after" /\ count = 2 + Len(Sampled) /\ step' = "verify"
        /\ UNCHANGED <<ids, after, born>>
    BY <1>4 DEF ProbeDone
  <2>2. Sampled' = Sampled
    BY <2>1 DEF Sampled
  <2>3. Len(after.proofs) = Len(Sampled)
    BY <1>0, <2>1 DEF Proved
  <2>. QED
    BY <2>1, <2>2, <2>3 DEF Proved
<1>5. CASE Verify \/ Summarise \/ Finish \/ (Abort /\ step \in Late)
  <2>1. /\ \/ step = "verify" /\ step' = "summary"
           \/ step' \in {"done", "exited"}
        /\ step \in Late
        /\ UNCHANGED <<ids, after, born>>
    BY <1>5 DEF Verify, Summarise, Finish, Abort
  <2>2. Sampled' = Sampled
    BY <2>1 DEF Sampled
  <2>. QED
    BY <2>1, <2>2 DEF Proved
<1>6. CASE NoDocker \/ (Abort /\ step \notin Late) \/ Seed \/ SeedDone \/ Poll \/ ProbeBefore
  BY <1>1, <1>6 DEF NoDocker, Abort, Seed, SeedDone, Poll, ProbeBefore
<1>7. CASE ComposeDown("start", "up1") \/ ComposeDown("down2", "up2")
  BY <1>1, <1>7 DEF ComposeDown
<1>8. CASE ComposeUp("up1", "health1") \/ ComposeUp("up2", "health2")
  BY <1>1, <1>8 DEF ComposeUp
<1>9. CASE Health("health1", "seed") \/ Health("health2", "restore")
  BY <1>1, <1>9 DEF Health
<1>10. CASE Database("dump", "down2") \/ Database("restore", "after")
  BY <1>1, <1>10 DEF Database
<1>11. CASE ProbeDone("before", "dump")
  BY <1>1, <1>11 DEF ProbeDone
<1>12. CASE VaultReady \/ VaultHangs \/ VaultAnswers \/ OthersIngest \/ VaultDies
  BY <1>2, <1>12 DEF VaultReady, VaultHangs, VaultAnswers, OthersIngest, VaultDies
<1>13. ASSUME NEW id, VaultCommits(id) PROVE Proved'
  BY <1>2, <1>13 DEF VaultCommits
<1>14. CASE UNCHANGED vars
  BY <1>2, <1>14 DEF vars
<1>. QED
  BY <1>3, <1>4, <1>5, <1>6, <1>7, <1>8, <1>9, <1>10, <1>11, <1>12, <1>13, <1>14, DrillCases

\* What the verifier demands of the answers after the restore.
LEMMA VerdictMeans ==
  ASSUME Proved, verifyDrill(before, after)
  PROVE  after.proofs # <<>> /\ \A i \in DOMAIN after.proofs : after.proofs[i] = TRUE
<1>1. after.proofs # <<>> /\ \A i \in DOMAIN after.proofs : after.proofs[i]
  BY DEF verifyDrill
<1>2. \A i \in DOMAIN after.proofs : after.proofs[i] \in BOOLEAN
  BY DEF Proved
<1>. QED
  BY <1>1, <1>2, Zenon

\* The verdict and the summary pass on what the proofs show, and nothing that
\* happens after the summary was written takes it back.
LEMMA JudgedStep ==
  ASSUME DrillTypes, Proved, Judged, PassMeansKept, ExitInv, [Next]_vars
  PROVE  Judged' /\ PassMeansKept'
<1> USE DEF Goto, files, service, script
<1>0. Nil # TRUE
  BY DrillAssumption, Zenon
<1>1. ASSUME UNCHANGED summary, summary = Nil, step' # "summary"
      PROVE  Judged' /\ PassMeansKept'
  BY <1>0, <1>1, Zenon DEF Judged, PassMeansKept
<1>2. ASSUME UNCHANGED <<verdict, summary, ids, born, after>>, step' = step \/ step' # "summary"
      PROVE  Judged' /\ PassMeansKept'
  <2>1. Sampled' = Sampled
    BY <1>2 DEF Sampled
  <2>. QED
    BY <1>2, <2>1 DEF Judged, PassMeansKept
<1>3. CASE NoDocker \/ Abort \/ Finish
  <2>1. CASE NoDocker
    BY <1>0, <2>1 DEF NoDocker, Judged, PassMeansKept
  <2>2. CASE Abort \/ Finish
    BY <1>2, <2>2 DEF Abort, Finish
  <2>. QED
    BY <1>3, <2>1, <2>2
<1>4. CASE Verify
  <2>1. /\ step' = "summary" /\ summary' = Nil /\ verdict = Nil /\ after' = after
    BY <1>4 DEF Verify, ExitInv, Judging
  <2>2. verdict' = TRUE => verifyDrill(before, after)
    BY <1>0, <1>4, <2>1, VerifyLeaves, Zenon
  <2>3. Judged'
    BY <2>1, <2>2, VerdictMeans, Zenon DEF Judged
  <2>. QED
    BY <1>0, <2>1, <2>3 DEF PassMeansKept
<1>5. CASE Summarise
  <2>1. /\ step = "summary" /\ step' = "done"
        /\ UNCHANGED <<ids, born, after, verdict>>
    BY <1>5 DEF Summarise
  <2>2. summary' = TRUE => verdict = TRUE
    BY <1>5, Zenon DEF Summarise
  <2>3. ASSUME verdict = TRUE
        PROVE  Sampled # <<>> /\ \A i \in DOMAIN Sampled : born.of[Sampled[i]] = born.last
    <3>1. after.proofs # <<>> /\ \A i \in DOMAIN after.proofs : after.proofs[i] = TRUE
      BY <2>1, <2>3 DEF Judged
    <3>2. Len(after.proofs) = Len(Sampled) /\ after.proofs \in Seq(BOOLEAN)
      BY <2>1 DEF Proved
    <3>3. Sampled \in Seq(Ids) /\ DOMAIN Sampled = 1..Len(Sampled)
      BY SampledType DEF DrillTypes
    <3>4. DOMAIN Sampled = DOMAIN after.proofs
      BY <3>2, <3>3
    <3>5. Sampled # <<>>
      BY <3>1, <3>2, <3>3
    <3>. QED
      BY <3>1, <3>4, <3>5, Zenon DEF Proved
  <2>4. Sampled' = Sampled
    BY <2>1 DEF Sampled
  <2>5. PassMeansKept'
    BY <2>1, <2>2, <2>3, <2>4 DEF PassMeansKept
  <2>. QED
    BY <2>1, <2>5 DEF Judged
<1>6. CASE Seed \/ SeedDone \/ Poll \/ ProbeBefore \/ ProbeAfter
  BY <1>1, <1>6 DEF Seed, SeedDone, Poll, ProbeBefore, ProbeAfter, ExitInv
<1>7. CASE ComposeDown("start", "up1") \/ ComposeDown("down2", "up2")
  BY <1>1, <1>7 DEF ComposeDown, ExitInv
<1>8. CASE ComposeUp("up1", "health1") \/ ComposeUp("up2", "health2")
  BY <1>1, <1>8 DEF ComposeUp, ExitInv
<1>9. CASE Health("health1", "seed") \/ Health("health2", "restore")
  BY <1>1, <1>9 DEF Health, ExitInv
<1>10. CASE Database("dump", "down2") \/ Database("restore", "after")
  BY <1>1, <1>10 DEF Database, ExitInv
<1>11. CASE ProbeDone("before", "dump") \/ ProbeDone("after", "verify")
  BY <1>1, <1>11 DEF ProbeDone, ExitInv
<1>12. CASE VaultReady \/ VaultHangs \/ VaultAnswers \/ OthersIngest \/ VaultDies
  BY <1>2, <1>12 DEF VaultReady, VaultHangs, VaultAnswers, OthersIngest, VaultDies
<1>13. ASSUME NEW id, VaultCommits(id) PROVE Judged' /\ PassMeansKept'
  BY <1>2, <1>13 DEF VaultCommits
<1>14. CASE UNCHANGED vars
  BY <1>2, <1>14 DEF vars
<1>. QED
  BY <1>3, <1>4, <1>5, <1>6, <1>7, <1>8, <1>9, <1>10, <1>11, <1>12, <1>13, <1>14, DrillCases

\* If the summary says pass, some seed was accepted and none of the sampled
\* seeds was lost: the process that accepted them is the one that answered,
\* for any number of seeds, samples and deaths of the vault.
THEOREM PassTheorem == Spec => []PassMeansKept
<1>1. Init => KeptInv
  <2>1. ASSUME Init PROVE DrillTypes /\ OfLast
    BY <2>1 DEF Init, DrillTypes, OfLast, NoState
  <2>2. ASSUME Init PROVE Proved
    BY <2>2 DEF Init, Proved, NoState, Late
  <2>3. ASSUME Init PROVE Judged /\ PassMeansKept
    <3>1. Nil # TRUE
      BY DrillAssumption, Zenon
    <3>. QED
      BY <2>3, <3>1, Zenon DEF Init, Judged, PassMeansKept
  <2>. QED
    BY <2>1, <2>2, <2>3 DEF KeptInv
<1>2. KeptInv /\ ExitInv /\ [Next]_vars => KeptInv'
  BY VaultStep, ProvedStep, JudgedStep DEF KeptInv
<1>3. KeptInv => PassMeansKept
  BY DEF KeptInv
<1>. QED
  BY <1>1, <1>2, <1>3, ExitInvariant, PTL DEF Spec
=============================================================================

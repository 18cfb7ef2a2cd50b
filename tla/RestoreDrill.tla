----------------------------- MODULE RestoreDrill -----------------------------
(***************************************************************************)
(* The durability drill (scripts/drill_restore.sh) and its judge, the      *)
(* verifier (services/verifier-cli/cmd/verifier/main.go): seed a vault,    *)
(* record what it serves, dump the database, tear the stack down, bring it *)
(* up again, restore, record again and compare.                            *)
(*                                                                         *)
(* The script runs under set -e: any command that fails ends it, but for   *)
(* those followed by "|| true", the health check and the verifier.  The    *)
(* vault is the program main.go wires: it keeps evidence in memory only    *)
(* (no store is installed, though DATABASE_URL is set), so the dump and    *)
(* the restore carry none of it.  Its root hash is a constant: any vault   *)
(* with a leaf reports the same.  It may die at any moment, or accept      *)
(* requests and not answer them, and other clients use it.                 *)
(***************************************************************************)
EXTENDS Naturals, Sequences, SequencesExt

CONSTANTS Seeds,      \* DRILL_SEED_COUNT
          Samples,    \* how many seeds are probed for a proof (3)
          MaxPolls,   \* rounds of waiting for the leaves (60)
          MaxDeaths,  \* bound on the deaths of the vault
          Nil         \* not known, not written, no exit yet

ASSUME DrillAssumption ==
  /\ Seeds \in Nat /\ Samples \in Nat \ {0} /\ MaxPolls \in Nat /\ MaxDeaths \in Nat
  /\ Nil \notin Nat \cup BOOLEAN

VARIABLES strict,   \* DRILL_STRICT
          signed,   \* checkpoints are signed and the verification key is set
          step,     \* where the script is
          count,    \* POSTs, polls or proofs of this step so far
          ids,      \* seed_ids.txt: the seeds that were accepted
          before,   \* before_state.json
          after,    \* after_state.json
          verdict,  \* verifier_output.json: its "pass", or Nil
          verifyExit, \* VERIFY_EXIT
          summary,  \* drill_summary.json: its "pass", or Nil
          exit,     \* the exit status of the script
          vault,    \* "down", "starting", "up" or "hung"
          evidence, \* the vault's memory: id -> "pending" or "leaf"; 0 is others'
          deaths,   \* how often it has died of itself
          born      \* its processes so far, and (per seed) the one that has it

script == <<strict, signed, step, count, ids, before, after, verdict, verifyExit, summary, exit>>
service == <<vault, evidence, deaths, born>>
files == <<ids, before, after, verdict, verifyExit, summary, exit>>
vars == <<strict, signed, step, count, ids, before, after, verdict, verifyExit, summary, exit,
          vault, evidence, deaths, born>>

Ids == 1..Seeds

NoState == [root |-> FALSE, verified |-> FALSE, proofs |-> <<>>]

Init ==
  /\ strict \in BOOLEAN /\ signed \in BOOLEAN
  /\ step = "start" /\ count = 0
  /\ ids = <<>> /\ before = NoState /\ after = NoState
  /\ verdict = Nil /\ verifyExit = Nil /\ summary = Nil /\ exit = Nil
  /\ vault = "down"
  /\ evidence = [id \in {0} \cup Ids |-> "absent"]
  /\ deaths = 0
  /\ born = [last |-> 0, of |-> [id \in Ids |-> 0]]
-----------------------------------------------------------------------------
(* The vault, as the drill sees it *)

Stop == vault' = "down" /\ evidence' = [id \in {0} \cup Ids |-> "absent"]

\* A new process, with nothing in memory.
Boot ==
  /\ vault' = "starting" /\ evidence' = [id \in {0} \cup Ids |-> "absent"]
  /\ born' = [born EXCEPT !.last = @ + 1]

VaultReady ==
  /\ vault = "starting" /\ vault' = "up"
  /\ UNCHANGED <<script, evidence, deaths, born>>

\* A vault that accepts requests and answers none, and one that answers again.
VaultHangs ==
  /\ vault = "up" /\ vault' = "hung"
  /\ UNCHANGED <<script, evidence, deaths, born>>

VaultAnswers ==
  /\ vault = "hung" /\ vault' = "up"
  /\ UNCHANGED <<script, evidence, deaths, born>>

\* One tick of the committer.
VaultCommits(id) ==
  /\ vault \in {"up", "hung"} /\ evidence[id] = "pending"
  /\ evidence' = [evidence EXCEPT ![id] = "leaf"]
  /\ UNCHANGED <<script, vault, deaths, born>>

\* Somebody else ingests evidence.
OthersIngest ==
  /\ vault = "up" /\ evidence[0] = "absent"
  /\ evidence' = [evidence EXCEPT ![0] = "pending"]
  /\ UNCHANGED <<script, vault, deaths, born>>

VaultDies ==
  /\ vault # "down" /\ deaths < MaxDeaths
  /\ Stop /\ deaths' = deaths + 1
  /\ UNCHANGED <<script, born>>

\* GET /checkpoints/latest, .../verify and /evidence/{id}/proof answer 200.
HasCheckpoint == vault = "up" /\ \E id \in DOMAIN evidence : evidence[id] = "leaf"

Verifies == HasCheckpoint /\ signed

HasProof(id) == vault = "up" /\ evidence[id] = "leaf"
-----------------------------------------------------------------------------
(* The script *)

Goto(where) == step' = where /\ count' = 0

\* curl has no --max-time: a vault that accepts its request keeps it until it
\* answers or dies.  (urlopen gives up after its timeout.)
Waiting ==
  vault = "hung" /\ (step \in {"health1", "health2"} \/ (step = "seed" /\ count < Seeds))

\* Without docker a failing summary is all there is.
NoDocker ==
  /\ step = "start"
  /\ summary' = FALSE /\ verifyExit' = 127
  /\ Goto("done")
  /\ UNCHANGED <<strict, signed, ids, before, after, verdict, exit, service>>

\* set -e: a command at this point failed (the settings, "up", a POST, one of
\* the python blocks, a log line), and the script is over.
Abort ==
  /\ step \notin {"down2", "health2", "verify", "exited"} /\ ~ Waiting
  /\ exit' = 1
  /\ Goto("exited")
  /\ UNCHANGED <<strict, signed, ids, before, after, verdict, verifyExit, summary, service>>

\* docker compose down -v ... || true
ComposeDown(at, then) ==
  /\ step = at
  /\ Goto(then)
  /\ (Stop \/ UNCHANGED <<vault, evidence>>)
  /\ UNCHANGED <<strict, signed, files, deaths, born>>

\* docker compose up --build -d: a vault that is down is started; one that
\* still runs is kept, or replaced when its image was rebuilt.
ComposeUp(at, then) ==
  /\ step = at
  /\ Goto(then)
  /\ \/ Boot
     \/ vault # "down" /\ UNCHANGED <<vault, evidence, born>>
  /\ UNCHANGED <<strict, signed, files, deaths>>

\* wait_for_health returns when the vault is up, or gives up; the script goes
\* on either way.
Health(at, then) ==
  /\ step = at /\ ~ Waiting
  /\ Goto(then)
  /\ UNCHANGED <<strict, signed, files, service>>

\* POST one seed.  A vault that is not there fails curl, and so the script (see
\* Abort); a refused POST is skipped.
Seed ==
  /\ step = "seed" /\ count < Seeds /\ vault = "up"
  /\ count' = count + 1
  /\ \/ /\ ids' = Append(ids, count')
        /\ evidence' = [evidence EXCEPT ![count'] = "pending"]
        /\ born' = [born EXCEPT !.of[count'] = born.last]
     \/ UNCHANGED <<ids, evidence, born>>
  /\ UNCHANGED <<strict, signed, step, before, after, verdict, verifyExit, summary, exit,
                 vault, deaths>>

SeedDone ==
  /\ step = "seed" /\ count = Seeds
  /\ Goto("wait")
  /\ UNCHANGED <<strict, signed, files, service>>

\* Mutant: the wait has no bound.
Poll_Unbounded ==
  /\ step = "wait"
  /\ \A i \in DOMAIN ids : HasProof(ids[i])
  /\ Goto("before")
  /\ UNCHANGED <<strict, signed, files, service>>

\* Wait until every seed has a leaf; a GET may fail, and a round with a seed
\* missing is followed by another until the bound, after which the script goes
\* on all the same.
Poll ==
  /\ step = "wait"
  /\ \/ (count = MaxPolls \/ \A i \in DOMAIN ids : HasProof(ids[i])) /\ Goto("before")
     \/ count < MaxPolls /\ count' = count + 1 /\ UNCHANGED step
  /\ UNCHANGED <<strict, signed, files, service>>

\* The ids that are probed for a proof: the first few of seed_ids.txt.
Sampled == SubSeq(ids, 1, IF Len(ids) < Samples THEN Len(ids) ELSE Samples)

\* One GET of a probe, in order: checkpoint, verify, the proofs.  Any of them
\* may fail; then, and on an error status, the answer counts as empty.
Probe(state) ==
  [state EXCEPT
     !.root = IF count = 0 THEN HasCheckpoint ELSE @,
     !.verified = IF count = 1 THEN Verifies ELSE @,
     !.proofs = IF count > 1 THEN Append(@, HasProof(Sampled[count - 1])) ELSE @]

Failed(state) ==
  [state EXCEPT !.proofs = IF count > 1 THEN Append(@, FALSE) ELSE @]

ProbeBefore ==
  /\ step = "before" /\ count < 2 + Len(Sampled)
  /\ before' \in {Probe(before), Failed(before)}
  /\ count' = count + 1
  /\ UNCHANGED <<strict, signed, step, ids, after, verdict, verifyExit, summary, exit, service>>

ProbeAfter ==
  /\ step = "after" /\ count < 2 + Len(Sampled)
  /\ after' \in {Probe(after), Failed(after)}
  /\ count' = count + 1
  /\ UNCHANGED <<strict, signed, step, ids, before, verdict, verifyExit, summary, exit, service>>

ProbeDone(at, then) ==
  /\ step = at /\ count = 2 + Len(Sampled)
  /\ Goto(then)
  /\ UNCHANGED <<strict, signed, files, service>>

\* pg_dump ... || true and pg_restore ... || true, which hold no evidence.
Database(at, then) ==
  /\ step = at
  /\ Goto(then)
  /\ UNCHANGED <<strict, signed, files, service>>
-----------------------------------------------------------------------------
(* The verifier *)

\* Mutant: the proofs after the restore are not looked at.
verifyDrill_BeforeOnly(b, a) ==
  /\ b.root /\ a.root
  /\ b.verified /\ a.verified
  /\ b.proofs # <<>> /\ a.proofs # <<>>
  /\ \A i \in DOMAIN b.proofs : b.proofs[i]

\* The root after the restore is the expected one, which is not empty; both
\* checkpoints verified; there are proofs, and all of them were answered.
verifyDrill(b, a) ==
  /\ b.root /\ a.root
  /\ b.verified /\ a.verified
  /\ b.proofs # <<>> /\ a.proofs # <<>>
  /\ \A i \in DOMAIN b.proofs : b.proofs[i]
  /\ \A i \in DOMAIN a.proofs : a.proofs[i]

\* Mutant: a verifier that cannot be run counts as satisfied.
Verify_SkipsMissing ==
  /\ step = "verify"
  /\ \/ /\ verdict' = verifyDrill(before, after)
        /\ verifyExit' \in IF verdict' THEN {0, 1} ELSE {1}
     \/ verifyExit' = 0 /\ UNCHANGED verdict
  /\ Goto("summary")
  /\ UNCHANGED <<strict, signed, ids, before, after, summary, exit, service>>

\* go run verifier: the verdict is written and decides the exit status, unless
\* building it, reading its input or writing its output fails, or it is killed
\* after it wrote a pass.  (1 stands for any status but 0.)
Verify ==
  /\ step = "verify"
  /\ \/ /\ verdict' = verifyDrill(before, after)
        /\ verifyExit' \in IF verdict' THEN {0, 1} ELSE {1}
     \/ verifyExit' = 1 /\ UNCHANGED verdict
  /\ Goto("summary")
  /\ UNCHANGED <<strict, signed, ids, before, after, summary, exit, service>>

\* The summary says what the verifier wrote, if it wrote anything.  (A verdict
\* that was cut short cannot be read: Abort.)
Summarise ==
  /\ step = "summary"
  /\ summary' = (verdict = TRUE)
  /\ Goto("done")
  /\ UNCHANGED <<strict, signed, ids, before, after, verdict, verifyExit, exit, service>>

\* In strict mode the exit status is the verifier's.
Finish ==
  /\ step = "done"
  /\ exit' = IF strict THEN verifyExit ELSE 0
  /\ Goto("exited")
  /\ UNCHANGED <<strict, signed, ids, before, after, verdict, verifyExit, summary, service>>

Commands ==
  \/ NoDocker
  \/ ComposeDown("start", "up1") \/ ComposeUp("up1", "health1") \/ Health("health1", "seed")
  \/ Seed \/ SeedDone \/ Poll
  \/ ProbeBefore \/ ProbeDone("before", "dump") \/ Database("dump", "down2")
  \/ ComposeDown("down2", "up2") \/ ComposeUp("up2", "health2") \/ Health("health2", "restore")
  \/ Database("restore", "after")
  \/ ProbeAfter \/ ProbeDone("after", "verify")
  \/ Verify \/ Summarise \/ Finish

Script == Commands \/ Abort

\* A curl that finds nobody listening fails.
CurlFails == step = "seed" /\ count < Seeds /\ vault \in {"down", "starting"} /\ Abort

Next ==
  \/ Script
  \/ VaultReady \/ VaultHangs \/ VaultAnswers \/ OthersIngest \/ VaultDies
  \/ \E id \in {0} \cup Ids : VaultCommits(id)

Spec == Init /\ [][Next]_vars

\* The shell goes on to its next command, and docker, go and python return; a
\* curl that waits does when the vault answers it, for which it need not go on
\* answering (hence SF).  The vault owes nothing, and no command need fail but
\* the curl that cannot connect.
FairSpec == Spec /\ SF_vars(Commands \/ CurlFails)
-----------------------------------------------------------------------------
(* Properties *)

\* What a passing drill proves.  The root hash cannot tell a vault that lost
\* its evidence from one that kept it, so all rests on the sampled proofs: if
\* the summary says pass, some seed was accepted, and no sampled seed was lost
\* between the two probes.  A vault process that replaced the one that
\* accepted the seeds does not have them, so the drill can only pass when the
\* restart it is about never took place.
PassMeansKept ==
  summary = TRUE =>
    /\ Sampled # <<>>
    /\ \A i \in DOMAIN Sampled : born.of[Sampled[i]] = born.last

\* In strict mode the drill succeeds only if the verifier did and a summary that
\* says so was written, whatever failed on the way; and no mode leaves a passing
\* summary that the recorded states do not justify.
StrictExit ==
  /\ exit = 0 /\ strict => summary = TRUE /\ verifyExit = 0
  /\ summary = TRUE => verifyDrill(before, after)

\* The drill ends, though the vault never comes up, never commits a seed or
\* dies, unless a curl is kept waiting for ever by a vault that hangs.
DrillEnds == <>(step = "exited") \/ <>[]Waiting
=============================================================================

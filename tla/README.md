# TLA+ verification of the Merkle Evidence Vault

TLA+ models of the services in this repository, the TLC configurations that
check them on small instances, and TLAPS proofs of the central results for
every value of the constants. `PROJECT.json` lists components, runs, mutants,
the map from definitions to source lines, findings, hazards and theorems.

## 1. The system

| Part | State | Operations | Hard behaviour |
|---|---|---|---|
| evidence handlers, committer (`vault-api/handler/ingest.go`) | `storeMap`, `next`, `audits` under `mu` | Ingest, GetEvidence, GetProof, GetAudit, one committer goroutine | records are read after `mu` is released while the committer writes them; random commit order; progress |
| checkpoint handlers (same file) | `checkpointHistory`, `checkpointOrder` under `mu` | latest, history, verify latest, verify by size | three critical sections with a network call between the last two; cached outcome of a failed call or of half a reply |
| checkpoint-svc | the signer chosen at startup, atomic counters | `/sign`, `/metrics` | three sources of keys, overlapping signatures, a clock that is set back, restarts with another key or none; no answer |
| store (`vault-api/store/store.go`) | `evidence`, `audit` tables, or `memStore` | SaveEvidence, SaveAudit, GetEvidence, AssignNextPendingLeaf | several replicas' transactions, failing statements, crashes, a fallback counter |
| authentication (`vault-api/middleware/jwt.go`) | resolved policy, one JWKS per route | parsing of settings, startup checks, JWKS loading, request decision, hourly refresh | a dozen settings with defaults and legacy switches, provider outages during startup, key rotation |
| metrics (`vault-api/middleware/metrics.go`) | atomic counters in sync.Maps | update after each request, scrape | lock-free updates and reads |
| merkle-engine (`tree.rs`, `proof.rs`) | the leaf hashes | append, root, verify | power-of-two boundaries, ragged trees, domain separation |
| restore drill (`scripts/drill_restore.sh`) and its verifier (`verifier-cli`) | files of one drill | seed, probe, dump, tear down, restore, probe, verify | any command may fail; the vault dies, hangs, restarts empty and serves others; waiting loops |
| stubs: merklerpc, pipeline, config, rate limit, rpc.rs, bundle verification | none | none | none |
| around it: migrations, other scripts, CI, dashboard, fuzzing | files | scripts | none of their own |

How they interact: clients call vault-api over HTTP; a request passes `Metrics`,
on the protected routes `JWT`, then the handler. The handlers and the committer
share the globals of `ingest.go`. A checkpoint request calls checkpoint-svc. The
restore drill drives vault-api from outside, with tokens such as
`scripts/ci_jwks.go` makes for the end-to-end tests. The handlers have branches
for a store, but **`store.Init` has no caller**: the program as `main.go` wires
it keeps everything in memory. `EvidenceLog` and `Checkpoints` model that
program; `StoreBacked` models the branches, and what it shows is latent until a
store is installed. merkle-engine is a library and a health endpoint; vault-api
does not call it (replies carry a constant root), so `MerkleTree` stands alone.

What makes each part correct: leaf indices are dense, unique and final, and
whatever a client was told stays true; the audit trail lists exactly the
accepted evidence; checkpoints cover committed leaves only, are listed once and
stay as published; a store hands each record one leaf and keeps what was
acknowledged; checkpoint-svc signs with the key it was configured for; nobody
gets past the middleware without a verified token outside an explicitly insecure
profile; no metric is lost; a drill that passes has shown something; roots
commit to the payloads and correct proofs verify.

## 2. Modules

| Module | Models | Notes |
|---|---|---|
| `AppendOnlyLog` | the promise: evidence is submitted once and appended once | abstract specification |
| `EvidenceLog` | evidence handlers and committer, no store | refines `AppendOnlyLog` |
| `Checkpoints` | checkpoint handlers, signing service; EXTENDS `EvidenceLog` | `Spec` is the whole process |
| `StoreBacked` | the same handlers with `memStore` or `pgStore`, several replicas, crashes | one replica refines `AppendOnlyLog` |
| `CheckpointSvc` | checkpoint-svc: signer, `/sign`, counters, scrape, restarts | |
| `RestoreDrill` | `drill_restore.sh`, `verifyDrill`, the vault as they see it | |
| `AuthGate` | settings, policy, startup, JWKS loading, request decision | |
| `Metrics` | counters and scrape | |
| `MerkleTree` | tree, root, proofs | recursion as recursive functions |
| `EvidenceLogProofs`, `CheckpointsProofs`, `StoreBackedProofs`, `CheckpointSvcProofs`, `AuthGateProofs`, `RestoreDrillProofs`, `MetricsProofs`, `MerkleTreeProofs` | theorems | one module per specification |
| `MC...` | constants and symmetry for TLC | |

Operators named `X_Y` are mutants of `X`: plausible bugs in that code, used to
show that the property named in `PROJECT.json` notices them.

**EvidenceLog.** `storeMap` maps an id to `Absent` (no entry), `Nil` (pending)
or its leaf index. A client is a goroutine with a `pc`; a step is one critical
section of `mu`, or one access to a record outside it. `IngestRecord` is the
critical section of Ingest and `IngestReply` the 202. `Lookup` is the lookup
both reads share; `EvidenceReply`, `ProofCheck`, `ProofLeaf` and `ProofReply`
are the unlocked reads of `rec.LeafIndex`. These reads race with the committer;
a pointer read returns nil or the pointer, so each is modelled as returning
the value at that moment. `CommitLeaf(id)` is one tick for any pending record.
`acked`, `shown`, `proofs` and `auditView` record what clients were told.
UUIDs are the finite set `Ids`; a fresh one is one that is not stored.

**Checkpoints.** `BuildStart`, `BuildLookup`, `BuildSign` and `BuildPublish`
are the four stretches of `buildLatestCheckpoint`; the reply actions are the
rest of each handler. `BuildSign` takes the signature and the key reference over
one by one (`Offered`): each is the service's, or the default where the call
failed or its reply has none. The service may have been restarted with another
signer, or without one, between any two calls, so every call may meet any key.
`Settled(n)` says that no builder is left that found size `n` unpublished.
The run uses `CpSpec`, which leaves out the
evidence steps no checkpoint request can observe (reads and rejections); the
theorems are about `Spec`, with all of them.

**StoreBacked.** `deploy`, chosen once, is what `store.Init` picks in each
replica: `memStore` for one process, or a database shared by one or more. A
replica serves any number of Ingests at once: `ipc` says, per replica and id,
where that request is. `SaveEvidence` and `SaveAudit` follow the unlock and
their errors are dropped, as in the code; `dropped` remembers which.
`GetEvidence` reads the store, never `storeMap`. For `pg`, `TxPick`, `TxMax` and
`TxCommit` are the statements of `AssignNextPendingLeaf` at READ COMMITTED, each
of which may fail; a commit may also succeed and its answer be lost. `Publish`
and `Local` are the two endings of a tick. `Crash` restarts a replica with empty
globals over the database as it is.

**CheckpointSvc.** `settings` are the variables main reads, reduced to usable,
unusable and missing keys; `ChooseSigner` is its chain of three sources. A
request is counted, refused or signed, stamped (`RecordSignSuccess` reads the
clock), recorded and answered, with other goroutines between any two of these
steps. A scrape reads two counters at two moments. `Restart` empties everything
and may change the settings. Every reading of the clock is any time up to
`MaxTime`, since a wall clock can be set. `answered` and `burst` record what the
counters are compared with: `burst` has the times stamped by the last signature
and by those that overlapped with it. `Sign` has no failing branch because no signer
that main can build fails.

**RestoreDrill.** `step` is the script's position, one action per command or
HTTP request. Commands under `|| true` and the health checks go on whatever
happens (`ComposeDown`, `Database`, `Health`); any other may end the script
(`Abort`, `set -e`), those after the verifier included. A GET that fails counts
as an empty answer (`Failed`): urlopen has a timeout. curl has none, so while
the vault hangs (`VaultHangs`) a health check or a POST does not return
(`Waiting`). A verifier that is killed may leave a passing output and a status
that is not 0. The
vault keeps evidence in memory only, so a new process has none; `born` says
which process accepted each seed. `evidence[0]` is what other clients ingest.
The checkpoint's root is a constant of the vault, so a state records only
whether there was one.

**AuthGate.** `env` holds the raw settings, chosen once; `firstNonEmptyEnv`,
`parseCSVEnvDefault`, `parseIntEnvDefault` and `parseBoolEnvDefault` read them
as the code does, negative and garbled numbers and blank lists included.
`Validate`, `SkipJwks`, `FetchJwks` and `Listen` are main's startup in order
(`r.With(middleware.JWT)` builds one middleware per route before the server
listens). `Request` decides one request in one step: the middleware reads its
keys once. keyfunc's refresh and golang-jwt's parser (which applies no leeway to
exp, iat and nbf) are external, modelled from how `jwt.go` uses them. A token
has an `iat` or not, and `ttl` is exp minus iat, negative if exp is the earlier;
a limit on the lifetime (`WithinTTL`) refuses a token without iat or with the
two in the wrong order. `makeToken` and `CiSettings` are what
`scripts/ci_jwks.go` hands to the end-to-end tests.

**Metrics.** One step per atomic operation, in program order, scrapes counted
as requests too, as the middleware does. Two bucket bounds stand for nine, two
operations for three.

**MerkleTree.** A byte string is a sequence of blocks and SHA-256 the identity
on them, so digests are equal exactly when the inputs are. The engine has no
function that makes a path; the one in `tests/property/merkle_property_test.go`,
which says it mirrors proof.rs, is used. The code's recursion on (lo, hi) is a
recursive function of the number of leaves that gives, for each `lo`, the value
for the range; its loops are functions of the number of rounds (`pow2`,
`Climbed`). The reference tree of `RootIsRFC6962` does not split at all: it
builds perfect trees by doubling (`Perfect`) and joins those of the binary
expansion of the size from the right (`Peaks`).

## 3. Runs

| Run | Instance | Shows |
|---|---|---|
| `EvidenceLog` | 2 records, 2 clients, fairness of the committer | every overlap of two requests and the committer: types, `HeldRecords` (no nil dereference), leaves dense and unique, audit trail exact, disclosed indices and proofs final, listings prefixes of the trail, append-only, refinement of `AppendOnlyLog`; every accepted record committed |
| `Checkpoints` | 2 records, 2 builders, a key or none, fairness of the handlers | history well formed, covered, growing, with any overlap of builders and any mixture of a reply and the defaults; a settled checkpoint is final; every request answered |
| `Checkpoints_rewrite` | the same | finding, see below |
| `StoreBacked` | memStore, a database with 1 and with 2 replicas, 2 records, 2 faults (statement, lost answer or crash), fairness of the ticks | row locks, write-once leaves, a 202 backed by the store, the store and `storeMap` agreeing outside one window, refinement of `AppendOnlyLog` with one replica, every saved record committed and, with memStore, reported with the store's leaf in the end |
| `StoreBacked_twice` | 2 replicas, no crash | finding |
| `CheckpointSvc` | every kind of setting for each key source, 2 clients, a clock with 3 times in any order | no source is silently replaced; when nothing is being recorded the gauge shows the last signature or one that overlapped with it; a scrape misses nothing that was answered before it |
| `RestoreDrill` | 3 seeds, 2 samples, 2 polls, 1 death of the vault, any hangs, fairness of the script | what a pass means, strict exit status, termination unless a curl is kept waiting |
| `AuthGate` | `MCEnvironments` (about 2000 environments), good tokens, forged ones and one of each defect (`Defective`), 2 keys, 2 routes, fairness | nobody unverified gets in outside an explicitly insecure, non-production profile; fail closed; the tokens of the end-to-end tests get the answers those tests expect; startup ends |
| `AuthGate_recover` | one strict process | finding |
| `Metrics` | 2 goroutines, 3 requests | nothing lost, +Inf covers the buckets |
| `MerkleTree` | a plain and a node-shaped payload, up to 8 leaves | RFC 6962 shape, roots bind the payloads, proofs sound, and complete in perfect trees |
| `MerkleTree_ragged` | the same | finding |

Why these bounds suffice: the races are between two actors and the committer,
so two clients, builders or replicas reach each of them; the indices matter
only up to order, for which two or three records suffice; eight leaves contain
every shape next to a power of two up to 8. Environments that have every JWT
setting differ for the code only in policy, switches and profile, so these vary
in `MCEnvironments` while `DEPLOYMENT` stays empty. Number settings take
an unset, a negative, a zero and a positive value; the limit on the lifetime is
also the tokens' own hour and a second less. Two faults meet any two
points of a tick and of an Ingest, also a restart after a failed statement. A
drill samples fewer seeds than it posts, so seeds outside the sample exist.
Deadlock is checked except where a run ends (`MaxLeaves`, `MaxRequests`, the
end of the drill). `MaxFaults`, `MaxRequests`, `MaxTime`, `MaxLeaves`,
`MaxPolls` and `MaxDeaths` are the named bounds (`Samples`, `MaxPolls` and
`DefaultAttempts` are constants of the code, 3, 60 and 12, taken smaller);
rotations end when `Keys` is used up.

Fairness. `EvFairSpec` and `CpFairSpec`: the Go scheduler runs every runnable
goroutine, the committer's loop never ends and a handler that was entered
returns (its network call has a 3 second timeout), so weak fairness of the
committer and of each builder's own steps; clients need never send anything.
`EventuallyCommitted` is about finitely many records: the committer takes any
pending one, so with a stream of new ones that never ends a record could be
passed over for ever, by a random map order that never picks it; this is not
examined. `StoreBacked!FairSpec`: the tick only. `AuthGate!FairSpec`: main goes
on until it serves or exits, and a refresh ticker never stops (`JwksRecovers`
fails in spite of it). `RestoreDrill!FairSpec`: the shell goes on to its next
command, and docker, go and python return; curl returns when the vault answers
or dies, although the vault may hang again before the script notices, hence
strong fairness of `Commands \/ CurlFails`. It is not fairness of `Abort`: no
command need fail but a curl that cannot connect. The vault owes nothing, and
`DrillEnds` excuses only a curl that is kept waiting for ever (`<>[]Waiting`).
`CheckpointSvc` has no liveness property: its server sets no deadlines, so
reading a body may take for ever. The provider owes nothing; properties that
need it up for good say so in their premise.

## 4. Findings

Each is a run with expected outcome *violation*; `PROJECT.json` quotes the line
that the code disagrees with.

1. `TreeHeadsImmutable`: of two builders of one size the later replaces the
   published checkpoint.
2. `StoreLeavesExact` with two replicas: both read the same maximum and give
   one leaf index to two records (latent: no store is installed).
3. `JwksRecovers`: a route that gave up loading keys never tries again.
4. `ProofComplete`: `InclusionProof::verify` rejects the correct proof of the
   last of three leaves.

Properties are stated so as to hold of the following, which a reader of the
code should know:

- overlapping checkpoint requests can list a smaller tree before a larger one,
  although ingest.go:123 says latest first: sizes are listed in the order of
  publication (`BuildPublish`);
- a failed signing call publishes, and caches for good, a placeholder for a
  signature, and a reply with only one of `signature` and `key_ref` a checkpoint
  that mixes it with a default (`BuildSign`, `SettledFinal`);
- with a store, a tick between the two halves of an Ingest numbers a record
  locally and the store renumbers it later (`Local`, then `Publish`), which is
  why `SavedCommitted` speaks of the index reported in the end;
- with a store, a record whose `SaveEvidence` failed is acknowledged and numbered
  by the fallback counter, and a restart loses it (`AckedKept` excuses it by
  `dropped`);
- with two replicas, GetEvidence answers on both while GetProof knows only the
  records its own process accepted (`ReadsAgree` speaks of one process);
- checkpoint-svc's failure counter can never move, so the alert
  CheckpointSigningFailures (observability/alerts/vault.yaml:29) cannot fire;
  refused requests (400, 405) count as requests only. Two overlapping signatures,
  or a clock that is set back, can step the success gauge back until the next
  signature that overlaps with none, and a scrape can show a success whose
  request it has not counted;
- without a signer `/metrics` is not served either;
- a drill over the vault as wired can pass only if the restart it is about did
  not take place, or left the old process running: a new process has no
  evidence (`PassMeansKept`). A script that aborts before its last lines leaves no
  summary, and one that aborts in them can leave a passing one and fail;
- the drill hangs when the vault accepts a health check or a POST and never
  answers it (scripts/drill_restore.sh:26 and 41 set no `--max-time`), whatever
  the bounds of its loops (`DrillEnds` excuses it by `<>[]Waiting`);
- JWT_MAX_TOKEN_TTL_SECONDS, if positive and below 3600, refuses every token of
  scripts/ci_jwks.go (`CiTooLong`), which leaves it as it finds it; any limit
  refuses tokens without iat;
- `ENV=prod` with `AUTH_POLICY=dev` and every JWT setting starts, as
  jwks_strict (`resolveAuthPolicy`), although README.md:45 says it is rejected;
- a scrape during an update may report buckets that are not cumulative, and
  divide a duration sum by a total that misses requests of that sum; only
  `+Inf` is sure to cover the rest.

## 5. Proofs

Checked by TLAPS (SMT, Zenon, LS4), for any sets of ids, clients, builders,
replicas, keys, tokens, settings, goroutines, bucket bounds and payloads, trees
of any size, and any number of requests, faults and restarts. Every invariant
and action property the runs check, of every specification, and both
refinements, are theorems; the runs show them on small instances, and TLC
checked the inductive invariants before they were proved.

The assumptions on constants are `SentinelAssumption` (the markers for "no
entry" and "nil" are distinct and no ids or numbers), `KeyAssumption` (likewise
for keys), `StoreAssumption` (likewise, and memStore belongs to one process),
`SvcAssumption`, `AuthAssumption` (settings and tokens have the fields the code
reads; a forged signature is by no key of the provider), `DrillAssumption`,
`MetricsAssumption` (the bounds ascend, as `durationBucketsSeconds` does;
durations are machine integers and goroutines are finitely many) and
`MerkleAssumption` (a payload is a sequence; nothing is said of its blocks).
That SHA-256 has no collisions is in the model: a digest is the hashed string.

`EvidenceLogProofs`
- `EvTypeCorrect` and `HeldTheorem`: `EvTypeOK` is not inductive alone:
  `ProofLeaf` stores what it dereferences, which is a number only because the
  goroutine holds a committed record. `HeldRecords` says so, and holds because
  leaves are never taken back (lemma `RecordsMonotone`). Lemma `EvInvariant` is
  the two together.
- `LeavesTheorem`: `[]LeavesExact`. The three parts are inductive together:
  density and uniqueness survive `CommitLeaf` because no leaf is at `next` yet.
- `AppendOnlyTheorem`: the action property, from the type invariant.
- `DisclosedTheorem`: `[]DisclosedFinal`: `HeldRecords`
  makes the two unlocked reads of GetProof agree, `RecordsMonotone` keeps what
  was shown.
- `AuditTheorem` and `AuditViewsTheorem`: an entry is appended in the critical
  section that stores a fresh record, so no record is listed twice; a listing
  stays a prefix because the trail is only appended to.
- `RefinementTheorem`: `EvSpec => ImplementsLog`. The log is `storeMap` read in
  leaf order; uniqueness and density make `LeafAt` well defined (lemmas
  `LeafAtIs`, `LeafAtKept`), so a commit is an append and everything else a
  submission or a stutter.

`CheckpointsProofs`
- `CompositionTheorem`: `Spec => EvSpec`, so the theorems above hold of the
  whole process.
- `CpTypeCorrect` (signature and key reference are each the service's or the
  default), `OrderTheorem` (the listing names each published size once,
  though lookup and publication are separate: publication tests again) and
  `CoveredTheorem` (with `LatestSizeIsNext`: by density the largest leaf plus
  one is `next`, which never falls, so a size read early is still covered when
  it is published).
- `HistoryGrowsTheorem` and `ListingTheorem`: lemma `HistoryMonotone` says that
  publication only adds, so a builder that published, then let go of `mu`, finds
  its size in the listing it takes later.
- `SettledTheorem`: a builder reaches the signing call only with a size that is
  not published, so once a size is settled it stays so, and nothing replaces its
  checkpoint.

`StoreBackedProofs`, all from the inductive invariant `StInv`
- `StTypeCorrect` and `LockTheorem`. Neither is inductive alone. `SavingFresh`
  says that a request between the unlock and its saves has a record no other
  replica has, not yet in the store, so `SaveEvidence` overwrites nothing.
  `LeavesUpTo(n)` says that the leaves are 0..n-1 and that a transaction in
  progress was given at most n, so max(leaf_index) exists and is a number (lemma
  `NextLeafIs`). It deliberately allows one index twice, which happens with two
  replicas (finding 2).
- `StoreAppendOnlyTheorem`: by `LockTheorem` a commit
  only reaches a pending row (lemma `EvStep`).
- `AckedTheorem`, with `SavedFirst`: a goroutine that saves its audit entry has
  a row, or an error that it ignored.
- `StoreRefinementTheorem`: `Spec => StoreImplementsLog`. What fails with two
  replicas is exactly `OneWriter`: with one replica, the leaf a transaction read
  is still above every other when it commits, so a commit, its answer lost or
  not, is an append of the next leaf (lemmas `SingleEffect`, `RecordAt`,
  `AppendIs`).
- `ReadsTheorem`, with `GlobalsCover`: without faults every row of the one
  process is in its globals, and the committer publishes the leaf the store has.

`CheckpointSvcProofs`
- `NoFallbackTheorem`: lemma `ChosenIsConfigured` says what `ChooseSigner` returns
  for any settings; a restart forgets the last answer with the old settings.
- `GaugeTheorem` and `ScrapeTheorem`, from `CounterInv`: the requests in flight
  plus the answered ones are those counted (cardinality of the busy clients), and
  every stamp still to be recorded, and the one recorded last, is in `burst`
  (`StampsInBurst`): a signature that begins while no other is being recorded
  starts a new burst. Nothing is assumed of the order of the clock's readings.

`AuthGateProofs`, from the inductive invariant `GateInv`: a process past the
startup checks passed them, a route holds keys only where the policy wants them,
and the last answer was computed from the keys that the route held then, although
a refresh may have replaced them since.
- `AccessTheorem`: lemma `DevPolicy` says for which environments the policy lets
  requests pass unverified, `KeyedAccess` and `KeylessAccess` what the decision
  is with and without keys. The run enumerates 2000 environments; the theorem
  covers every one.
- `FailClosedTheorem` and `CiTheorem` (lemma `CiAccess`: a token of ci_jwks.go is
  refused exactly if the lifetime is limited to less than its hour, or its roles
  do not suffice).

`RestoreDrillProofs`
- `StrictExitTheorem`, from `ExitInv`: the verdict, the summary and the exit
  status are written in this order. A passing verdict is what `verifyDrill` says
  of the two states, a verifier that succeeded wrote one, and only `Finish`, which
  comes after the summary, can exit 0; a failing command anywhere exits 1.
- `PassTheorem`, from `KeptInv`: the vault holds only what its own process
  accepted (`OfLast`), so a proof answered after the restore shows that the
  process is the one that accepted the seed (`Proved`), and it stays so because
  the script starts a new process only before that probe, and a vault that dies
  stays down; a passing verdict has seen a proof for each sampled seed (`Judged`).

`MetricsProofs`
- `InfTheorem`: the count of an operation covers each bucket together with the
  additions still due to it (`Room`), because a request is counted before it
  reaches any bucket; buckets never fall, so a scrape has read no more than there
  is (`ReadSoFar`), and it reads the count last.
- `QuietTheorem`, from `Ledger`: each counter, plus what the goroutines in flight
  still owe it, is what was served (`Balance`). A request is owed to every counter
  when it begins; each update pays one (`BalanceBegun`, `BalancePaid`); when
  nobody is in flight nothing is owed. The sums are folds over finite sets. What
  such a fold computes is shown from the definition the community modules give it,
  by the least counterexample (lemmas `LeastNat`, `SubsetInduction`, `SumIs`).

`MerkleTreeProofs`, by induction on the size of a range or the height of a tree
(the least counterexample, lemma `Induction`, with sets of naturals for
predicates). A recursive function is a CHOOSE, so for each of the six there is a
lemma that a table with its rows exists and that the function satisfies the
equation it is defined by (`Pow2Is`, `SubtreeIs`, `PathIs`, `ClimbedIs`,
`PerfectIs`, `PeaksIs`); nothing else looks into the definitions.
- `LeavesTheorem`: the tree is a list of leaf hashes within the bound.
- `RootTheorem`: by `DomainSeparation` the prefix tells a leaf from a node, even
  if the payload is the concatenation of two digests, and a node shows both its
  children; so two ranges with one hash have the same length and leaves
  (`SubtreeBinds`). It needs of the split only that both parts are smaller and
  not empty (`Splits`). Dropping the prefix makes it false (mutant
  `node_hash_LeafPrefix`).
- `ProofTheorem`: a round that ends in the hash of a node began with the hash of
  one child, whichever side the index took (`ClimbBack`), so the climb started
  from the leaf of the path (`ClimbSound`). It holds in ragged trees too: what
  finding 4 breaks is completeness.
- `PerfectTheorem`: in a tree of 2^e leaves the low bits of the index are the
  sides (`PerfectClimb`). For a foreign index, each round that takes the wrong
  side shows that both halves hash alike, hence hold the same leaves, so the
  payload is also at the place the index names (`PerfectSound`, `IndexBits`).
- `RFC6962Theorem`: between two powers the loop returns the lower one
  (`LargestIs`), so splitting builds the reference tree (`PerfectAre`, `PeaksAre`).

Model-checked only: liveness under fairness, which this prover does not handle
(`RequestsAnswered`, `EventuallyCommitted`, `SavedCommitted`, `StartupSettles`,
`DrillEnds`).

## 6. Not modelled

merkle-engine's `sign_sth` (a wrapper of Ed25519 without callers), its server
and RPC placeholder; the stubs of vault-api (rate limiting, configuration, RPC
client, pipeline, bundle format) and of verifier-cli (bundle verification);
the migrations, whose tables differ from the ones pgStore creates; the store's
`ListAudits`, which has no caller; checkpoint-svc's ticker, which only logs; the
other scripts, deployment and the dashboard. The text of HTTP messages, JSON,
base64 and the metrics exposition is left out. None of these keeps state that
another part depends on.

## 7. Plan

1. Done: `EvidenceLog`, `AppendOnlyLog`, `Checkpoints` and their proofs;
   `StoreBacked` with crashes, reads and its refinement; `AuthGate` from the raw
   settings on; `CheckpointSvc`, `RestoreDrill`, `Metrics`, `MerkleTree`.
2. Done: the proofs about `StoreBacked`, `CheckpointSvc`, `AuthGate`,
   `RestoreDrill` and `Metrics`, refinements included.
3. Done: `MerkleTree` with recursive functions and the proofs of its four
   invariants. Open: consistency proofs and signed tree heads, when the engine
   has code for them.

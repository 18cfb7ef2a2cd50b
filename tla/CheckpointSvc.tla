---------------------------- MODULE CheckpointSvc ----------------------------
(***************************************************************************)
(* The signing service (services/checkpoint-svc): the signer main chooses  *)
(* from its settings, the goroutines that serve /sign, and a scrape of     *)
(* /metrics, whose atomic counters are read one after the other.  The      *)
(* process may be restarted at any moment, with other settings.            *)
(*                                                                         *)
(* Sign fails for none of the signers main can build (LocalSigner never    *)
(* does, and NewKMSSigner always sets a backend), so the branch that       *)
(* counts failures cannot be taken and the counter stays 0; both are left  *)
(* out.  The server sets no deadline: reading a body may take for ever.    *)
(* time.Now is a wall clock: between two reads it may be set to any time.  *)
(***************************************************************************)
EXTENDS Naturals

CONSTANTS Settings,    \* the settings a process may be started with
          Keys,        \* usable Ed25519 private keys
          Missing,     \* a variable that is empty, a file that cannot be read
          Bad,         \* a value that is not base64 or has the wrong size
          Nil,         \* no signer, no answer yet
          Clients,     \* goroutines serving /sign
          MaxRequests, \* bound on the requests to one process
          MaxTime      \* bound on the times the clock can show, in seconds

\* KMS_PROVIDER, whether KMS_KEY_ID is set, KMS_PRIVATE_KEY_B64,
\* CHECKPOINT_PRIVATE_KEY_B64 and the file named by -key.
Setting ==
  [provider : {"", "local-hsm-emulator", "other"}, keyId : BOOLEAN,
   kms : Keys \cup {Missing, Bad}, env : Keys \cup {Missing, Bad},
   file : Keys \cup {Missing, Bad}]

ASSUME SvcAssumption ==
  /\ Settings \subseteq Setting
  /\ {Missing, Bad, Nil} \cap Keys = {}
  /\ MaxRequests \in Nat /\ MaxTime \in Nat

VARIABLES settings,    \* of the running process
          phase,       \* "boot", "disabled", "listening" or "deaf"
          signer,      \* the key and key_ref in use, or Nil
          pc,          \* where each client's goroutine is
          stamp,       \* the time each goroutine read for RecordSignSuccess
          requests,    \* signRequestsTotal
          lastSuccess, \* lastSignSuccessUnix
          spc,         \* where the scrape is
          scrape,      \* what it has read, and what was true when it began
          answer,      \* the last signature handed out, or Nil
          answered,    \* requests this process has answered
          burst        \* times stamped by the last signature and by those that
                       \* overlapped with it, directly or through others

process == <<settings, phase, signer>>
handlers == <<pc, stamp>>
counters == <<requests, lastSuccess>>
scraper == <<spc, scrape>>
ghosts == <<answer, answered, burst>>
vars == <<settings, phase, signer, pc, stamp, requests, lastSuccess, spc, scrape,
          answer, answered, burst>>
-----------------------------------------------------------------------------
(* The choice of the signer *)

NewLocalSigner(value, ref) == IF value \in Keys THEN [key |-> value, ref |-> ref] ELSE Nil

NewKMSSigner(s) ==
  IF s.provider = "local-hsm-emulator" THEN NewLocalSigner(s.kms, "kms") ELSE Nil

KMSConfigured(s) == s.provider # "" /\ s.keyId

\* Mutant: a source that does not work is passed over for the next one.
ChooseSigner_FallsThrough(s) ==
  IF KMSConfigured(s) /\ NewKMSSigner(s) # Nil THEN NewKMSSigner(s)
  ELSE IF s.env \in Keys THEN NewLocalSigner(s.env, "env")
  ELSE NewLocalSigner(s.file, "file")

\* The KMS if it is configured, else the variable if it is set, else the file.
ChooseSigner(s) ==
  IF KMSConfigured(s) THEN NewKMSSigner(s)
  ELSE IF s.env # Missing THEN NewLocalSigner(s.env, "env")
  ELSE NewLocalSigner(s.file, "file")

NoScrape == [requests |-> 0, last |-> 0, answered0 |-> 0, signed0 |-> FALSE]

Init ==
  /\ settings \in Settings
  /\ phase = "boot"
  /\ signer = Nil
  /\ pc = [c \in Clients |-> "idle"]
  /\ stamp = [c \in Clients |-> 0]
  /\ requests = 0 /\ lastSuccess = 0
  /\ spc = "idle" /\ scrape = NoScrape
  /\ answer = Nil /\ answered = 0 /\ burst = {}

\* main up to its loop: without a signer nothing listens, not even /metrics.
Choose ==
  /\ phase = "boot"
  /\ signer' = ChooseSigner(settings)
  /\ phase' = IF signer' = Nil THEN "disabled" ELSE "listening"
  /\ UNCHANGED <<settings, handlers, counters, scraper, ghosts>>

\* ListenAndServe returns an error; the process goes on without its endpoints.
ListenFails ==
  /\ phase = "listening" /\ requests = 0 /\ spc = "idle"
  /\ phase' = "deaf"
  /\ UNCHANGED <<settings, signer, handlers, counters, scraper, ghosts>>
-----------------------------------------------------------------------------
(* /sign *)

Goto(c, where) == pc' = [pc EXCEPT ![c] = where]

\* Mutant: only a POST is counted.
Begin_CountsPosts(c, method) ==
  /\ phase = "listening" /\ pc[c] = "idle" /\ requests < MaxRequests
  /\ requests' = IF method = "POST" THEN requests + 1 ELSE requests
  /\ Goto(c, method)
  /\ UNCHANGED <<process, stamp, lastSuccess, scraper, ghosts>>

\* Every request is counted first, whatever its method.
Begin(c, method) ==
  /\ phase = "listening" /\ pc[c] = "idle" /\ requests < MaxRequests
  /\ requests' = requests + 1
  /\ Goto(c, method)
  /\ UNCHANGED <<process, stamp, lastSuccess, scraper, ghosts>>

\* 405 for a method that is not POST, 400 for a body that cannot be read.
Refuse(c) ==
  /\ pc[c] \in {"other", "POST"}
  /\ answered' = answered + 1
  /\ Goto(c, "idle")
  /\ UNCHANGED <<process, stamp, counters, scraper, answer, burst>>

\* The body is read and signed, and RecordSignSuccess reads the clock.
Sign(c) ==
  /\ pc[c] = "POST"
  /\ Goto(c, "record")
  /\ \E t \in 1..MaxTime :
       /\ stamp' = [stamp EXCEPT ![c] = t]
       /\ burst' = IF \E d \in Clients : pc[d] = "record" THEN burst \cup {t} ELSE {t}
  /\ UNCHANGED <<process, counters, scraper, answer, answered>>

\* Mutant: the gauge only ever moves forward.
Record_KeepsMax(c) ==
  /\ pc[c] = "record"
  /\ lastSuccess' = IF lastSuccess < stamp[c] THEN stamp[c] ELSE lastSuccess
  /\ Goto(c, "reply")
  /\ UNCHANGED <<process, stamp, requests, scraper, ghosts>>

\* ... and stores what it read.
Record(c) ==
  /\ pc[c] = "record"
  /\ lastSuccess' = stamp[c]
  /\ Goto(c, "reply")
  /\ UNCHANGED <<process, stamp, requests, scraper, ghosts>>

\* The signature and its key_ref go out; the goroutine's variables go with it.
Reply(c) ==
  /\ pc[c] = "reply"
  /\ answer' = signer
  /\ answered' = answered + 1
  /\ stamp' = [stamp EXCEPT ![c] = 0]
  /\ Goto(c, "idle")
  /\ UNCHANGED <<process, counters, scraper, burst>>
-----------------------------------------------------------------------------
(* /metrics, and what happens to the process *)

\* The scrape loads the number of requests, then the time of the last success.
ScrapeRequests ==
  /\ phase = "listening" /\ spc = "idle"
  /\ scrape' = [requests |-> requests, last |-> 0, answered0 |-> answered,
               signed0 |-> answer # Nil]
  /\ spc' = "last"
  /\ UNCHANGED <<process, handlers, counters, ghosts>>

ScrapeLast ==
  /\ spc = "last"
  /\ scrape' = [scrape EXCEPT !.last = lastSuccess]
  /\ spc' = "shown"
  /\ UNCHANGED <<process, handlers, counters, ghosts>>

ScrapeDone ==
  /\ spc = "shown"
  /\ scrape' = NoScrape /\ spc' = "idle"
  /\ UNCHANGED <<process, handlers, counters, ghosts>>

\* The process dies with every request it was serving and is started again.
Restart(s) ==
  /\ settings' = s
  /\ phase' = "boot"
  /\ signer' = Nil
  /\ pc' = [c \in Clients |-> "idle"]
  /\ stamp' = [c \in Clients |-> 0]
  /\ requests' = 0 /\ lastSuccess' = 0
  /\ spc' = "idle" /\ scrape' = NoScrape
  /\ answer' = Nil /\ answered' = 0 /\ burst' = {}

Next ==
  \/ Choose
  \/ ListenFails
  \/ \E c \in Clients :
       \/ \E method \in {"POST", "other"} : Begin(c, method)
       \/ Refuse(c) \/ Sign(c) \/ Record(c) \/ Reply(c)
  \/ ScrapeRequests \/ ScrapeLast \/ ScrapeDone
  \/ \E s \in Settings : Restart(s)

Spec == Init /\ [][Next]_vars
-----------------------------------------------------------------------------
(* Properties *)

\* A checkpoint is signed with the key its key_ref names, and a source that is
\* configured is never silently replaced: with a KMS that does not work nothing
\* is signed at all, and the file is used only when the variable is not set.
NoFallback ==
  answer # Nil =>
    /\ answer.key = [kms |-> settings.kms, env |-> settings.env,
                     file |-> settings.file][answer.ref]
    /\ answer.ref # "kms" => settings.provider = "" \/ ~ settings.keyId
    /\ answer.ref = "file" => settings.env = Missing

\* The freshness the alerts compute: whenever no signature is being recorded,
\* the gauge shows the time of the last one, or of one that overlapped with it.
\* Overlapping requests may leave an older time, and the clock may be set back,
\* but the next signature that overlaps with none puts the gauge right.
GaugeLatest ==
  (\A c \in Clients : pc[c] # "record") =>
    IF burst = {} THEN lastSuccess = 0 ELSE lastSuccess \in burst

\* A scrape counts every request that was answered before it began, although
\* it takes no lock; and once a signature was handed out it reports a success.
ScrapeCovers ==
  spc = "shown" =>
    /\ scrape.requests >= scrape.answered0
    /\ scrape.signed0 => scrape.last # 0
=============================================================================

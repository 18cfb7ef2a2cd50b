------------------------- MODULE CheckpointSvcProofs -------------------------
(***************************************************************************)
(* Proofs about CheckpointSvc, for any settings, keys and clients, any     *)
(* number of requests, scrapes and restarts, and any clock.                *)
(***************************************************************************)
EXTENDS CheckpointSvc, FiniteSetTheorems, TLAPS

-----------------------------------------------------------------------------
(* The signer *)

\* The signer in use, and the one behind the last answer, are what main chose
\* from the settings of the process that is running.
SignerChosen ==
  /\ signer # Nil => signer = ChooseSigner(settings)
  /\ answer # Nil => answer = ChooseSigner(settings)

\* What main chooses names its source, and is that source's key; a source
\* further down is used only where those above it are not configured.
LEMMA ChosenIsConfigured ==
  ASSUME NEW s \in Settings, ChooseSigner(s) # Nil
  PROVE  LET a == ChooseSigner(s)
         IN  /\ a.key = [kms |-> s.kms, env |-> s.env, file |-> s.file][a.ref]
             /\ a.ref # "kms" => s.provider = "" \/ ~ s.keyId
             /\ a.ref = "file" => s.env = Missing
<1>1. CASE KMSConfigured(s)
  <2>1. ChooseSigner(s) = [key |-> s.kms, ref |-> "kms"]
    BY <1>1 DEF ChooseSigner, NewKMSSigner, NewLocalSigner
  <2>. QED
    BY <2>1
<1>2. CASE ~ KMSConfigured(s) /\ s.env # Missing
  <2>1. ChooseSigner(s) = [key |-> s.env, ref |-> "env"]
    BY <1>2 DEF ChooseSigner, NewLocalSigner
  <2>2. s.provider = "" \/ ~ s.keyId
    BY <1>2, Zenon DEF KMSConfigured
  <2>. QED
    <3> DEFINE a == [key |-> s.env, ref |-> "env"]
    <3>1. /\ a.key = [kms |-> s.kms, env |-> s.env, file |-> s.file][a.ref]
          /\ a.ref # "kms" /\ a.ref # "file"
      OBVIOUS
    <3>. QED
      BY <1>2, <2>1, <2>2, <3>1, Zenon
<1>3. CASE ~ KMSConfigured(s) /\ s.env = Missing
  <2>1. ChooseSigner(s) = [key |-> s.file, ref |-> "file"]
    BY <1>3 DEF ChooseSigner, NewLocalSigner
  <2>2. s.provider = "" \/ ~ s.keyId
    BY <1>3, Zenon DEF KMSConfigured
  <2>. QED
    <3> DEFINE a == [key |-> s.file, ref |-> "file"]
    <3>1. /\ a.key = [kms |-> s.kms, env |-> s.env, file |-> s.file][a.ref]
          /\ a.ref # "kms"
      OBVIOUS
    <3>. QED
      BY <1>3, <2>1, <2>2, <3>1, Zenon
<1>. QED
  BY <1>1, <1>2, <1>3

\* Whatever settings the process is started with, and restarted with, a
\* signature that was handed out comes from the source that is configured.
THEOREM NoFallbackTheorem == Spec => []NoFallback
<1>1. Init => settings \in Settings /\ SignerChosen
  BY DEF Init, SignerChosen
<1>2. ASSUME settings \in Settings, SignerChosen, [Next]_vars
      PROVE  (settings \in Settings /\ SignerChosen)'
  <2> USE <1>2 DEF SignerChosen
  <2>1. CASE Choose
    BY <2>1 DEF Choose, ghosts
  <2>2. ASSUME NEW c \in Clients, Reply(c) PROVE (settings \in Settings /\ SignerChosen)'
    BY <2>2 DEF Reply, process
  <2>3. ASSUME NEW s \in Settings, Restart(s) PROVE (settings \in Settings /\ SignerChosen)'
    BY <2>3 DEF Restart
  <2>4. CASE UNCHANGED <<settings, signer, answer>>
    BY <2>4
  <2>. QED
    BY <2>1, <2>2, <2>3, <2>4
       DEF Next, vars, ListenFails, Begin, Refuse, Sign, Record, ScrapeRequests, ScrapeLast,
           ScrapeDone, process, ghosts
<1>3. settings \in Settings /\ SignerChosen => NoFallback
  BY ChosenIsConfigured DEF SignerChosen, NoFallback
<1>. QED
  BY <1>1, <1>2, <1>3, PTL DEF Spec
-----------------------------------------------------------------------------
(* The counters *)

\* The goroutines that serve a request now.
Busy == {c \in Clients : pc[c] # "idle"}

\* Types of the variables the counters depend on.
CounterTypes ==
  /\ pc \in [Clients -> {"idle", "POST", "other", "record", "reply"}]
  /\ requests \in Nat /\ answered \in Nat
  /\ stamp \in [Clients -> Nat] /\ lastSuccess \in Nat
  /\ spc \in {"idle", "last", "shown"}
  /\ scrape \in [requests : Nat, last : Nat, answered0 : Nat, signed0 : BOOLEAN]

\* Every request that was counted has been answered or is being served.
RequestsCounted ==
  /\ IsFiniteSet(Busy)
  /\ requests = answered + Cardinality(Busy)

\* A time that waits to be recorded belongs to the present burst; when none
\* waits, the one recorded last does.
StampsInBurst ==
  /\ burst \subseteq Nat \ {0}
  /\ \A c \in Clients : pc[c] = "record" => stamp[c] \in burst
  /\ GaugeLatest

\* A signature is handed out after its time was recorded, and the gauge never
\* goes back to 0.
SuccessShown ==
  /\ \A c \in Clients : pc[c] = "reply" => lastSuccess # 0
  /\ answer # Nil => lastSuccess # 0

\* What a scrape has read covers what was true when it began.
ScrapeBehind ==
  /\ spc # "idle" => scrape.answered0 <= scrape.requests
  /\ spc = "last" /\ scrape.signed0 => lastSuccess # 0
  /\ spc = "shown" /\ scrape.signed0 => scrape.last # 0

CounterInv ==
  CounterTypes /\ RequestsCounted /\ StampsInBurst /\ SuccessShown /\ ScrapeBehind

\* The counters and stamps stay numbers; a goroutine keeps a legal state.
LEMMA TypesStep ==
  ASSUME CounterTypes, [Next]_vars
  PROVE  CounterTypes'
<1> USE DEF CounterTypes, Goto, process, handlers, counters, scraper, ghosts
<1>1. CASE Choose \/ ListenFails
  BY <1>1 DEF Choose, ListenFails
<1>2. ASSUME NEW c \in Clients, NEW method \in {"POST", "other"}, Begin(c, method)
      PROVE  CounterTypes'
  BY <1>2 DEF Begin
<1>3. ASSUME NEW c \in Clients, Refuse(c) PROVE CounterTypes'
  BY <1>3 DEF Refuse
<1>4. ASSUME NEW c \in Clients, Sign(c) PROVE CounterTypes'
  BY <1>4, SvcAssumption DEF Sign
<1>5. ASSUME NEW c \in Clients, Record(c) PROVE CounterTypes'
  BY <1>5 DEF Record
<1>6. ASSUME NEW c \in Clients, Reply(c) PROVE CounterTypes'
  BY <1>6 DEF Reply
<1>7. CASE ScrapeRequests \/ ScrapeLast \/ ScrapeDone
  <2>1. CASE ScrapeRequests
    <3>1. CASE answer = Nil
      <4>1. scrape' = [requests |-> requests, last |-> 0, answered0 |-> answered,
                       signed0 |-> FALSE]
        BY <2>1, <3>1 DEF ScrapeRequests
      <4>. QED
        BY <2>1, <4>1 DEF ScrapeRequests
    <3>2. CASE answer # Nil
      <4>1. scrape' = [requests |-> requests, last |-> 0, answered0 |-> answered,
                       signed0 |-> TRUE]
        BY <2>1, <3>2 DEF ScrapeRequests
      <4>. QED
        BY <2>1, <4>1 DEF ScrapeRequests
    <3>. QED
      BY <3>1, <3>2
  <2>2. CASE ScrapeLast
    BY <2>2 DEF ScrapeLast
  <2>3. CASE ScrapeDone
    BY <2>3 DEF ScrapeDone, NoScrape
  <2>. QED
    BY <1>7, <2>1, <2>2, <2>3
<1>8. ASSUME NEW s \in Settings, Restart(s) PROVE CounterTypes'
  BY <1>8 DEF Restart, NoScrape
<1>9. CASE UNCHANGED vars
  BY <1>9 DEF vars
<1>. QED
  BY <1>1, <1>2, <1>3, <1>4, <1>5, <1>6, <1>7, <1>8, <1>9 DEF Next

\* A goroutine that begins is one more, one that answers one fewer.
LEMMA CountedStep ==
  ASSUME CounterTypes, RequestsCounted, [Next]_vars
  PROVE  RequestsCounted'
<1> USE DEF RequestsCounted
<1>1. ASSUME NEW c \in Clients, NEW method \in {"POST", "other"}, Begin(c, method)
      PROVE  RequestsCounted'
  <2>1. Busy' = Busy \cup {c} /\ c \notin Busy
    BY <1>1 DEF Begin, Goto, Busy, CounterTypes
  <2>2. IsFiniteSet(Busy') /\ Cardinality(Busy') = Cardinality(Busy) + 1
    BY <2>1, FS_AddElement
  <2>3. Cardinality(Busy) \in Nat
    BY FS_CardinalityType
  <2>. QED
    BY <1>1, <2>2, <2>3 DEF Begin, ghosts, CounterTypes
<1>2. ASSUME NEW c \in Clients, Refuse(c) \/ Reply(c) PROVE RequestsCounted'
  <2>1. Busy' = Busy \ {c} /\ c \in Busy
    BY <1>2 DEF Refuse, Reply, Goto, Busy, CounterTypes
  <2>2. IsFiniteSet(Busy') /\ Cardinality(Busy') = Cardinality(Busy) - 1
    BY <2>1, FS_RemoveElement
  <2>3. Cardinality(Busy) \in Nat
    BY FS_CardinalityType
  <2>. QED
    BY <1>2, <2>2, <2>3 DEF Refuse, Reply, counters, CounterTypes
<1>3. ASSUME NEW c \in Clients, Sign(c) \/ Record(c) PROVE RequestsCounted'
  <2>1. Busy' = Busy
    BY <1>3 DEF Sign, Record, Goto, Busy, CounterTypes
  <2>. QED
    BY <1>3, <2>1 DEF Sign, Record, counters, ghosts
<1>4. ASSUME NEW s \in Settings, Restart(s) PROVE RequestsCounted'
  <2>1. Busy' = {}
    BY <1>4 DEF Restart, Busy
  <2>. QED
    BY <1>4, <2>1, FS_EmptySet DEF Restart
<1>5. CASE UNCHANGED <<pc, requests, answered>>
  BY <1>5 DEF Busy
<1>. QED
  BY <1>1, <1>2, <1>3, <1>4, <1>5
     DEF Next, vars, Choose, ListenFails, ScrapeRequests, ScrapeLast, ScrapeDone,
         handlers, counters, ghosts

\* A signature that overlaps with none starts a burst of its own; the last of a
\* burst to be recorded leaves one of the burst's times in the gauge.
LEMMA StampsStep ==
  ASSUME CounterTypes, StampsInBurst, [Next]_vars
  PROVE  StampsInBurst'
<1> USE DEF StampsInBurst
<1>1. ASSUME NEW c \in Clients, NEW method \in {"POST", "other"}, Begin(c, method)
      PROVE  StampsInBurst'
  BY <1>1 DEF Begin, Goto, ghosts, CounterTypes, GaugeLatest
<1>2. ASSUME NEW c \in Clients, Refuse(c) PROVE StampsInBurst'
  BY <1>2 DEF Refuse, Goto, counters, CounterTypes, GaugeLatest
<1>3. ASSUME NEW c \in Clients, Sign(c) PROVE StampsInBurst'
  <2>1. PICK t \in 1..MaxTime :
          /\ stamp' = [stamp EXCEPT ![c] = t]
          /\ burst' = IF \E d \in Clients : pc[d] = "record" THEN burst \cup {t} ELSE {t}
    BY <1>3 DEF Sign
  <2>2. pc'[c] = "record" /\ \A d \in Clients : d # c => pc'[d] = pc[d] /\ stamp'[d] = stamp[d]
    BY <1>3, <2>1 DEF Sign, Goto, CounterTypes
  <2>3. stamp'[c] = t /\ t \in Nat \ {0}
    BY <2>1, SvcAssumption DEF CounterTypes
  <2>4. GaugeLatest'
    BY <2>2 DEF GaugeLatest
  <2>5. burst' \subseteq Nat \ {0} /\ t \in burst'
    BY <2>1, <2>3
  <2>6. \A d \in Clients : d # c /\ pc[d] = "record" => stamp[d] \in burst'
    BY <2>1
  <2>. QED
    BY <2>2, <2>3, <2>4, <2>5, <2>6
<1>4. ASSUME NEW c \in Clients, Record(c) PROVE StampsInBurst'
  <2>1. /\ lastSuccess' = stamp[c] /\ stamp[c] \in burst /\ UNCHANGED <<stamp, burst>>
        /\ pc'[c] = "reply" /\ \A d \in Clients : d # c => pc'[d] = pc[d]
    BY <1>4 DEF Record, Goto, ghosts, CounterTypes
  <2>. QED
    BY <2>1 DEF GaugeLatest
<1>5. ASSUME NEW c \in Clients, Reply(c) PROVE StampsInBurst'
  <2>1. /\ UNCHANGED <<lastSuccess, burst>> /\ pc[c] = "reply" /\ pc'[c] = "idle"
        /\ \A d \in Clients : d # c => pc'[d] = pc[d] /\ stamp'[d] = stamp[d]
    BY <1>5 DEF Reply, Goto, counters, CounterTypes
  <2>. QED
    BY <2>1 DEF GaugeLatest
<1>6. ASSUME NEW s \in Settings, Restart(s) PROVE StampsInBurst'
  BY <1>6 DEF Restart, GaugeLatest
<1>7. CASE UNCHANGED <<pc, stamp, lastSuccess, burst>>
  BY <1>7 DEF GaugeLatest
<1>. QED
  BY <1>1, <1>2, <1>3, <1>4, <1>5, <1>6, <1>7
     DEF Next, vars, Choose, ListenFails, ScrapeRequests, ScrapeLast, ScrapeDone,
         handlers, counters, ghosts

\* The time is recorded before the answer goes out.
LEMMA SuccessStep ==
  ASSUME CounterTypes, StampsInBurst, SuccessShown, [Next]_vars
  PROVE  SuccessShown'
<1> USE DEF SuccessShown
<1>1. ASSUME NEW c \in Clients, Record(c) PROVE SuccessShown'
  <2>1. lastSuccess' # 0
    BY <1>1 DEF Record, StampsInBurst
  <2>. QED
    BY <2>1
<1>2. ASSUME NEW s \in Settings, Restart(s) PROVE SuccessShown'
  BY <1>2 DEF Restart
<1>3. ASSUME NEW c \in Clients, Reply(c) PROVE SuccessShown'
  BY <1>3 DEF Reply, Goto, counters, CounterTypes
<1>4. ASSUME UNCHANGED <<lastSuccess, answer>>,
             \A c \in Clients : pc'[c] = "reply" => pc[c] = "reply"
      PROVE  SuccessShown'
  BY <1>4
<1>5. ASSUME NEW c \in Clients,
             (\E method \in {"POST", "other"} : Begin(c, method)) \/ Refuse(c) \/ Sign(c)
      PROVE  SuccessShown'
  BY <1>4, <1>5 DEF Begin, Refuse, Sign, Goto, counters, ghosts, CounterTypes
<1>6. CASE UNCHANGED <<pc, lastSuccess, answer>>
  BY <1>4, <1>6
<1>. QED
  BY <1>1, <1>2, <1>3, <1>5, <1>6
     DEF Next, vars, Choose, ListenFails, ScrapeRequests, ScrapeLast, ScrapeDone,
         handlers, counters, ghosts

\* A scrape is begun behind the counters, and the gauge never goes back to 0.
LEMMA ScrapeStep ==
  ASSUME CounterInv, [Next]_vars
  PROVE  ScrapeBehind'
<1> USE DEF CounterInv, ScrapeBehind
<1>1. CASE ScrapeRequests
  <2>1. answered <= requests
    BY FS_CardinalityType DEF RequestsCounted, CounterTypes
  <2>. QED
    BY <1>1, <2>1 DEF ScrapeRequests, SuccessShown, counters, ghosts
<1>2. CASE ScrapeLast
  BY <1>2 DEF ScrapeLast, CounterTypes, counters, ghosts
<1>3. CASE ScrapeDone
  BY <1>3 DEF ScrapeDone
<1>4. ASSUME NEW c \in Clients, Record(c) PROVE ScrapeBehind'
  BY <1>4 DEF Record, StampsInBurst, CounterTypes, scraper
<1>5. ASSUME NEW s \in Settings, Restart(s) PROVE ScrapeBehind'
  BY <1>5 DEF Restart
<1>6. CASE UNCHANGED <<spc, scrape, lastSuccess>>
  BY <1>6
<1>. QED
  BY <1>1, <1>2, <1>3, <1>4, <1>5, <1>6
     DEF Next, vars, Choose, ListenFails, Begin, Refuse, Sign, Reply, scraper, counters

LEMMA CounterInvariant == Spec => []CounterInv
<1>1. Init => CounterInv
  <2> SUFFICES ASSUME Init PROVE CounterInv
    OBVIOUS
  <2>1. CounterTypes
    BY DEF Init, CounterTypes, NoScrape
  <2>2. RequestsCounted
    <3>1. Busy = {}
      BY DEF Init, Busy
    <3>. QED
      BY <3>1, FS_EmptySet DEF Init, RequestsCounted
  <2>3. StampsInBurst /\ SuccessShown /\ ScrapeBehind
    BY DEF Init, StampsInBurst, GaugeLatest, SuccessShown, ScrapeBehind
  <2>. QED
    BY <2>1, <2>2, <2>3 DEF CounterInv
<1>2. CounterInv /\ [Next]_vars => CounterInv'
  BY TypesStep, CountedStep, StampsStep, SuccessStep, ScrapeStep DEF CounterInv
<1>. QED
  BY <1>1, <1>2, PTL DEF Spec

\* For any number of clients and any clock, whenever no signature is being
\* recorded the gauge shows the time of the last one, or of one in its burst.
THEOREM GaugeTheorem == Spec => []GaugeLatest
<1>1. CounterInv => GaugeLatest
  BY DEF CounterInv, StampsInBurst
<1>. QED
  BY <1>1, CounterInvariant, PTL

\* A scrape, which reads the counters one by one, misses no request that was
\* answered before it began, and reports a success once there was one.
THEOREM ScrapeTheorem == Spec => []ScrapeCovers
<1>1. CounterInv => ScrapeCovers
  BY DEF CounterInv, CounterTypes, ScrapeBehind, ScrapeCovers
<1>. QED
  BY <1>1, CounterInvariant, PTL
=============================================================================

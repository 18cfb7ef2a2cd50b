------------------------------- MODULE Metrics -------------------------------
(***************************************************************************)
(* The request metrics of vault-api                                        *)
(* (services/vault-api/middleware/metrics.go).  Every request goes through *)
(* the Metrics middleware, the scrape of /metrics included: the handler    *)
(* runs first, then the counters are updated one atomic operation at a     *)
(* time, with no lock.  A scrape reads them one at a time as well, so each *)
(* atomic operation is a step.                                             *)
(***************************************************************************)
EXTENDS Naturals, Sequences, FiniteSetsExt

CONSTANTS Goroutines,  \* goroutines that serve requests
          Bounds,      \* durationBucketsSeconds, ascending
          Durations,   \* durations of requests, in the same unit
          MaxRequests, \* bound on the number of requests
          Nil          \* a key that is not in a sync.Map

ASSUME MetricsAssumption ==
  /\ Bounds \in Seq(Nat) /\ Bounds # <<>>
  /\ \A i \in 1..(Len(Bounds) - 1) : Bounds[i] < Bounds[i + 1]
  /\ Durations \subseteq Nat /\ IsFiniteSet(Durations)
  /\ IsFiniteSet(Goroutines)
  /\ MaxRequests \in Nat
  /\ Nil \notin Nat /\ Nil \notin Seq(Nat)

Statuses == {200, 404}

Ops == {"ingest", "other"}

Requests == [op : Ops, status : Statuses, d : Durations]

VARIABLES total,     \* vaultRequestsTotal
          duration,  \* vaultRequestDurationMicros
          byStatus,  \* vaultRequestsByStatus
          byClass,   \* vaultRequestsByOperationStatus
          sum,       \* vaultDurationSumByOperation
          count,     \* vaultDurationCountByOperation: op -> counter or Nil
          buckets,   \* vaultDurationBucketsByOp: op -> counters or Nil
          pc,        \* where each goroutine is
          req,       \* the request it serves: operation, status, duration
          idx,       \* the bucket it is at
          report,    \* what its scrape has read so far
          served     \* how many requests of each kind were begun

counters == <<total, duration, byStatus, byClass, sum, count, buckets>>
vars == <<total, duration, byStatus, byClass, sum, count, buckets,
          pc, req, idx, report, served>>

\* A Range has visited the operations in seen; op is the one it is at, whose
\* buckets read so far are le and whose count is inf.
NoReport == [total |-> 0, duration |-> 0, op |-> Nil, le |-> <<>>, inf |-> Nil, seen |-> {}]

classifyStatusClass(status) ==
  CASE status >= 500 -> "5xx"
    [] status >= 400 /\ status < 500 -> "4xx"
    [] status >= 300 /\ status < 400 -> "3xx"
    [] OTHER -> "2xx"

Classes == {"2xx", "3xx", "4xx", "5xx"}

newBucketCounters == [i \in DOMAIN Bounds |-> 0]

\* LoadOrStore of a zero counter; it and the add after it are one step, since
\* in between only a counter of zero is to be seen.
Loaded(x) == IF x = Nil THEN 0 ELSE x

Init ==
  /\ total = 0 /\ duration = 0
  /\ byStatus = [s \in Statuses |-> 0]
  /\ byClass = [k \in Ops \X Classes |-> 0]
  /\ sum = [op \in Ops |-> Nil]
  /\ count = [op \in Ops |-> Nil]
  /\ buckets = [op \in Ops |-> Nil]
  /\ pc = [g \in Goroutines |-> "idle"]
  /\ req = [g \in Goroutines |-> Nil]
  /\ idx = [g \in Goroutines |-> 1]
  /\ report = [g \in Goroutines |-> NoReport]
  /\ served = [r \in Requests |-> 0]

SumOver(f, S) == MapThenSumSet(LAMBDA x : f[x], S)

\* How many requests of the kinds in R were begun, and how long they took.
Served(R) == SumOver(served, R)

ServedTime(R) == SumOver([r \in Requests |-> r.d * served[r]], R)

Goto(g, label) == pc' = [pc EXCEPT ![g] = label]

\* The inner handler has answered after d; a scrape reads first.
Begin(g, op, status, d, label) ==
  /\ pc[g] = "idle" /\ Served(Requests) < MaxRequests
  /\ req' = [req EXCEPT ![g] = [op |-> op, status |-> status, d |-> d]]
  /\ served' = [served EXCEPT ![req'[g]] = @ + 1]
  /\ Goto(g, label)
  /\ UNCHANGED <<counters, idx, report>>
-----------------------------------------------------------------------------
(* Metrics: the updates, in program order *)

AddTotal(g) ==
  /\ pc[g] = "total" /\ Goto(g, "duration")
  /\ total' = total + 1
  /\ UNCHANGED <<duration, byStatus, byClass, sum, count, buckets, req, idx, report, served>>

AddDuration(g) ==
  /\ pc[g] = "duration" /\ Goto(g, "status")
  /\ duration' = duration + req[g].d
  /\ UNCHANGED <<total, byStatus, byClass, sum, count, buckets, req, idx, report, served>>

\* Mutant: a load and a store in place of the atomic add.
AddStatus_Lost(g) ==
  /\ pc[g] = "status" /\ Goto(g, "class")
  /\ \/ byStatus' = [byStatus EXCEPT ![req[g].status] = @ + 1]
     \/ /\ \E h \in Goroutines \ {g} : pc[h] = "status" /\ req[h].status = req[g].status
        /\ UNCHANGED byStatus
  /\ UNCHANGED <<total, duration, byClass, sum, count, buckets, req, idx, report, served>>

AddStatus(g) ==
  /\ pc[g] = "status" /\ Goto(g, "class")
  /\ byStatus' = [byStatus EXCEPT ![req[g].status] = @ + 1]
  /\ UNCHANGED <<total, duration, byClass, sum, count, buckets, req, idx, report, served>>

AddClass(g) ==
  /\ pc[g] = "class" /\ Goto(g, "sum")
  /\ byClass' = [byClass EXCEPT ![<<req[g].op, classifyStatusClass(req[g].status)>>] = @ + 1]
  /\ UNCHANGED <<total, duration, byStatus, sum, count, buckets, req, idx, report, served>>

AddSum(g) ==
  /\ pc[g] = "sum" /\ Goto(g, "count")
  /\ sum' = [sum EXCEPT ![req[g].op] = Loaded(@) + req[g].d]
  /\ UNCHANGED <<total, duration, byStatus, byClass, count, buckets, req, idx, report, served>>

\* Mutant: the count is stored only after the buckets exist.
AddCount_Late(g) ==
  /\ pc[g] = "count"
  /\ \/ /\ buckets[req[g].op] = Nil
        /\ buckets' = [buckets EXCEPT ![req[g].op] = newBucketCounters]
        /\ UNCHANGED <<pc, count>>
     \/ /\ buckets[req[g].op] # Nil
        /\ Goto(g, "buckets")
        /\ count' = [count EXCEPT ![req[g].op] = Loaded(@) + 1]
        /\ UNCHANGED buckets
  /\ UNCHANGED <<total, duration, byStatus, byClass, sum, req, idx, report, served>>

AddCount(g) ==
  /\ pc[g] = "count" /\ Goto(g, "buckets")
  /\ count' = [count EXCEPT ![req[g].op] = Loaded(@) + 1]
  /\ UNCHANGED <<total, duration, byStatus, byClass, sum, buckets, req, idx, report, served>>

\* LoadOrStore of fresh bucket counters.
LoadBuckets(g) ==
  /\ pc[g] = "buckets" /\ Goto(g, "bucket")
  /\ idx' = [idx EXCEPT ![g] = 1]
  /\ buckets' = IF buckets[req[g].op] = Nil
                  THEN [buckets EXCEPT ![req[g].op] = newBucketCounters]
                  ELSE buckets
  /\ UNCHANGED <<total, duration, byStatus, byClass, sum, count, req, report, served>>

\* One round of the loop over the bounds, and its end.
AddBucket(g) ==
  /\ pc[g] = "bucket"
  /\ \/ /\ idx[g] \in DOMAIN Bounds
        /\ buckets' = IF req[g].d <= Bounds[idx[g]]
                        THEN [buckets EXCEPT ![req[g].op][idx[g]] = @ + 1]
                        ELSE buckets
        /\ idx' = [idx EXCEPT ![g] = @ + 1]
        /\ UNCHANGED <<pc, req>>
     \/ /\ idx[g] \notin DOMAIN Bounds
        /\ Goto(g, "idle")
        /\ idx' = [idx EXCEPT ![g] = 1]
        /\ req' = [req EXCEPT ![g] = Nil]
        /\ UNCHANGED buckets
  /\ UNCHANGED <<total, duration, byStatus, byClass, sum, count, report, served>>
-----------------------------------------------------------------------------
(* MetricsHandler: the reads, in program order *)

ReadTotal(g) ==
  /\ pc[g] = "scrape" /\ Goto(g, "readDuration")
  /\ report' = [report EXCEPT ![g].total = total]
  /\ UNCHANGED <<counters, req, idx, served>>

ReadDuration(g) ==
  /\ pc[g] = "readDuration" /\ Goto(g, "range")
  /\ report' = [report EXCEPT ![g].duration = duration]
  /\ UNCHANGED <<counters, req, idx, served>>

\* Range over the buckets: the next operation, or the end of the scrape.  An
\* operation stored meanwhile may be visited or not.
RangeOp(g) ==
  /\ pc[g] = "range"
  /\ \/ \E op \in Ops \ report[g].seen :
          /\ buckets[op] # Nil
          /\ report' = [report EXCEPT ![g].op = op, ![g].le = <<>>, ![g].inf = Nil,
                                      ![g].seen = @ \cup {op}]
          /\ Goto(g, "readBucket")
     \/ Goto(g, "total") /\ report' = [report EXCEPT ![g] = NoReport]
  /\ UNCHANGED <<counters, req, idx, served>>

ReadBucket(g) ==
  /\ pc[g] = "readBucket"
  /\ report' = [report EXCEPT ![g].le = Append(@, buckets[report[g].op][Len(@) + 1])]
  /\ Goto(g, IF Len(report[g].le) + 1 = Len(Bounds) THEN "readCount" ELSE "readBucket")
  /\ UNCHANGED <<counters, req, idx, served>>

\* Load and dereference: a count that is not there would panic.
ReadCount(g) ==
  /\ pc[g] = "readCount" /\ Goto(g, "range")
  /\ report' = [report EXCEPT ![g].inf = count[report[g].op]]
  /\ UNCHANGED <<counters, req, idx, served>>
-----------------------------------------------------------------------------
Update(g) ==
  \/ AddTotal(g) \/ AddDuration(g) \/ AddStatus(g) \/ AddClass(g)
  \/ AddSum(g) \/ AddCount(g) \/ LoadBuckets(g) \/ AddBucket(g)

Scrape(g) ==
  ReadTotal(g) \/ ReadDuration(g) \/ RangeOp(g) \/ ReadBucket(g) \/ ReadCount(g)

Next ==
  \E g \in Goroutines :
    \/ \E op \in Ops, s \in Statuses, d \in Durations : Begin(g, op, s, d, "total")
    \/ \E d \in Durations : Begin(g, "other", 200, d, "scrape")
    \/ Update(g)
    \/ Scrape(g)

Spec == Init /\ [][Next]_vars
-----------------------------------------------------------------------------
(* Properties *)

Quiet == \A g \in Goroutines : pc[g] = "idle"

\* No update is lost: whenever no request is in flight every counter agrees
\* with the requests that were served, whatever the interleaving was.
QuietExact ==
  Quiet =>
    /\ total = Served(Requests) /\ duration = ServedTime(Requests)
    /\ \A s \in Statuses : byStatus[s] = Served({r \in Requests : r.status = s})
    /\ \A op \in Ops :
         /\ Loaded(count[op]) = Served({r \in Requests : r.op = op})
         /\ Loaded(sum[op]) = ServedTime({r \in Requests : r.op = op})
         /\ \A class \in Classes :
              byClass[<<op, class>>] =
                Served({r \in Requests : r.op = op /\ classifyStatusClass(r.status) = class})
         /\ \A i \in DOMAIN Bounds :
              IF buckets[op] = Nil THEN count[op] = Nil
              ELSE buckets[op][i] = Served({r \in Requests : r.op = op /\ r.d <= Bounds[i]})

\* A scrape that finds an operation's buckets finds its count, which is never
\* smaller than any bucket it read before: +Inf covers the histogram.
InfCovers ==
  \A g \in Goroutines :
    /\ pc[g] = "readCount" => count[report[g].op] # Nil
    /\ pc[g] = "range" /\ report[g].op # Nil =>
         \A i \in DOMAIN report[g].le : report[g].le[i] <= report[g].inf
=============================================================================

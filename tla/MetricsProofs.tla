---------------------------- MODULE MetricsProofs ----------------------------
(***************************************************************************)
(* Proofs about Metrics, for any number of goroutines and requests and any *)
(* bucket bounds: what a scrape may rely on, and that no update is lost.   *)
(***************************************************************************)
EXTENDS Metrics, FiniteSetTheorems, TLAPS

Labels == {"idle", "total", "duration", "status", "class", "sum", "count", "buckets",
           "bucket", "scrape", "readDuration", "range", "readBucket", "readCount"}

Reports == [total : Nat, duration : Nat, op : Ops \cup {Nil}, le : Seq(Nat),
            inf : Nat \cup {Nil}, seen : SUBSET Ops]

\* The counters a scrape relates, the goroutines and their reports.
MetricsTypes ==
  /\ total \in Nat /\ duration \in Nat
  /\ count \in [Ops -> Nat \cup {Nil}]
  /\ buckets \in [Ops -> [DOMAIN Bounds -> Nat] \cup {Nil}]
  /\ pc \in [Goroutines -> Labels]
  /\ DOMAIN req = Goroutines
  /\ \A g \in Goroutines : pc[g] # "idle" => req[g] \in Requests
  /\ idx \in [Goroutines -> Nat \ {0}]
  /\ report \in [Goroutines -> Reports]

\* The goroutines that have counted a request of op and may still add it to
\* bucket i.
Due(op, i) ==
  {g \in Goroutines : /\ pc[g] \in {"buckets", "bucket"}
                      /\ req[g].op = op
                      /\ pc[g] = "bucket" => idx[g] <= i}

\* A bucket, and all that may yet be added to it, is covered by the count: a
\* request is counted before it is added to any bucket.
Room(op, i) ==
  /\ IsFiniteSet(Due(op, i))
  /\ Cardinality(Due(op, i)) + (IF buckets[op] = Nil THEN 0 ELSE buckets[op][i])
       <= Loaded(count[op])

CountFirst ==
  /\ \A op \in Ops, i \in DOMAIN Bounds : Room(op, i)
  /\ \A op \in Ops : buckets[op] # Nil => count[op] # Nil
  /\ \A g \in Goroutines : pc[g] \in {"buckets", "bucket"} => count[req[g].op] # Nil
  /\ \A g \in Goroutines : pc[g] = "bucket" => buckets[req[g].op] # Nil

\* What a scrape has read of the operation it is at is no more than what is
\* there now; once it has read the count, no more than that.
ReadSoFar(g) ==
  /\ pc[g] \in {"readBucket", "readCount"} =>
       /\ report[g].op \in Ops /\ buckets[report[g].op] # Nil
       /\ \A i \in DOMAIN report[g].le :
            i \in DOMAIN Bounds /\ report[g].le[i] <= buckets[report[g].op][i]
  /\ pc[g] = "readBucket" => Len(report[g].le) < Len(Bounds)
  /\ pc[g] = "range" =>
       \/ report[g].op = Nil
       \/ report[g].inf \in Nat /\ \A i \in DOMAIN report[g].le : report[g].le[i] <= report[g].inf
  /\ pc[g] \notin {"range", "readBucket", "readCount"} => report[g].op = Nil

MetricsInv == MetricsTypes /\ CountFirst /\ \A g \in Goroutines : ReadSoFar(g)

\* Nil stands for no counter.
LEMMA NilIsNone ==
  /\ Nil \notin Nat
  /\ Nil \notin [DOMAIN Bounds -> Nat]
  /\ DOMAIN Bounds = 1..Len(Bounds) /\ Len(Bounds) \in Nat \ {0}
  /\ Durations \subseteq Nat
  /\ \A i \in DOMAIN Bounds : Bounds[i] \in Nat
<1>1. Bounds \in Seq(Nat) /\ Bounds # <<>> /\ Nil \notin Nat /\ Nil \notin Seq(Nat)
      /\ Durations \subseteq Nat
  BY MetricsAssumption
<1>2. DOMAIN Bounds = 1..Len(Bounds) /\ Len(Bounds) \in Nat
  BY <1>1
<1>3. \A f \in [1..Len(Bounds) -> Nat] : f \in Seq(Nat)
  BY <1>2
<1>4. \A i \in DOMAIN Bounds : Bounds[i] \in Nat
  BY <1>1
<1>5. Len(Bounds) # 0
  BY <1>1
<1>. QED
  BY <1>1, <1>2, <1>3, <1>4, <1>5

\* What beginning a request changes.
LEMMA BeginIs ==
  ASSUME NEW g \in Goroutines, NEW op, NEW s, NEW d, NEW label, Begin(g, op, s, d, label)
  PROVE  /\ pc[g] = "idle" /\ pc' = [pc EXCEPT ![g] = label]
         /\ req' = [req EXCEPT ![g] = [op |-> op, status |-> s, d |-> d]]
         /\ UNCHANGED <<total, duration, count, buckets, idx, report>>
  BY DEF Begin, Goto, counters

\* Any step but a stutter.
LEMMA MetricsCases ==
  ASSUME Next
  PROVE  \E g \in Goroutines :
           \/ \E op \in Ops, s \in Statuses, d \in Durations :
                Begin(g, op, s, d, "total") \/ Begin(g, op, s, d, "scrape")
           \/ AddTotal(g) \/ AddDuration(g) \/ AddStatus(g) \/ AddClass(g)
           \/ AddSum(g) \/ AddCount(g) \/ LoadBuckets(g) \/ AddBucket(g)
           \/ ReadTotal(g) \/ ReadDuration(g) \/ RangeOp(g) \/ ReadBucket(g) \/ ReadCount(g)
<1>1. "other" \in Ops /\ 200 \in Statuses
  BY DEF Ops, Statuses
<1>. QED
  BY <1>1 DEF Next, Update, Scrape
-----------------------------------------------------------------------------
(* Types *)

\* A report whose fields are replaced is a report.
LEMMA ReportUpdated ==
  ASSUME NEW rep \in Reports, NEW op \in Ops \cup {Nil}, NEW le \in Seq(Nat),
         NEW inf \in Nat \cup {Nil}, NEW seen \in SUBSET Ops
  PROVE  /\ [rep EXCEPT !.op = op, !.le = le, !.inf = inf, !.seen = seen] \in Reports
         /\ [rep EXCEPT !.le = le] \in Reports
<1>1. ASSUME NEW A, NEW B, NEW C, NEW D,
             NEW r \in [total : Nat, duration : Nat, op : A, le : B, inf : C, seen : D],
             NEW a \in A, NEW b \in B, NEW c \in C, NEW d \in D
      PROVE  /\ [r EXCEPT !.op = a, !.le = b, !.inf = c, !.seen = d]
                  \in [total : Nat, duration : Nat, op : A, le : B, inf : C, seen : D]
             /\ [r EXCEPT !.le = b]
                  \in [total : Nat, duration : Nat, op : A, le : B, inf : C, seen : D]
  OBVIOUS
<1>. QED
  BY <1>1 DEF Reports

\* Types are kept: a counter that is there is a number, and an operation that
\* is ranged over has bucket counters.
LEMMA MetricsTypeStep ==
  ASSUME MetricsInv, [Next]_vars
  PROVE  MetricsTypes'
<1> USE DEF MetricsTypes, Goto, counters
<1>0. MetricsTypes /\ CountFirst /\ \A g \in Goroutines : ReadSoFar(g)
  BY DEF MetricsInv
<1>1. ASSUME NEW g \in Goroutines, NEW label \in Labels, pc' = [pc EXCEPT ![g] = label],
             pc[g] # "idle", req' = req
      PROVE  /\ pc' \in [Goroutines -> Labels] /\ DOMAIN req' = Goroutines
             /\ \A h \in Goroutines : pc'[h] # "idle" => req'[h] \in Requests
  BY <1>0, <1>1
<1>2. ASSUME NEW g \in Goroutines, NEW op \in Ops, NEW s \in Statuses, NEW d \in Durations,
             NEW label \in Labels, Begin(g, op, s, d, label)
      PROVE  MetricsTypes'
  <2>1. [op |-> op, status |-> s, d |-> d] \in Requests
    BY DEF Requests
  <2>. QED
    BY <1>0, <1>2, <2>1, BeginIs
<1>3. ASSUME NEW g \in Goroutines,
             AddTotal(g) \/ AddDuration(g) \/ AddStatus(g) \/ AddClass(g) \/ AddSum(g)
      PROVE  MetricsTypes'
  <2>1. pc[g] # "idle" /\ UNCHANGED <<count, buckets, req, idx, report>>
    BY <1>3 DEF AddTotal, AddDuration, AddStatus, AddClass, AddSum
  <2>2. PICK label \in Labels : pc' = [pc EXCEPT ![g] = label]
    BY <1>3 DEF AddTotal, AddDuration, AddStatus, AddClass, AddSum, Labels
  <2>3. total' \in Nat /\ duration' \in Nat
    <3>1. req[g].d \in Nat
      BY <1>0, <2>1, NilIsNone DEF Requests
    <3>. QED
      BY <1>0, <1>3, <3>1 DEF AddTotal, AddDuration, AddStatus, AddClass, AddSum
  <2>. QED
    BY <1>0, <1>1, <2>1, <2>2, <2>3
<1>4. ASSUME NEW g \in Goroutines, AddCount(g) PROVE MetricsTypes'
  <2>1. pc[g] # "idle" /\ "buckets" \in Labels /\ req[g].op \in Ops
    BY <1>0, <1>4 DEF AddCount, Labels, Requests
  <2>2. count' \in [Ops -> Nat \cup {Nil}]
    BY <1>0, <1>4, <2>1, NilIsNone DEF AddCount, Loaded
  <2>. QED
    BY <1>0, <1>1, <1>4, <2>1, <2>2 DEF AddCount
<1>5. ASSUME NEW g \in Goroutines, LoadBuckets(g) PROVE MetricsTypes'
  <2>1. pc[g] # "idle" /\ "bucket" \in Labels /\ req[g].op \in Ops
    BY <1>0, <1>5 DEF LoadBuckets, Labels, Requests
  <2>2. newBucketCounters \in [DOMAIN Bounds -> Nat]
    BY DEF newBucketCounters
  <2>3. buckets' \in [Ops -> [DOMAIN Bounds -> Nat] \cup {Nil}]
    <3>1. CASE buckets' = [buckets EXCEPT ![req[g].op] = newBucketCounters]
      BY <1>0, <2>1, <2>2, <3>1
    <3>2. CASE buckets' = buckets
      BY <1>0, <3>2
    <3>. QED
      BY <1>5, <3>1, <3>2 DEF LoadBuckets
  <2>. QED
    BY <1>0, <1>1, <1>5, <2>1, <2>3 DEF LoadBuckets
<1>6. ASSUME NEW g \in Goroutines, AddBucket(g) PROVE MetricsTypes'
  <2>0. /\ pc[g] = "bucket" /\ req[g].op \in Ops /\ buckets[req[g].op] \in [DOMAIN Bounds -> Nat]
        /\ UNCHANGED <<total, duration, count, report>>
    BY <1>0, <1>6 DEF AddBucket, Requests, CountFirst
  <2>1. CASE /\ idx[g] \in DOMAIN Bounds
             /\ buckets' = IF req[g].d <= Bounds[idx[g]]
                             THEN [buckets EXCEPT ![req[g].op][idx[g]] = @ + 1]
                             ELSE buckets
             /\ idx' = [idx EXCEPT ![g] = @ + 1] /\ UNCHANGED <<pc, req>>
    <3>1. idx' \in [Goroutines -> Nat \ {0}]
      BY <1>0, <2>1
    <3>2. CASE buckets' = [buckets EXCEPT ![req[g].op][idx[g]] = @ + 1]
      <4>1. [buckets[req[g].op] EXCEPT ![idx[g]] = @ + 1] \in [DOMAIN Bounds -> Nat]
        BY <2>0, <2>1
      <4>. QED
        BY <1>0, <2>0, <2>1, <3>1, <3>2, <4>1
    <3>3. CASE buckets' = buckets
      BY <1>0, <2>0, <2>1, <3>1, <3>3
    <3>. QED
      BY <2>1, <3>2, <3>3
  <2>2. CASE /\ pc' = [pc EXCEPT ![g] = "idle"] /\ idx' = [idx EXCEPT ![g] = 1]
             /\ req' = [req EXCEPT ![g] = Nil] /\ UNCHANGED buckets
    BY <1>0, <2>0, <2>2 DEF Labels
  <2>. QED
    BY <1>6, <2>1, <2>2 DEF AddBucket
<1>7. ASSUME NEW g \in Goroutines, NEW label \in Labels, pc' = [pc EXCEPT ![g] = label],
             pc[g] # "idle", NEW rep \in Reports, report' = [report EXCEPT ![g] = rep],
             UNCHANGED <<counters, req, idx>>
      PROVE  MetricsTypes'
  BY <1>0, <1>1, <1>7
<1>8. \A g \in Goroutines : report[g] \in Reports
  BY <1>0
<1>9. ASSUME NEW g \in Goroutines, ReadTotal(g) PROVE MetricsTypes'
  <2>1. [report[g] EXCEPT !.total = total] \in Reports
    BY <1>0, <1>8 DEF Reports
  <2>. QED
    BY <1>0, <1>7, <1>9, <2>1 DEF ReadTotal, Labels
<1>10. ASSUME NEW g \in Goroutines, ReadDuration(g) PROVE MetricsTypes'
  <2>1. [report[g] EXCEPT !.duration = duration] \in Reports
    BY <1>0, <1>8 DEF Reports
  <2>. QED
    BY <1>0, <1>7, <1>10, <2>1 DEF ReadDuration, Labels
<1>11. ASSUME NEW g \in Goroutines, RangeOp(g) PROVE MetricsTypes'
  <2>0. pc[g] # "idle" /\ UNCHANGED <<counters, req, idx>>
    BY <1>11 DEF RangeOp
  <2>1. ASSUME NEW op \in Ops, pc' = [pc EXCEPT ![g] = "readBucket"],
               report' = [report EXCEPT ![g].op = op, ![g].le = <<>>, ![g].inf = Nil,
                                        ![g].seen = @ \cup {op}]
        PROVE  MetricsTypes'
    <3>1. report' = [report EXCEPT ![g] = [report[g] EXCEPT !.op = op, !.le = <<>>, !.inf = Nil,
                                                            !.seen = report[g].seen \cup {op}]]
      BY <1>0, <2>1
    <3>2. [report[g] EXCEPT !.op = op, !.le = <<>>, !.inf = Nil,
                            !.seen = report[g].seen \cup {op}] \in Reports
      <4>1. report[g].seen \cup {op} \in SUBSET Ops
        BY <1>8 DEF Reports
      <4>2. <<>> \in Seq(Nat)
        OBVIOUS
      <4>. QED
        BY <1>8, <4>1, <4>2, ReportUpdated
    <3>. QED
      BY <1>7, <2>0, <2>1, <3>1, <3>2 DEF Labels
  <2>2. CASE pc' = [pc EXCEPT ![g] = "total"] /\ report' = [report EXCEPT ![g] = NoReport]
    <3>1. NoReport \in Reports
      BY DEF NoReport, Reports
    <3>. QED
      BY <1>7, <2>0, <2>2, <3>1 DEF Labels
  <2>. QED
    BY <1>11, <2>1, <2>2 DEF RangeOp
<1>12. ASSUME NEW g \in Goroutines, ReadBucket(g) PROVE MetricsTypes'
  <2>1. /\ pc[g] = "readBucket" /\ UNCHANGED <<counters, req, idx>>
        /\ report[g].op \in Ops /\ buckets[report[g].op] \in [DOMAIN Bounds -> Nat]
        /\ report[g].le \in Seq(Nat) /\ Len(report[g].le) + 1 \in DOMAIN Bounds
    <3>1. report[g].le \in Seq(Nat) /\ pc[g] = "readBucket"
      BY <1>8, <1>12 DEF Reports, ReadBucket
    <3>2. Len(report[g].le) \in Nat /\ Len(report[g].le) < Len(Bounds)
      BY <1>0, <3>1 DEF ReadSoFar
    <3>3. Len(report[g].le) + 1 \in DOMAIN Bounds
      BY <3>2, NilIsNone
    <3>. QED
      BY <1>0, <1>12, <3>1, <3>3 DEF ReadBucket, ReadSoFar
  <2>2. buckets[report[g].op][Len(report[g].le) + 1] \in Nat
    BY <2>1
  <2>3. [report[g] EXCEPT !.le = Append(report[g].le, buckets[report[g].op][Len(report[g].le) + 1])]
          \in Reports
    <3>1. Append(report[g].le, buckets[report[g].op][Len(report[g].le) + 1]) \in Seq(Nat)
      BY <2>1, <2>2
    <3>2. report[g] \in Reports /\ report[g].op \in Ops \cup {Nil} /\ report[g].seen \in SUBSET Ops
          /\ report[g].inf \in Nat \cup {Nil}
      BY <1>8 DEF Reports
    <3>. QED
      BY <3>1, <3>2, ReportUpdated
  <2>4. report' = [report EXCEPT ![g] =
          [report[g] EXCEPT !.le = Append(report[g].le, buckets[report[g].op][Len(report[g].le) + 1])]]
    BY <1>0, <1>12 DEF ReadBucket
  <2>5. PICK label \in Labels : pc' = [pc EXCEPT ![g] = label]
    BY <1>12 DEF ReadBucket, Labels
  <2>. QED
    BY <1>7, <2>1, <2>3, <2>4, <2>5
<1>13. ASSUME NEW g \in Goroutines, ReadCount(g) PROVE MetricsTypes'
  <2>1. report[g].op \in Ops
    BY <1>0, <1>13 DEF ReadCount, ReadSoFar
  <2>2. [report[g] EXCEPT !.inf = count[report[g].op]] \in Reports
    BY <1>0, <1>8, <2>1 DEF Reports
  <2>. QED
    BY <1>0, <1>7, <1>13, <2>2 DEF ReadCount, Labels
<1>14. CASE UNCHANGED vars
  BY <1>0, <1>14 DEF vars
<1>. QED
  BY <1>2, <1>3, <1>4, <1>5, <1>6, <1>9, <1>10, <1>11, <1>12, <1>13, <1>14, MetricsCases
     DEF Labels
-----------------------------------------------------------------------------
(* The count runs ahead of the buckets *)

\* One goroutine more or less among those that are due.
LEMMA DueByOne ==
  ASSUME NEW S, IsFiniteSet(S), NEW g
  PROVE  /\ Cardinality(S) \in Nat
         /\ IsFiniteSet(S \cup {g}) /\ IsFiniteSet(S \ {g})
         /\ Cardinality(S \cup {g}) \in Nat /\ Cardinality(S \cup {g}) <= Cardinality(S) + 1
         /\ Cardinality(S \ {g}) \in Nat
         /\ g \in S => Cardinality(S \ {g}) + 1 = Cardinality(S)
  BY FS_AddElement, FS_RemoveElement, FS_CardinalityType

\* A step that changes neither the counters nor who is due.
LEMMA DueUnchanged ==
  ASSUME MetricsTypes, CountFirst, UNCHANGED <<count, buckets>>,
         \A h \in Goroutines : pc'[h] \in {"buckets", "bucket"} <=> pc[h] \in {"buckets", "bucket"},
         \A h \in Goroutines : pc[h] \in {"buckets", "bucket"} =>
           pc'[h] = pc[h] /\ req'[h] = req[h] /\ idx'[h] = idx[h]
  PROVE  CountFirst'
<1>1. ASSUME NEW op \in Ops, NEW i \in DOMAIN Bounds PROVE Room(op, i)'
  <2>1. Due(op, i)' = Due(op, i)
    BY DEF Due
  <2>. QED
    BY <1>1, <2>1 DEF CountFirst, Room
<1>. QED
  BY <1>1 DEF CountFirst

\* Every request is counted before it is added to a bucket, so the count
\* covers every bucket and the additions still to come.
LEMMA CountFirstStep ==
  ASSUME MetricsInv, [Next]_vars
  PROVE  CountFirst'
<1> USE DEF Goto, counters
<1>0. MetricsTypes /\ CountFirst
  BY DEF MetricsInv
<1>1. ASSUME NEW g \in Goroutines, NEW op \in Ops, NEW s, NEW d, NEW label \in {"total", "scrape"},
             Begin(g, op, s, d, label)
      PROVE  CountFirst'
  BY <1>0, <1>1, BeginIs, DueUnchanged DEF MetricsTypes
<1>2. ASSUME NEW g \in Goroutines,
             AddTotal(g) \/ AddDuration(g) \/ AddStatus(g) \/ AddClass(g) \/ AddSum(g)
      PROVE  CountFirst'
  <2>1. /\ pc[g] \in {"total", "duration", "status", "class", "sum"}
        /\ UNCHANGED <<count, buckets, req, idx>>
    BY <1>2 DEF AddTotal, AddDuration, AddStatus, AddClass, AddSum
  <2>2. PICK label \in {"duration", "status", "class", "sum", "count"} :
          pc' = [pc EXCEPT ![g] = label]
    BY <1>2 DEF AddTotal, AddDuration, AddStatus, AddClass, AddSum
  <2>. QED
    BY <1>0, <2>1, <2>2, DueUnchanged DEF MetricsTypes
<1>3. ASSUME NEW g \in Goroutines,
             \/ ReadTotal(g) \/ ReadDuration(g) \/ RangeOp(g) \/ ReadBucket(g) \/ ReadCount(g)
      PROVE  CountFirst'
  <2>1. /\ pc[g] \in {"scrape", "readDuration", "range", "readBucket", "readCount"}
        /\ UNCHANGED <<count, buckets, req, idx>>
    BY <1>3 DEF ReadTotal, ReadDuration, RangeOp, ReadBucket, ReadCount
  <2>2. PICK label \in {"readDuration", "range", "readBucket", "readCount", "total"} :
          pc' = [pc EXCEPT ![g] = label]
    BY <1>3 DEF ReadTotal, ReadDuration, RangeOp, ReadBucket, ReadCount
  <2>. QED
    BY <1>0, <2>1, <2>2, DueUnchanged DEF MetricsTypes
<1>4. ASSUME NEW g \in Goroutines, AddCount(g) PROVE CountFirst'
  <2> DEFINE o == req[g].op
  <2>0. /\ pc[g] = "count" /\ pc' = [pc EXCEPT ![g] = "buckets"] /\ o \in Ops
        /\ count' = [count EXCEPT ![o] = Loaded(count[o]) + 1]
        /\ UNCHANGED <<buckets, req, idx>>
    BY <1>0, <1>4 DEF AddCount, MetricsTypes, Requests
  <2>1. Loaded(count[o]) \in Nat /\ count'[o] = Loaded(count[o]) + 1 /\ count'[o] \in Nat
        /\ count'[o] # Nil /\ \A op \in Ops : op # o => count'[op] = count[op]
    BY <1>0, <2>0, NilIsNone DEF Loaded, MetricsTypes
  <2>2. pc'[g] = "buckets" /\ \A h \in Goroutines : h # g => pc'[h] = pc[h]
    BY <1>0, <2>0 DEF MetricsTypes
  <2>3. ASSUME NEW op \in Ops, NEW i \in DOMAIN Bounds PROVE Room(op, i)'
    <3>0. Room(op, i)
      BY <1>0 DEF CountFirst
    <3>1. CASE op = o
      <4>1. Due(op, i)' = Due(op, i) \cup {g}
        BY <2>0, <2>2, <3>1 DEF Due
      <4>2. Loaded(count[op])' = Loaded(count[op]) + 1
        BY <2>1, <3>1 DEF Loaded
      <4>3. (IF buckets[op] = Nil THEN 0 ELSE buckets[op][i]) \in Nat
        BY <1>0 DEF MetricsTypes
      <4>4. /\ IsFiniteSet(Due(op, i)') /\ Cardinality(Due(op, i)) \in Nat
            /\ Cardinality(Due(op, i)') \in Nat
            /\ Cardinality(Due(op, i)') <= Cardinality(Due(op, i)) + 1
        BY <3>0, <4>1, DueByOne DEF Room
      <4>. QED
        BY <2>0, <2>1, <3>0, <3>1, <4>2, <4>3, <4>4 DEF Room
    <3>2. CASE op # o
      <4>1. Due(op, i)' = Due(op, i)
        BY <2>0, <2>2, <3>2 DEF Due
      <4>. QED
        BY <2>0, <2>1, <3>0, <3>2, <4>1 DEF Room, Loaded
    <3>. QED
      BY <3>1, <3>2
  <2>4. \A op \in Ops : count[op] # Nil => count'[op] # Nil
    BY <2>1
  <2>5. \A op \in Ops : buckets'[op] # Nil => count'[op] # Nil
    BY <1>0, <2>0, <2>4 DEF CountFirst
  <2>6. \A h \in Goroutines : pc'[h] \in {"buckets", "bucket"} => count'[req'[h].op] # Nil
    <3>1. \A h \in Goroutines : pc[h] \in {"buckets", "bucket"} => req[h].op \in Ops
      BY <1>0 DEF MetricsTypes, Requests
    <3>. QED
      BY <1>0, <2>0, <2>1, <2>2, <2>4, <3>1 DEF CountFirst
  <2>7. \A h \in Goroutines : pc'[h] = "bucket" => buckets'[req'[h].op] # Nil
    BY <1>0, <2>0, <2>2 DEF CountFirst
  <2>. QED
    BY <2>3, <2>5, <2>6, <2>7 DEF CountFirst
<1>5. ASSUME NEW g \in Goroutines, LoadBuckets(g) PROVE CountFirst'
  <2> DEFINE o == req[g].op
  <2>0. /\ pc[g] = "buckets" /\ o \in Ops
        /\ pc' = [pc EXCEPT ![g] = "bucket"] /\ idx' = [idx EXCEPT ![g] = 1]
        /\ buckets' = IF buckets[o] = Nil THEN [buckets EXCEPT ![o] = newBucketCounters]
                                          ELSE buckets
        /\ UNCHANGED <<count, req>>
    BY <1>0, <1>5 DEF LoadBuckets, MetricsTypes, Requests
  <2>1. /\ pc'[g] = "bucket" /\ \A h \in Goroutines : h # g => pc'[h] = pc[h]
        /\ idx'[g] = 1 /\ \A h \in Goroutines : h # g => idx'[h] = idx[h]
    BY <1>0, <2>0 DEF MetricsTypes
  <2>2. /\ newBucketCounters # Nil
        /\ \A i \in DOMAIN Bounds : newBucketCounters[i] = 0
    BY NilIsNone DEF newBucketCounters
  <2>3. /\ buckets'[o] # Nil
        /\ buckets[o] = Nil => buckets'[o] = newBucketCounters
        /\ buckets[o] # Nil => buckets'[o] = buckets[o]
        /\ \A op \in Ops : op # o => buckets'[op] = buckets[op]
    BY <1>0, <2>0, <2>2 DEF MetricsTypes
  <2>4. ASSUME NEW op \in Ops, NEW i \in DOMAIN Bounds PROVE Room(op, i)'
    <3>0. Room(op, i) /\ 1 <= i
      BY <1>0, <2>4, NilIsNone DEF CountFirst
    <3>1. Due(op, i)' = Due(op, i)
      BY <2>0, <2>1, <3>0 DEF Due
    <3>2. (IF buckets[op] = Nil THEN 0 ELSE buckets[op][i])' =
            IF buckets[op] = Nil THEN 0 ELSE buckets[op][i]
      BY <2>2, <2>3
    <3>. QED
      BY <2>0, <3>0, <3>1, <3>2 DEF Room
  <2>5. \A op \in Ops : buckets'[op] # Nil => count'[op] # Nil
    BY <1>0, <2>0, <2>3 DEF CountFirst
  <2>6. \A h \in Goroutines : pc'[h] \in {"buckets", "bucket"} => count'[req'[h].op] # Nil
    BY <1>0, <2>0, <2>1 DEF CountFirst
  <2>7. \A h \in Goroutines : pc'[h] = "bucket" => buckets'[req'[h].op] # Nil
    <3>1. \A h \in Goroutines : pc[h] = "bucket" => req[h].op \in Ops
      BY <1>0 DEF MetricsTypes, Requests
    <3>. QED
      BY <1>0, <2>0, <2>1, <2>3, <3>1 DEF CountFirst
  <2>. QED
    BY <2>4, <2>5, <2>6, <2>7 DEF CountFirst
<1>6. ASSUME NEW g \in Goroutines, AddBucket(g) PROVE CountFirst'
  <2> DEFINE o == req[g].op
  <2>0. /\ pc[g] = "bucket" /\ o \in Ops /\ count' = count
        /\ buckets[o] \in [DOMAIN Bounds -> Nat] /\ buckets[o] # Nil /\ idx[g] \in Nat \ {0}
    BY <1>0, <1>6, NilIsNone DEF AddBucket, CountFirst, MetricsTypes, Requests
  <2>1. CASE /\ idx[g] \in DOMAIN Bounds
             /\ buckets' = IF req[g].d <= Bounds[idx[g]]
                             THEN [buckets EXCEPT ![req[g].op][idx[g]] = @ + 1]
                             ELSE buckets
             /\ idx' = [idx EXCEPT ![g] = @ + 1] /\ UNCHANGED <<pc, req>>
    <3>1. idx'[g] = idx[g] + 1 /\ \A h \in Goroutines : h # g => idx'[h] = idx[h]
      BY <1>0, <2>1 DEF MetricsTypes
    <3>2. /\ \A op \in Ops : op # o => buckets'[op] = buckets[op]
          /\ buckets'[o] \in [DOMAIN Bounds -> Nat] /\ buckets'[o] # Nil
          /\ \A i \in DOMAIN Bounds : i # idx[g] => buckets'[o][i] = buckets[o][i]
          /\ buckets'[o][idx[g]] <= buckets[o][idx[g]] + 1
      <4>1. CASE buckets' = [buckets EXCEPT ![o][idx[g]] = @ + 1]
        <5>1. buckets'[o] = [buckets[o] EXCEPT ![idx[g]] = @ + 1]
          BY <1>0, <2>0, <4>1 DEF MetricsTypes
        <5>2. \A op \in Ops : op # o => buckets'[op] = buckets[op]
          BY <1>0, <4>1 DEF MetricsTypes
        <5>3. buckets'[o] \in [DOMAIN Bounds -> Nat]
          BY <2>0, <2>1, <5>1
        <5>4. /\ \A i \in DOMAIN Bounds : i # idx[g] => buckets'[o][i] = buckets[o][i]
              /\ buckets'[o][idx[g]] = buckets[o][idx[g]] + 1
          BY <2>0, <2>1, <5>1
        <5>5. buckets'[o] # Nil
          BY <5>3, NilIsNone
        <5>6. buckets'[o][idx[g]] <= buckets[o][idx[g]] + 1
          BY <2>1, <5>3, <5>4
        <5>. QED
          BY <5>2, <5>3, <5>4, <5>5, <5>6
      <4>2. CASE buckets' = buckets
        BY <2>0, <2>1, <4>2
      <4>. QED
        BY <2>1, <4>1, <4>2
    <3>3. ASSUME NEW op \in Ops, NEW i \in DOMAIN Bounds PROVE Room(op, i)'
      <4>0. Room(op, i) /\ i \in Nat
        BY <1>0, NilIsNone DEF CountFirst
      <4>1. CASE op = o /\ i = idx[g]
        <5>1. Due(op, i)' = Due(op, i) \ {g} /\ g \in Due(op, i)
          BY <2>0, <2>1, <3>1, <4>0, <4>1 DEF Due
        <5>2. /\ IsFiniteSet(Due(op, i)') /\ Cardinality(Due(op, i)) \in Nat
              /\ Cardinality(Due(op, i)') \in Nat
              /\ Cardinality(Due(op, i)') + 1 = Cardinality(Due(op, i))
          BY <4>0, <5>1, DueByOne DEF Room
        <5>3. buckets[op][i] \in Nat /\ buckets'[op][i] \in Nat
              /\ buckets'[op][i] <= buckets[op][i] + 1
          BY <2>0, <3>2, <4>1
        <5>4. Loaded(count[op]) \in Nat /\ Loaded(count[op])' = Loaded(count[op])
          BY <1>0, <2>0, NilIsNone DEF Loaded, MetricsTypes
        <5>. QED
          BY <2>0, <3>2, <4>0, <4>1, <5>2, <5>3, <5>4 DEF Room
      <4>2. CASE ~(op = o /\ i = idx[g])
        <5>1. Due(op, i)' = Due(op, i)
          BY <2>0, <2>1, <3>1, <4>0, <4>2 DEF Due
        <5>2. (IF buckets[op] = Nil THEN 0 ELSE buckets[op][i])' =
                IF buckets[op] = Nil THEN 0 ELSE buckets[op][i]
          BY <2>0, <3>2, <4>2
        <5>. QED
          BY <2>0, <4>0, <5>1, <5>2 DEF Room
      <4>. QED
        BY <4>1, <4>2
    <3>4. \A op \in Ops : buckets'[op] # Nil <=> buckets[op] # Nil
      BY <2>0, <3>2
    <3>5. \A h \in Goroutines : pc[h] = "bucket" => req[h].op \in Ops
      BY <1>0 DEF MetricsTypes, Requests
    <3>. QED
      BY <1>0, <2>0, <2>1, <3>3, <3>4, <3>5 DEF CountFirst
  <2>2. CASE /\ idx[g] \notin DOMAIN Bounds
             /\ pc' = [pc EXCEPT ![g] = "idle"] /\ idx' = [idx EXCEPT ![g] = 1]
             /\ req' = [req EXCEPT ![g] = Nil] /\ UNCHANGED buckets
    <3>1. /\ pc'[g] = "idle"
          /\ \A h \in Goroutines : h # g =>
               pc'[h] = pc[h] /\ idx'[h] = idx[h] /\ req'[h] = req[h]
      BY <1>0, <2>2 DEF MetricsTypes
    <3>2. ASSUME NEW op \in Ops, NEW i \in DOMAIN Bounds PROVE Room(op, i)'
      <4>1. ~(idx[g] <= i)
        BY <2>0, <2>2, NilIsNone
      <4>2. Due(op, i)' = Due(op, i)
        BY <2>0, <3>1, <4>1 DEF Due
      <4>. QED
        BY <1>0, <2>0, <2>2, <4>2 DEF CountFirst, Room
    <3>. QED
      BY <1>0, <2>0, <2>2, <3>1, <3>2 DEF CountFirst
  <2>. QED
    BY <1>6, <2>1, <2>2 DEF AddBucket
<1>7. CASE UNCHANGED vars
  BY <1>0, <1>7, DueUnchanged DEF vars
<1>. QED
  BY <1>1, <1>2, <1>3, <1>4, <1>5, <1>6, <1>7, MetricsCases
-----------------------------------------------------------------------------
(* The scrape *)

\* Bucket counters are never taken away and never fall.
LEMMA BucketsGrow ==
  ASSUME MetricsInv, [Next]_vars
  PROVE  \A op \in Ops : buckets[op] # Nil =>
           /\ buckets'[op] # Nil
           /\ \A i \in DOMAIN Bounds : buckets[op][i] <= buckets'[op][i]
<1> USE DEF counters
<1>0. MetricsTypes /\ CountFirst
  BY DEF MetricsInv
<1>1. \A op \in Ops : buckets[op] # Nil =>
        /\ buckets[op] \in [DOMAIN Bounds -> Nat]
        /\ \A i \in DOMAIN Bounds : buckets[op][i] \in Nat /\ buckets[op][i] <= buckets[op][i]
  BY <1>0 DEF MetricsTypes
<1>2. CASE UNCHANGED buckets
  BY <1>1, <1>2
<1>3. ASSUME NEW g \in Goroutines, LoadBuckets(g),
             NEW op \in Ops, buckets[op] # Nil
      PROVE  buckets'[op] = buckets[op]
  BY <1>0, <1>3 DEF LoadBuckets, MetricsTypes
<1>4. ASSUME NEW g \in Goroutines, AddBucket(g), NEW op \in Ops, buckets[op] # Nil
      PROVE  buckets'[op] # Nil /\ \A i \in DOMAIN Bounds : buckets[op][i] <= buckets'[op][i]
  <2>1. CASE buckets' = buckets
    BY <1>1, <1>4, <2>1
  <2>2. CASE idx[g] \in DOMAIN Bounds /\ buckets' = [buckets EXCEPT ![req[g].op][idx[g]] = @ + 1]
    <3>1. CASE op = req[g].op
      <4>1. buckets'[op] = [buckets[op] EXCEPT ![idx[g]] = @ + 1]
        BY <1>0, <2>2, <3>1 DEF MetricsTypes
      <4>2. buckets'[op] \in [DOMAIN Bounds -> Nat]
        BY <1>1, <1>4, <2>2, <4>1
      <4>3. \A i \in DOMAIN Bounds : buckets[op][i] <= buckets'[op][i]
        BY <1>1, <1>4, <4>1
      <4>. QED
        BY <4>2, <4>3, NilIsNone
    <3>2. CASE op # req[g].op
      <4>1. buckets'[op] = buckets[op]
        BY <1>0, <2>2, <3>2 DEF MetricsTypes
      <4>. QED
        BY <1>1, <1>4, <4>1
    <3>. QED
      BY <3>1, <3>2
  <2>. QED
    BY <1>4, <2>1, <2>2 DEF AddBucket
<1>5. ASSUME NEW g \in Goroutines, ~LoadBuckets(g), ~AddBucket(g),
             \/ \E op \in Ops, st \in Statuses, d \in Durations :
                  Begin(g, op, st, d, "total") \/ Begin(g, op, st, d, "scrape")
             \/ AddTotal(g) \/ AddDuration(g) \/ AddStatus(g) \/ AddClass(g)
             \/ AddSum(g) \/ AddCount(g)
             \/ ReadTotal(g) \/ ReadDuration(g) \/ RangeOp(g) \/ ReadBucket(g) \/ ReadCount(g)
      PROVE  UNCHANGED buckets
  BY <1>5, BeginIs DEF AddTotal, AddDuration, AddStatus, AddClass, AddSum, AddCount,
     ReadTotal, ReadDuration, RangeOp, ReadBucket, ReadCount
<1>6. ASSUME UNCHANGED vars PROVE UNCHANGED buckets
  BY <1>6 DEF vars
<1>. QED
  BY <1>1, <1>2, <1>3, <1>4, <1>5, <1>6, MetricsCases

\* A count that is there covers each bucket that is there.
LEMMA CountCovers ==
  ASSUME MetricsTypes, CountFirst, NEW op \in Ops, buckets[op] # Nil
  PROVE  count[op] \in Nat /\ \A i \in DOMAIN Bounds : buckets[op][i] <= count[op]
<1>1. count[op] # Nil /\ count[op] \in Nat /\ Loaded(count[op]) = count[op]
  BY DEF CountFirst, MetricsTypes, Loaded
<1>2. ASSUME NEW i \in DOMAIN Bounds PROVE buckets[op][i] <= count[op]
  <2>1. Cardinality(Due(op, i)) \in Nat /\ Cardinality(Due(op, i)) + buckets[op][i] <= count[op]
    BY <1>1, DueByOne DEF CountFirst, Room
  <2>2. buckets[op][i] \in Nat
    BY DEF MetricsTypes
  <2>. QED
    BY <1>1, <2>1, <2>2
<1>. QED
  BY <1>1, <1>2

\* A scrape that another goroutine's step meets stays covered.
LEMMA ScrapeKept ==
  ASSUME MetricsInv, [Next]_vars, NEW h \in Goroutines, ReadSoFar(h),
         pc'[h] = pc[h], report'[h] = report[h]
  PROVE  ReadSoFar(h)'
<1>0. report[h].le \in Seq(Nat)
  BY DEF MetricsInv, MetricsTypes, Reports
<1>1. ASSUME pc[h] \in {"readBucket", "readCount"}
      PROVE  /\ report[h].op \in Ops /\ buckets'[report[h].op] # Nil
             /\ \A i \in DOMAIN report[h].le :
                  i \in DOMAIN Bounds /\ report[h].le[i] <= buckets'[report[h].op][i]
  <2>1. /\ report[h].op \in Ops /\ buckets[report[h].op] # Nil
        /\ \A i \in DOMAIN report[h].le :
             i \in DOMAIN Bounds /\ report[h].le[i] <= buckets[report[h].op][i]
    BY <1>1 DEF ReadSoFar
  <2>2. /\ buckets'[report[h].op] # Nil
        /\ \A i \in DOMAIN Bounds : buckets[report[h].op][i] <= buckets'[report[h].op][i]
    BY <2>1, BucketsGrow
  <2>3. \A i \in DOMAIN Bounds :
          buckets[report[h].op][i] \in Nat /\ buckets'[report[h].op][i] \in Nat
    BY <2>1, <2>2, MetricsTypeStep DEF MetricsInv, MetricsTypes
  <2>4. \A i \in DOMAIN report[h].le : report[h].le[i] \in Nat
    BY <1>0
  <2>. QED
    BY <2>1, <2>2, <2>3, <2>4
<1>. QED
  BY <1>1 DEF ReadSoFar

\* Every scrape has read no more than there is.
LEMMA ScrapeStep ==
  ASSUME MetricsInv, [Next]_vars, NEW h \in Goroutines
  PROVE  ReadSoFar(h)'
<1> USE DEF Goto, counters
<1>0. MetricsTypes /\ CountFirst /\ ReadSoFar(h)
  BY DEF MetricsInv
<1>1. ASSUME NEW g \in Goroutines, g # h, NEW label, pc' = [pc EXCEPT ![g] = label],
             NEW rep, report' = [report EXCEPT ![g] = rep]
      PROVE  ReadSoFar(h)'
  BY <1>0, <1>1, ScrapeKept DEF MetricsTypes
<1>2. ASSUME pc'[h] = pc[h], report' = report PROVE ReadSoFar(h)'
  BY <1>0, <1>2, ScrapeKept
<1>3. ASSUME report'[h].op = Nil,
             pc'[h] \notin {"readBucket", "readCount"}
      PROVE  ReadSoFar(h)'
  BY <1>3 DEF ReadSoFar
<1>4. ASSUME NEW g \in Goroutines, NEW label, pc' = [pc EXCEPT ![g] = label], report' = report,
             pc[g] \notin {"range", "readBucket", "readCount"},
             label \notin {"readBucket", "readCount"}
      PROVE  ReadSoFar(h)'
  <2>1. CASE g = h
    <3>1. pc'[h] = label /\ report'[h].op = Nil
      BY <1>0, <1>4, <2>1 DEF MetricsTypes, ReadSoFar, Labels
    <3>. QED
      BY <1>3, <1>4, <3>1
  <2>2. CASE g # h
    <3>1. pc'[h] = pc[h]
      BY <1>0, <1>4, <2>2 DEF MetricsTypes
    <3>. QED
      BY <1>2, <1>4, <3>1
  <2>. QED
    BY <2>1, <2>2
<1>5. ASSUME NEW g \in Goroutines, NEW op, NEW s, NEW d, NEW label \in {"total", "scrape"},
             Begin(g, op, s, d, label)
      PROVE  ReadSoFar(h)'
  BY <1>4, <1>5, BeginIs
<1>6. ASSUME NEW g \in Goroutines,
             \/ AddTotal(g) \/ AddDuration(g) \/ AddStatus(g) \/ AddClass(g) \/ AddSum(g)
             \/ AddCount(g) \/ LoadBuckets(g)
      PROVE  ReadSoFar(h)'
  <2>1. report' = report /\ pc[g] \notin {"range", "readBucket", "readCount"}
    BY <1>6 DEF AddTotal, AddDuration, AddStatus, AddClass, AddSum, AddCount, LoadBuckets
  <2>2. PICK label \in {"duration", "status", "class", "sum", "count", "buckets", "bucket"} :
          pc' = [pc EXCEPT ![g] = label]
    BY <1>6 DEF AddTotal, AddDuration, AddStatus, AddClass, AddSum, AddCount, LoadBuckets
  <2>. QED
    BY <1>4, <2>1, <2>2
<1>7. ASSUME NEW g \in Goroutines, AddBucket(g) PROVE ReadSoFar(h)'
  <2>1. pc[g] = "bucket" /\ report' = report
    BY <1>7 DEF AddBucket
  <2>2. CASE pc' = pc
    BY <1>2, <2>1, <2>2
  <2>3. CASE pc' = [pc EXCEPT ![g] = "idle"]
    BY <1>4, <2>1, <2>3
  <2>. QED
    BY <1>7, <2>2, <2>3 DEF AddBucket
<1>8. ASSUME NEW g \in Goroutines, g # h,
             ReadTotal(g) \/ ReadDuration(g) \/ RangeOp(g) \/ ReadBucket(g) \/ ReadCount(g)
      PROVE  ReadSoFar(h)'
  <2>1. pc'[h] = pc[h]
    BY <1>0, <1>8 DEF ReadTotal, ReadDuration, RangeOp, ReadBucket, ReadCount, MetricsTypes
  <2>2. report'[h] = report[h]
    BY <1>0, <1>8 DEF ReadTotal, ReadDuration, RangeOp, ReadBucket, ReadCount, MetricsTypes
  <2>. QED
    BY <1>0, <2>1, <2>2, ScrapeKept
<1>9. report[h] \in Reports /\ report[h].le \in Seq(Nat)
  BY <1>0 DEF MetricsTypes, Reports
<1>10. CASE ReadTotal(h)
  <2>1. pc'[h] = "readDuration" /\ report'[h] = [report[h] EXCEPT !.total = total]
        /\ report[h].op = Nil
    BY <1>0, <1>10 DEF ReadTotal, MetricsTypes, ReadSoFar
  <2>2. report'[h].op = Nil
    BY <1>9, <2>1 DEF Reports
  <2>. QED
    BY <1>3, <2>1, <2>2
<1>11. CASE ReadDuration(h)
  <2>1. pc'[h] = "range" /\ report'[h] = [report[h] EXCEPT !.duration = duration]
        /\ report[h].op = Nil
    BY <1>0, <1>11 DEF ReadDuration, MetricsTypes, ReadSoFar
  <2>2. report'[h].op = Nil
    BY <1>9, <2>1 DEF Reports
  <2>. QED
    BY <1>3, <2>1, <2>2
<1>12. CASE RangeOp(h)
  <2>1. CASE pc' = [pc EXCEPT ![h] = "total"] /\ report' = [report EXCEPT ![h] = NoReport]
    <3>1. pc'[h] = "total" /\ report'[h].op = Nil
      BY <1>0, <2>1 DEF MetricsTypes, NoReport
    <3>. QED
      BY <1>3, <3>1
  <2>2. ASSUME NEW op \in Ops, buckets[op] # Nil, buckets' = buckets,
               pc' = [pc EXCEPT ![h] = "readBucket"],
               report' = [report EXCEPT ![h].op = op, ![h].le = <<>>, ![h].inf = Nil,
                                        ![h].seen = @ \cup {op}]
        PROVE  ReadSoFar(h)'
    <3>1. pc'[h] = "readBucket"
      BY <1>0, <2>2 DEF MetricsTypes
    <3>2. report'[h] = [report[h] EXCEPT !.op = op, !.le = <<>>, !.inf = Nil,
                                         !.seen = report[h].seen \cup {op}]
      BY <1>0, <2>2 DEF MetricsTypes
    <3>3. report'[h].op = op /\ report'[h].le = <<>>
      BY <1>9, <3>2 DEF Reports
    <3>4. DOMAIN report'[h].le = {} /\ Len(report'[h].le) < Len(Bounds)
      BY <3>3, NilIsNone
    <3>. QED
      BY <2>2, <3>1, <3>3, <3>4 DEF ReadSoFar
  <2>. QED
    BY <1>12, <2>1, <2>2 DEF RangeOp
<1>13. CASE ReadBucket(h)
  <2> DEFINE o == report[h].op
             k == Len(report[h].le) + 1
             b == buckets[o][k]
  <2>1. /\ pc[h] = "readBucket" /\ buckets' = buckets
        /\ o \in Ops /\ buckets[o] # Nil /\ Len(report[h].le) < Len(Bounds)
        /\ \A i \in DOMAIN report[h].le : i \in DOMAIN Bounds /\ report[h].le[i] <= buckets[o][i]
    BY <1>0, <1>13 DEF ReadBucket, ReadSoFar
  <2>2. k \in DOMAIN Bounds /\ k <= Len(Bounds)
    BY <1>9, <2>1, NilIsNone
  <2>3. b \in Nat /\ b <= buckets[o][k]
    <3>1. buckets[o] \in [DOMAIN Bounds -> Nat]
      BY <1>0, <2>1 DEF MetricsTypes
    <3>. QED
      BY <2>2, <3>1
  <2>4. report'[h] = [report[h] EXCEPT !.le = Append(report[h].le, b)]
    BY <1>0, <1>13 DEF ReadBucket, MetricsTypes
  <2>5. report'[h].op = o /\ report'[h].le = Append(report[h].le, b)
    BY <1>9, <2>4 DEF Reports
  <2>6. /\ Len(report'[h].le) = k
        /\ \A i \in DOMAIN report'[h].le :
             \/ i \in DOMAIN report[h].le /\ report'[h].le[i] = report[h].le[i]
             \/ i = k /\ report'[h].le[i] = b
    <3>1. ASSUME NEW q \in Seq(Nat), NEW n \in Nat, NEW r, r = Append(q, n)
          PROVE  /\ Len(r) = Len(q) + 1
                 /\ \A i \in DOMAIN r : \/ i \in DOMAIN q /\ r[i] = q[i]
                                        \/ i = Len(q) + 1 /\ r[i] = n
      BY <3>1
    <3>. QED
      BY <1>9, <2>3, <2>5, <3>1
  <2>7. \A i \in DOMAIN report'[h].le :
          i \in DOMAIN Bounds /\ report'[h].le[i] <= buckets[o][i]
    <3> HIDE DEF b, k
    <3>. QED
      BY <2>1, <2>2, <2>3, <2>6
  <2>8. pc'[h] = IF k = Len(Bounds) THEN "readCount" ELSE "readBucket"
    BY <1>0, <1>13 DEF ReadBucket, MetricsTypes
  <2>9. pc'[h] = "readBucket" => Len(report'[h].le) < Len(Bounds)
    <3>1. k \in Nat /\ Len(Bounds) \in Nat
      BY <1>9, NilIsNone
    <3> HIDE DEF k
    <3>. QED
      BY <2>2, <2>6, <2>8, <3>1
  <2>10. pc'[h] \in {"readBucket", "readCount"}
    BY <2>8
  <2> HIDE DEF b, k
  <2>. QED
    BY <2>1, <2>5, <2>7, <2>9, <2>10 DEF ReadSoFar
<1>14. CASE ReadCount(h)
  <2> DEFINE o == report[h].op
  <2>1. /\ pc[h] = "readCount" /\ o \in Ops /\ buckets[o] # Nil
        /\ \A i \in DOMAIN report[h].le : i \in DOMAIN Bounds /\ report[h].le[i] <= buckets[o][i]
    BY <1>0, <1>14 DEF ReadCount, ReadSoFar
  <2>2. count[o] \in Nat /\ \A i \in DOMAIN Bounds : buckets[o][i] <= count[o]
    BY <1>0, <2>1, CountCovers
  <2>3. report'[h] = [report[h] EXCEPT !.inf = count[o]] /\ pc'[h] = "range"
    BY <1>0, <1>14 DEF ReadCount, MetricsTypes
  <2>4. report'[h].inf = count[o] /\ report'[h].le = report[h].le
    BY <1>9, <2>3 DEF Reports
  <2>5. \A i \in DOMAIN report[h].le : report[h].le[i] <= count[o]
    <3>1. ASSUME NEW i \in DOMAIN report[h].le PROVE report[h].le[i] <= count[o]
      <4>1. i \in DOMAIN Bounds /\ report[h].le[i] <= buckets[o][i] /\ report[h].le[i] \in Nat
        BY <1>9, <2>1, <3>1
      <4>2. buckets[o][i] \in Nat /\ buckets[o][i] <= count[o]
        BY <1>0, <2>1, <2>2, <4>1 DEF MetricsTypes
      <4>. QED
        BY <2>2, <4>1, <4>2
    <3>. QED
      BY <3>1
  <2>. QED
    BY <2>2, <2>3, <2>4, <2>5 DEF ReadSoFar
<1>15. CASE UNCHANGED vars
  BY <1>2, <1>15 DEF vars
<1>. QED
  BY <1>5, <1>6, <1>7, <1>8, <1>10, <1>11, <1>12, <1>13, <1>14, <1>15, MetricsCases

\* The inductive invariant of the scrape.
LEMMA MetricsInvariant == Spec => []MetricsInv
<1>1. Init => MetricsInv
  <2>1. ASSUME Init PROVE MetricsTypes
    <3>1. NoReport \in Reports
      BY DEF NoReport, Reports
    <3>. QED
      BY <2>1, <3>1 DEF Init, MetricsTypes, Labels
  <2>2. ASSUME Init PROVE CountFirst
    <3>1. \A op \in Ops, i \in DOMAIN Bounds : Due(op, i) = {}
      BY <2>2 DEF Init, Due
    <3>2. \A op \in Ops : Loaded(count[op]) = 0 /\ buckets[op] = Nil
      BY <2>2 DEF Init, Loaded
    <3>3. \A op \in Ops, i \in DOMAIN Bounds : Room(op, i)
      BY <3>1, <3>2, FS_EmptySet DEF Room
    <3>. QED
      BY <2>2, <3>3 DEF Init, CountFirst
  <2>3. ASSUME Init PROVE \A g \in Goroutines : ReadSoFar(g)
    BY <2>3 DEF Init, ReadSoFar, NoReport
  <2>. QED
    BY <2>1, <2>2, <2>3 DEF MetricsInv
<1>2. MetricsInv /\ [Next]_vars => MetricsInv'
  BY MetricsTypeStep, CountFirstStep, ScrapeStep DEF MetricsInv
<1>. QED
  BY <1>1, <1>2, PTL DEF Spec

\* A scrape that finds an operation's buckets finds its count, and the count it
\* reports, read last, is no smaller than any bucket it reports, for any
\* number of concurrent requests and scrapes: +Inf covers the histogram.
THEOREM InfTheorem == Spec => []InfCovers
<1>1. MetricsInv => InfCovers
  <2>1. ASSUME MetricsInv, NEW g \in Goroutines, pc[g] = "readCount"
        PROVE  count[report[g].op] # Nil
    BY <2>1 DEF MetricsInv, ReadSoFar, CountFirst
  <2>2. ASSUME MetricsInv, NEW g \in Goroutines, pc[g] = "range", report[g].op # Nil
        PROVE  \A i \in DOMAIN report[g].le : report[g].le[i] <= report[g].inf
    BY <2>2 DEF MetricsInv, ReadSoFar
  <2>. QED
    BY <2>1, <2>2 DEF InfCovers
<1>. QED
  BY <1>1, MetricsInvariant, PTL
-----------------------------------------------------------------------------
(* Sums over finite sets *)

\* A set of numbers that is not empty has a least one.
LEMMA LeastNat ==
  ASSUME NEW T, T \subseteq Nat, T # {}
  PROVE  \E n \in T : \A m \in T : n <= m
<1>1. IsWellFoundedOn(OpToRel(<, Nat), Nat)
  BY NatLessThanWellFounded
<1>2. ASSUME NEW x \in Nat, NEW y \in Nat, x < y PROVE <<x, y>> \in OpToRel(<, Nat)
  BY <1>2 DEF OpToRel
<1>3. \E n \in T : \A m \in T : ~ (<<m, n>> \in OpToRel(<, Nat))
  BY <1>1, WFMin, Zenon
<1>4. \E n \in T : \A m \in T : ~ (m < n)
  BY <1>2, <1>3, Zenon
<1>. QED
  BY <1>4, SMT

\* The order in which MapThenSumSet takes the elements of a set.
Pick(s) == CHOOSE x \in s : TRUE

\* The function MapThenSumSet chooses: h gives each subset of S its sum.
Sums(f, S, h) == h = [s \in SUBSET S |-> IF s = {} THEN 0 ELSE f[Pick(s)] + h[s \ {Pick(s)}]]

\* Taking one element out of a set that is not empty.
LEMMA PickOne ==
  ASSUME NEW S, IsFiniteSet(S), NEW s \in SUBSET S, s # {}
  PROVE  /\ Pick(s) \in s /\ Pick(s) \in S /\ s \ {Pick(s)} \in SUBSET S
         /\ Cardinality(s) \in Nat /\ Cardinality(s \ {Pick(s)}) \in Nat
         /\ Cardinality(s) = Cardinality(s \ {Pick(s)}) + 1
<1>1. Pick(s) \in s
  BY DEF Pick
<1>2. IsFiniteSet(s)
  BY FS_Subset
<1>3. Cardinality(s \ {Pick(s)}) = Cardinality(s) - 1 /\ IsFiniteSet(s \ {Pick(s)})
  BY <1>1, <1>2, FS_RemoveElement
<1>. QED
  BY <1>1, <1>2, <1>3, FS_CardinalityType

\* Induction over the subsets of a finite set, taking out one element at a time.
LEMMA SubsetInduction ==
  ASSUME NEW S, IsFiniteSet(S), NEW G, {} \in G,
         \A s \in SUBSET S : s # {} /\ s \ {Pick(s)} \in G => s \in G
  PROVE  \A s \in SUBSET S : s \in G
<1> DEFINE T == {n \in Nat : \E s \in SUBSET S : Cardinality(s) = n /\ s \notin G}
<1>1. T = {}
  <2> SUFFICES ASSUME T # {} PROVE FALSE
    OBVIOUS
  <2>1. PICK n \in T : \A m \in T : n <= m
    <3>1. T \subseteq Nat
      OBVIOUS
    <3> HIDE DEF T
    <3>. QED
      BY <3>1, LeastNat
  <2>2. PICK s \in SUBSET S : Cardinality(s) = n /\ s \notin G
    OBVIOUS
  <2>3. s # {}
    BY <2>2
  <2>4. /\ s \ {Pick(s)} \in SUBSET S
        /\ Cardinality(s) = Cardinality(s \ {Pick(s)}) + 1
        /\ Cardinality(s \ {Pick(s)}) \in Nat
    BY <2>3, PickOne
  <2>5. s \ {Pick(s)} \notin G
    BY <2>2, <2>3
  <2>6. Cardinality(s \ {Pick(s)}) \in T
    BY <2>4, <2>5
  <2>7. n <= Cardinality(s \ {Pick(s)})
    BY <2>1, <2>6, Zenon
  <2>8. n = Cardinality(s \ {Pick(s)}) + 1
    BY <2>2, <2>4, Zenon
  <2>. QED
    BY <2>4, <2>7, <2>8
<1>2. \A s \in SUBSET S : Cardinality(s) \in Nat
  BY FS_Subset, FS_CardinalityType
<1>. QED
  BY <1>1, <1>2

\* That function exists, by the least size at which it would not.
LEMMA SumsExist ==
  ASSUME NEW S, IsFiniteSet(S), NEW f, \A x \in S : f[x] \in Nat
  PROVE  \E h \in [SUBSET S -> Nat] : Sums(f, S, h)
<1> DEFINE Eq(h, s) == h[s] = IF s = {} THEN 0 ELSE f[Pick(s)] + h[s \ {Pick(s)}]
           Upto(h, n) == \A s \in SUBSET S : Cardinality(s) <= n => Eq(h, s)
           T == {n \in Nat : ~ \E h \in [SUBSET S -> Nat] : Upto(h, n)}
<1>0. \A s \in SUBSET S : Cardinality(s) \in Nat /\ (Cardinality(s) = 0 <=> s = {})
  BY FS_Subset, FS_CardinalityType, FS_EmptySet
<1>1. T = {}
  <2> SUFFICES ASSUME T # {} PROVE FALSE
    OBVIOUS
  <2>1. PICK n \in T : \A m \in T : n <= m
    <3> HIDE DEF T
    <3>1. T \subseteq Nat
      BY DEF T
    <3>. QED
      BY <3>1, LeastNat
  <2>2. CASE n = 0
    <3> DEFINE h == [s \in SUBSET S |-> 0]
    <3>1. h \in [SUBSET S -> Nat]
      OBVIOUS
    <3>2. ASSUME NEW s \in SUBSET S, Cardinality(s) <= n PROVE Eq(h, s)
      <4>1. s = {}
        BY <1>0, <2>2, <3>2
      <4>. QED
        BY <4>1
    <3>. QED
      BY <2>1, <3>1, <3>2
  <2>3. CASE n # 0
    <3>1. n - 1 \in Nat /\ n - 1 \notin T
      <4>1. n \in Nat
        OBVIOUS
      <4> HIDE DEF T
      <4>. QED
        BY <2>1, <2>3, <4>1
    <3>2. PICK h \in [SUBSET S -> Nat] : Upto(h, n - 1)
      BY <3>1
    <3> DEFINE k == [s \in SUBSET S |-> IF Cardinality(s) = n THEN f[Pick(s)] + h[s \ {Pick(s)}]
                                        ELSE h[s]]
    <3>3. ASSUME NEW s \in SUBSET S, s # {}
          PROVE  /\ f[Pick(s)] + h[s \ {Pick(s)}] \in Nat
                 /\ s \ {Pick(s)} \in SUBSET S
                 /\ Cardinality(s) = Cardinality(s \ {Pick(s)}) + 1
                 /\ Cardinality(s \ {Pick(s)}) \in Nat
      <4>1. /\ Pick(s) \in S /\ s \ {Pick(s)} \in SUBSET S
            /\ Cardinality(s) = Cardinality(s \ {Pick(s)}) + 1
            /\ Cardinality(s \ {Pick(s)}) \in Nat
        BY <3>3, PickOne
      <4>2. f[Pick(s)] \in Nat /\ h[s \ {Pick(s)}] \in Nat
        BY <3>2, <4>1
      <4>. QED
        BY <4>1, <4>2
    <3>4. k \in [SUBSET S -> Nat]
      BY <1>0, <2>3, <3>2, <3>3
    <3>5. ASSUME NEW s \in SUBSET S, Cardinality(s) <= n PROVE Eq(k, s)
      <4>1. CASE Cardinality(s) = n
        <5>1. s # {} /\ Cardinality(s \ {Pick(s)}) # n
          BY <1>0, <2>3, <3>3, <4>1
        <5>. QED
          BY <3>3, <4>1, <5>1
      <4>2. CASE Cardinality(s) # n
        <5>1. Cardinality(s) <= n - 1 /\ k[s] = h[s] /\ n \in Nat
          BY <1>0, <3>1, <3>5, <4>2
        <5>2. CASE s = {}
          BY <3>2, <5>1, <5>2
        <5>3. CASE s # {}
          <6>1. Cardinality(s \ {Pick(s)}) # n /\ s \ {Pick(s)} \in SUBSET S
            BY <1>0, <3>3, <5>1, <5>3
          <6>2. k[s \ {Pick(s)}] = h[s \ {Pick(s)}]
            BY <6>1
          <6>3. Eq(h, s)
            BY <3>2, <5>1
          <6>. QED
            BY <5>1, <5>3, <6>2, <6>3
        <5>. QED
          BY <5>2, <5>3
      <4>. QED
        BY <4>1, <4>2
    <3>6. Upto(k, n)
      BY <3>5
    <3>. QED
      BY <2>1, <3>4, <3>6
  <2>. QED
    BY <2>2, <2>3
<1>2. Cardinality(S) \in Nat /\ \A s \in SUBSET S : Cardinality(s) <= Cardinality(S)
  BY FS_Subset, FS_CardinalityType
<1>3. PICK h \in [SUBSET S -> Nat] : Upto(h, Cardinality(S))
  BY <1>1, <1>2
<1>4. \A s \in SUBSET S : Eq(h, s)
  BY <1>2, <1>3
<1>5. h = [s \in SUBSET S |-> IF s = {} THEN 0 ELSE f[Pick(s)] + h[s \ {Pick(s)}]]
  BY <1>4
<1>. QED
  BY <1>5 DEF Sums

\* h holds the sum of f over each subset of S.
Table(f, S, h) ==
  /\ h[{}] = 0
  /\ \A s \in SUBSET S : h[s] \in Nat
  /\ \A s \in SUBSET S : s # {} => h[s] = f[Pick(s)] + h[s \ {Pick(s)}]

\* So SumOver is the sum, one element at a time.
LEMMA SumIs ==
  ASSUME NEW S, IsFiniteSet(S), NEW f, \A x \in S : f[x] \in Nat
  PROVE  \E h : SumOver(f, S) = h[S] /\ Table(f, S, h)
<1>1. \E h : Sums(f, S, h)
  BY SumsExist
<1>2. Sums(f, S, CHOOSE h : Sums(f, S, h))
  BY <1>1, Zenon
<1>3. SumOver(f, S) = (CHOOSE h : Sums(f, S, h))[S]
  BY DEF SumOver, MapThenSumSet, MapThenFoldSet, Sums, Pick
<1>4. PICK h : Sums(f, S, h) /\ SumOver(f, S) = h[S]
  BY <1>2, <1>3
<1>5. /\ h[{}] = 0
      /\ \A s \in SUBSET S : s # {} => h[s] = f[Pick(s)] + h[s \ {Pick(s)}]
  BY <1>4 DEF Sums
<1>6. \A s \in SUBSET S : h[s] \in Nat
  <2> DEFINE G == {s \in SUBSET S : h[s] \in Nat}
  <2>1. {} \in G
    BY <1>5
  <2>2. ASSUME NEW s \in SUBSET S, s # {}, s \ {Pick(s)} \in G PROVE s \in G
    <3>1. Pick(s) \in S
      BY <2>2, PickOne
    <3>. QED
      BY <1>5, <2>2, <3>1
  <2>3. \A s \in SUBSET S : s \in G
    <3> HIDE DEF G
    <3>. QED
      BY <2>1, <2>2, SubsetInduction
  <2>. QED
    BY <2>3
<1>. QED
  BY <1>4, <1>5, <1>6 DEF Table

\* Over the finite set S, g is f with v added at a.
GrownAt(f, g, S, a, v) ==
  /\ IsFiniteSet(S) /\ v \in Nat
  /\ \A x \in S : f[x] \in Nat
  /\ \A x \in S : x # a => g[x] = f[x]
  /\ a \in S => g[a] = f[a] + v

\* One term grows by v, and so does the sum, if the term belongs to it.
LEMMA SumGrows ==
  ASSUME NEW S, NEW f, NEW g, NEW a, NEW v, GrownAt(f, g, S, a, v)
  PROVE  /\ SumOver(f, S) \in Nat
         /\ a \in S => SumOver(g, S) = SumOver(f, S) + v
         /\ a \notin S => SumOver(g, S) = SumOver(f, S)
<1>0. /\ IsFiniteSet(S) /\ v \in Nat
      /\ \A x \in S : f[x] \in Nat
      /\ \A x \in S : x # a => g[x] = f[x]
      /\ a \in S => g[a] = f[a] + v
  BY DEF GrownAt
<1>1. \A x \in S : g[x] \in Nat
  <2>1. ASSUME NEW x \in S PROVE g[x] \in Nat
    <3>1. CASE x = a
      BY <1>0, <3>1
    <3>2. CASE x # a
      BY <1>0, <3>2
    <3>. QED
      BY <3>1, <3>2
  <2>. QED
    BY <2>1
<1>2. PICK hf : SumOver(f, S) = hf[S] /\ Table(f, S, hf)
  BY <1>0, SumIs
<1>3. PICK hg : SumOver(g, S) = hg[S] /\ Table(g, S, hg)
  BY <1>0, <1>1, SumIs
<1> DEFINE G == {s \in SUBSET S : hg[s] = IF a \in s THEN hf[s] + v ELSE hf[s]}
<1>4. {} \in G
  BY <1>2, <1>3 DEF Table
<1>5. ASSUME NEW s \in SUBSET S, s # {}, s \ {Pick(s)} \in G PROVE s \in G
  <2>1. Pick(s) \in s /\ Pick(s) \in S /\ s \ {Pick(s)} \in SUBSET S
    BY <1>0, <1>5, PickOne
  <2>2. /\ hf[s] = f[Pick(s)] + hf[s \ {Pick(s)}] /\ hg[s] = g[Pick(s)] + hg[s \ {Pick(s)}]
        /\ hf[s \ {Pick(s)}] \in Nat /\ f[Pick(s)] \in Nat
        /\ g[Pick(s)] = IF Pick(s) = a THEN f[Pick(s)] + v ELSE f[Pick(s)]
    BY <1>0, <1>2, <1>3, <1>5, <2>1 DEF Table
  <2>3. hg[s \ {Pick(s)}] =
          IF a \in s \ {Pick(s)} THEN hf[s \ {Pick(s)}] + v ELSE hf[s \ {Pick(s)}]
    BY <1>5
  <2>4. CASE a = Pick(s)
    <3>1. a \in s /\ a \notin s \ {Pick(s)}
      BY <2>1, <2>4
    <3>2. hg[s] = hf[s] + v
      BY <1>0, <2>2, <2>3, <2>4, <3>1
    <3>. QED
      BY <3>1, <3>2
  <2>5. CASE a # Pick(s)
    <3>1. a \in s <=> a \in s \ {Pick(s)}
      BY <2>5
    <3>2. hg[s] = IF a \in s THEN hf[s] + v ELSE hf[s]
      BY <1>0, <2>2, <2>3, <2>5, <3>1
    <3>. QED
      BY <3>2
  <2>. QED
    BY <2>4, <2>5
<1>6. S \in G
  <2> HIDE DEF G
  <2>. QED
    BY <1>0, <1>4, <1>5, SubsetInduction
<1>. QED
  BY <1>0, <1>2, <1>3, <1>6 DEF Table

\* A sum of zeros.
LEMMA SumZero ==
  ASSUME NEW S, IsFiniteSet(S), NEW f, \A x \in S : f[x] = 0
  PROVE  SumOver(f, S) = 0
<1>0. \A x \in S : f[x] \in Nat
  OBVIOUS
<1>1. PICK h : SumOver(f, S) = h[S] /\ Table(f, S, h)
  BY <1>0, SumIs
<1> DEFINE G == {s \in SUBSET S : h[s] = 0}
<1>2. {} \in G
  BY <1>1 DEF Table
<1>3. ASSUME NEW s \in SUBSET S, s # {}, s \ {Pick(s)} \in G PROVE s \in G
  <2>1. Pick(s) \in S
    BY <1>3, PickOne
  <2>2. h[s] = f[Pick(s)] + h[s \ {Pick(s)}]
    BY <1>1, <1>3 DEF Table
  <2>3. f[Pick(s)] = 0 /\ h[s \ {Pick(s)}] = 0
    BY <1>3, <2>1
  <2>. QED
    BY <2>2, <2>3
<1>4. S \in G
  <2> HIDE DEF G
  <2>. QED
    BY <1>2, <1>3, SubsetInduction
<1>. QED
  BY <1>1, <1>4

-----------------------------------------------------------------------------
(* Counters and what is owed to them *)

\* A counter that adds w[r] for each request r of the kinds in R, when the
\* goroutines in D have yet to add theirs.
Owed(D, rq, R, w) ==
  [g \in Goroutines |-> IF g \in D /\ rq[g] \in R THEN w[rq[g]] ELSE 0]

Weighted(w, sv) == [r \in Requests |-> w[r] * sv[r]]

Balance(c, D, rq, sv, R, w) ==
  c + SumOver(Owed(D, rq, R, w), Goroutines) = SumOver(Weighted(w, sv), R)

\* There are finitely many kinds of requests.
LEMMA RequestsFinite == IsFiniteSet(Requests) /\ \A R \in SUBSET Requests : IsFiniteSet(R)
<1>1. IsFiniteSet(Durations)
  BY MetricsAssumption
<1>2. IsFiniteSet(Ops) /\ IsFiniteSet(Statuses)
  <2>1. IsFiniteSet({"ingest"}) /\ IsFiniteSet({200})
    BY FS_Singleton
  <2>2. IsFiniteSet({"ingest"} \cup {"other"}) /\ IsFiniteSet({200} \cup {404})
    BY <2>1, FS_AddElement
  <2>3. Ops = {"ingest"} \cup {"other"} /\ Statuses = {200} \cup {404}
    BY DEF Ops, Statuses
  <2>. QED
    BY <2>2, <2>3
<1> DEFINE P == Ops \X Statuses
           Q == P \X Durations
           f == [q \in Q |-> [op |-> q[1][1], status |-> q[1][2], d |-> q[2]]]
<1>3. IsFiniteSet(P)
  BY <1>2, FS_Product
<1>4. IsFiniteSet(Q)
  <2> HIDE DEF P
  <2>. QED
    BY <1>1, <1>3, FS_Product
<1>5. f \in Surjection(Q, Requests)
  <2>1. ASSUME NEW r \in Requests PROVE \E q \in Q : f[q] = r
    <3>1. r = [op |-> r.op, status |-> r.status, d |-> r.d]
          /\ r.op \in Ops /\ r.status \in Statuses /\ r.d \in Durations
      BY DEF Requests
    <3>2. <<<<r.op, r.status>>, r.d>> \in Q
      BY <3>1
    <3>3. f[<<<<r.op, r.status>>, r.d>>] = r
      BY <3>1, <3>2
    <3>. QED
      BY <3>2, <3>3
  <2>2. f \in [Q -> Requests]
    BY DEF Requests
  <2>. QED
    BY <2>1, <2>2 DEF Surjection
<1>6. IsFiniteSet(Requests)
  <2> HIDE DEF f, Q
  <2>. QED
    BY <1>4, <1>5, FS_Surjection
<1>. QED
  BY <1>6, FS_Subset

\* What is owed is a number.
LEMMA OwedIsNat ==
  ASSUME NEW D, NEW rq, NEW R \in SUBSET Requests, NEW w \in [Requests -> Nat]
  PROVE  \A g \in Goroutines : Owed(D, rq, R, w)[g] \in Nat
  BY DEF Owed

\* A step that changes neither the counter nor who owes it what.
LEMMA BalanceKept ==
  ASSUME NEW c, NEW D, NEW E, NEW rq, NEW rq2, NEW sv, NEW R, NEW w,
         Balance(c, D, rq, sv, R, w),
         \A g \in Goroutines : (g \in E <=> g \in D) /\ (g \in D => rq2[g] = rq[g])
  PROVE  Balance(c, E, rq2, sv, R, w)
<1>1. Owed(E, rq2, R, w) = Owed(D, rq, R, w)
  BY DEF Owed
<1>. QED
  BY <1>1 DEF Balance

\* Goroutine g, which owes nothing, takes the request q.
Taken(D, E, rq, rq2, sv, sv2, g, q) ==
  /\ g \in Goroutines /\ q \in Requests /\ sv \in [Requests -> Nat]
  /\ g \notin D /\ g \in E /\ rq2[g] = q
  /\ \A h \in Goroutines : h # g => (h \in E <=> h \in D) /\ rq2[h] = rq[h]
  /\ sv2 = [sv EXCEPT ![q] = @ + 1]

\* A request begins: it is owed.
LEMMA BalanceBegun ==
  ASSUME NEW D, NEW E, NEW rq, NEW rq2, NEW sv, NEW sv2, NEW g, NEW q,
         Taken(D, E, rq, rq2, sv, sv2, g, q),
         NEW c \in Nat, NEW R \in SUBSET Requests, NEW w \in [Requests -> Nat],
         Balance(c, D, rq, sv, R, w)
  PROVE  Balance(c, E, rq2, sv2, R, w)
<1> DEFINE v == IF q \in R THEN w[q] ELSE 0
           f == Owed(D, rq, R, w)
           k == Owed(E, rq2, R, w)
           m == [r \in Requests |-> w[r] * sv[r]]
           n == [r \in Requests |-> w[r] * sv2[r]]
<1>0. /\ g \in Goroutines /\ q \in Requests /\ sv \in [Requests -> Nat]
      /\ g \notin D /\ g \in E /\ rq2[g] = q
      /\ \A h \in Goroutines : h # g => (h \in E <=> h \in D) /\ rq2[h] = rq[h]
      /\ sv2 = [sv EXCEPT ![q] = @ + 1]
  BY DEF Taken
<1>1. v \in Nat /\ IsFiniteSet(Goroutines) /\ IsFiniteSet(R) /\ \A h \in Goroutines : f[h] \in Nat
  BY <1>0, MetricsAssumption, RequestsFinite, OwedIsNat
<1>2. k[g] = f[g] + v /\ \A h \in Goroutines : h # g => k[h] = f[h]
  BY <1>0 DEF Owed
<1>3. ASSUME NEW r \in R
      PROVE  m[r] \in Nat /\ n[r] = IF r = q THEN m[r] + w[q] ELSE m[r]
  <2>1. w[r] \in Nat /\ sv[r] \in Nat /\ r \in Requests
    BY <1>0
  <2>2. \A a, b \in Nat : a * b \in Nat /\ a * (b + 1) = (a * b) + a
    OBVIOUS
  <2>3. sv2[r] = IF r = q THEN sv[r] + 1 ELSE sv[r]
    BY <1>0, <2>1
  <2>. QED
    BY <2>1, <2>2, <2>3
<1> HIDE DEF f, k, m, n, v
<1>4. SumOver(f, Goroutines) \in Nat /\ SumOver(k, Goroutines) = SumOver(f, Goroutines) + v
  <2>1. GrownAt(f, k, Goroutines, g, v)
    BY <1>0, <1>1, <1>2 DEF GrownAt
  <2>. QED
    BY <1>0, <2>1, SumGrows
<1>5. /\ SumOver(m, R) \in Nat
      /\ SumOver(n, R) = IF q \in R THEN SumOver(m, R) + w[q] ELSE SumOver(m, R)
  <2>1. /\ w[q] \in Nat
        /\ \A r \in R : m[r] \in Nat
        /\ \A r \in R : n[r] = IF r = q THEN m[r] + w[q] ELSE m[r]
    BY <1>0, <1>3
  <2>2. PICK u : u = w[q]
    OBVIOUS
  <2>3. /\ u \in Nat
        /\ q \in R => n[q] = m[q] + u
        /\ \A r \in R : r # q => n[r] = m[r]
    BY <2>1, <2>2
  <2>4. /\ SumOver(m, R) \in Nat
        /\ q \in R => SumOver(n, R) = SumOver(m, R) + u
        /\ q \notin R => SumOver(n, R) = SumOver(m, R)
    <3>1. GrownAt(m, n, R, q, u)
      BY <1>1, <2>1, <2>3 DEF GrownAt
    <3>. QED
      BY <3>1, SumGrows
  <2>. QED
    BY <2>2, <2>4
<1>6. c + SumOver(f, Goroutines) = SumOver(m, R)
  BY DEF Balance, Weighted, f, m
<1>7. c + SumOver(k, Goroutines) = SumOver(n, R)
  BY <1>1, <1>4, <1>5, <1>6 DEF v
<1>. QED
  BY <1>7 DEF Balance, Weighted, k, n

\* A goroutine adds what it owes.
LEMMA BalancePaid ==
  ASSUME NEW c \in Nat, NEW e, NEW D, NEW E, NEW rq, NEW sv, NEW R \in SUBSET Requests,
         NEW w \in [Requests -> Nat], Balance(c, D, rq, sv, R, w),
         NEW g \in Goroutines, g \in D, g \notin E, rq[g] \in Requests,
         \A h \in Goroutines : h # g => (h \in E <=> h \in D),
         e = IF rq[g] \in R THEN c + w[rq[g]] ELSE c
  PROVE  Balance(e, E, rq, sv, R, w)
<1> DEFINE v == IF rq[g] \in R THEN w[rq[g]] ELSE 0
           f == Owed(D, rq, R, w)
           k == Owed(E, rq, R, w)
<1>1. v \in Nat /\ IsFiniteSet(Goroutines) /\ \A h \in Goroutines : k[h] \in Nat
  BY MetricsAssumption, OwedIsNat
<1>2. f[g] = k[g] + v /\ \A h \in Goroutines : h # g => f[h] = k[h]
  BY DEF Owed
<1>3. e = c + v
  OBVIOUS
<1> HIDE DEF f, k, v
<1>4. SumOver(k, Goroutines) \in Nat /\ SumOver(f, Goroutines) = SumOver(k, Goroutines) + v
  <2>1. GrownAt(k, f, Goroutines, g, v)
    BY <1>1, <1>2 DEF GrownAt
  <2>. QED
    BY <2>1, SumGrows
<1>5. e + SumOver(k, Goroutines) = c + SumOver(f, Goroutines)
  BY <1>1, <1>3, <1>4
<1>. QED
  BY <1>5 DEF Balance, f, k

\* Nobody owes anything.
LEMMA BalanceQuiet ==
  ASSUME NEW c \in Nat, NEW D, NEW rq, NEW sv, NEW R, NEW w, Balance(c, D, rq, sv, R, w),
         \A g \in Goroutines : g \notin D
  PROVE  c = SumOver(Weighted(w, sv), R)
<1> DEFINE f == Owed(D, rq, R, w)
<1>1. \A g \in Goroutines : f[g] = 0
  BY DEF Owed
<1>2. IsFiniteSet(Goroutines)
  BY MetricsAssumption
<1> HIDE DEF f
<1>3. SumOver(f, Goroutines) = 0
  BY <1>1, <1>2, SumZero
<1>. QED
  BY <1>3 DEF Balance, f

\* How far a goroutine is in the updates of a request; a scrape reads first.
Stage(l) ==
  IF l = "idle" THEN 9 ELSE IF l = "bucket" THEN 8 ELSE IF l = "buckets" THEN 7
  ELSE IF l = "count" THEN 6 ELSE IF l = "sum" THEN 5 ELSE IF l = "class" THEN 4
  ELSE IF l = "status" THEN 3 ELSE IF l = "duration" THEN 2 ELSE 1

\* The goroutines that have yet to make the k-th update, and those that have
\* yet to come to bucket i.
Owing(k) == {g \in Goroutines : Stage(pc[g]) <= k}

OwingBucket(i) ==
  {g \in Goroutines : Stage(pc[g]) <= 7 \/ (Stage(pc[g]) = 8 /\ idx[g] <= i)}

One == [r \in Requests |-> 1]
Time == [r \in Requests |-> r.d]

OfStatus(s) == {r \in Requests : r.status = s}
OfOp(op) == {r \in Requests : r.op = op}
OfClass(op, class) == {r \in Requests : r.op = op /\ classifyStatusClass(r.status) = class}
WithinBound(op, i) == {r \in Requests : r.op = op /\ r.d <= Bounds[i]}

Bucket(op, i) == IF buckets[op] = Nil THEN 0 ELSE buckets[op][i]

\* The counters that no scrape relates.
LedgerTypes ==
  /\ byStatus \in [Statuses -> Nat]
  /\ byClass \in [Ops \X Classes -> Nat]
  /\ sum \in [Ops -> Nat \cup {Nil}]
  /\ served \in [Requests -> Nat]

\* Each counter, with what the goroutines still owe it, adds up to what was
\* served.
TotalDue == Balance(total, Owing(1), req, served, Requests, One)
DurationDue == Balance(duration, Owing(2), req, served, Requests, Time)
StatusDue ==
  \A s \in Statuses : Balance(byStatus[s], Owing(3), req, served, OfStatus(s), One)
ClassDue ==
  \A op \in Ops, class \in Classes :
    Balance(byClass[<<op, class>>], Owing(4), req, served, OfClass(op, class), One)
SumDue == \A op \in Ops : Balance(Loaded(sum[op]), Owing(5), req, served, OfOp(op), Time)
CountDue == \A op \in Ops : Balance(Loaded(count[op]), Owing(6), req, served, OfOp(op), One)
BucketDue ==
  \A op \in Ops, i \in DOMAIN Bounds :
    Balance(Bucket(op, i), OwingBucket(i), req, served, WithinBound(op, i), One)

\* An operation that was counted has its buckets, or is about to get them.
BucketsFollow ==
  \A op \in Ops : count[op] # Nil =>
    buckets[op] # Nil \/ \E g \in Goroutines : pc[g] = "buckets" /\ req[g].op = op

Ledger ==
  /\ LedgerTypes
  /\ TotalDue /\ DurationDue /\ StatusDue /\ ClassDue /\ SumDue /\ CountDue /\ BucketDue
  /\ BucketsFollow

\* A step of a goroutine that serves a request.
Advance(g) ==
  /\ served' = served
  /\ \A h \in Goroutines : h # g => pc'[h] = pc[h] /\ req'[h] = req[h] /\ idx'[h] = idx[h]
  /\ Stage(pc'[g]) \in {Stage(pc[g]), Stage(pc[g]) + 1}
  /\ Stage(pc[g]) <= 8
  /\ Stage(pc'[g]) <= 8 => req'[g] = req[g]

\* A goroutine takes a request.
Begun(g, q) ==
  /\ Stage(pc[g]) = 9 /\ Stage(pc'[g]) = 1 /\ req'[g] = q
  /\ \A h \in Goroutines : h # g => pc'[h] = pc[h] /\ req'[h] = req[h] /\ idx'[h] = idx[h]
  /\ served' = [served EXCEPT ![q] = @ + 1]
  /\ UNCHANGED counters

\* A step of g that is not the k-th update.
Passes(g, k) == Advance(g) /\ (Stage(pc[g]) # k \/ Stage(pc'[g]) = Stage(pc[g]))

\* Stages are numbers, and a goroutine has one of them.
LEMMA StageIs ==
  /\ \A l \in Labels : Stage(l) \in 1..9
  /\ Stage("idle") = 9 /\ Stage("bucket") = 8 /\ Stage("buckets") = 7 /\ Stage("count") = 6
  /\ Stage("sum") = 5 /\ Stage("class") = 4 /\ Stage("status") = 3 /\ Stage("duration") = 2
  /\ Stage("total") = 1 /\ Stage("scrape") = 1 /\ Stage("readDuration") = 1
  /\ Stage("range") = 1 /\ Stage("readBucket") = 1 /\ Stage("readCount") = 1
  /\ \A l \in Labels : (Stage(l) = 9 <=> l = "idle") /\ (Stage(l) = 8 <=> l = "bucket")
                       /\ (Stage(l) = 7 <=> l = "buckets")
  BY DEF Stage, Labels

\* One and Time are weights of requests.
LEMMA Weights ==
  /\ One \in [Requests -> Nat] /\ Time \in [Requests -> Nat]
  /\ \A r \in Requests : One[r] = 1 /\ Time[r] = r.d /\ r.d \in Nat
  BY NilIsNone DEF One, Time, Requests

\* A step that is not the k-th update leaves the k-th counter balanced.
LEMMA CounterKept ==
  ASSUME MetricsTypes, NEW g \in Goroutines, NEW k \in 1..6, Passes(g, k),
         NEW c, NEW R, NEW w, Balance(c, Owing(k), req, served, R, w)
  PROVE  Balance(c, Owing(k)', req', served', R, w)
<1>1. ASSUME NEW h \in Goroutines
      PROVE  (h \in Owing(k)' <=> h \in Owing(k)) /\ (h \in Owing(k) => req'[h] = req[h])
  <2>1. CASE h = g
    <3>1. Stage(pc[g]) \in 1..9
      BY StageIs DEF MetricsTypes
    <3>2. /\ Stage(pc'[g]) \in {Stage(pc[g]), Stage(pc[g]) + 1}
          /\ Stage(pc[g]) # k \/ Stage(pc'[g]) = Stage(pc[g])
          /\ Stage(pc'[g]) <= 8 => req'[g] = req[g]
      BY DEF Passes, Advance
    <3>3. Stage(pc'[g]) <= k <=> Stage(pc[g]) <= k
      BY <3>1, <3>2
    <3>4. Stage(pc[g]) <= k => req'[g] = req[g]
      BY <3>1, <3>2, <3>3
    <3>. QED
      BY <2>1, <3>3, <3>4 DEF Owing
  <2>2. CASE h # g
    BY <2>2 DEF Passes, Advance, Owing
  <2>. QED
    BY <2>1, <2>2
<1>2. served' = served
  BY DEF Passes, Advance
<1>. QED
  BY <1>1, <1>2, BalanceKept

\* A step that begins a request leaves every counter balanced.
LEMMA CounterBegun ==
  ASSUME MetricsTypes, LedgerTypes, NEW g \in Goroutines, NEW q \in Requests, Begun(g, q),
         NEW k \in 1..6, NEW c \in Nat, NEW R \in SUBSET Requests, NEW w \in [Requests -> Nat],
         Balance(c, Owing(k), req, served, R, w)
  PROVE  Balance(c, Owing(k)', req', served', R, w)
<1>1. g \notin Owing(k) /\ g \in Owing(k)' /\ req'[g] = q
  BY DEF Begun, Owing
<1>2. \A h \in Goroutines : h # g => (h \in Owing(k)' <=> h \in Owing(k)) /\ req'[h] = req[h]
  BY DEF Begun, Owing
<1>3. served' = [served EXCEPT ![q] = @ + 1] /\ served \in [Requests -> Nat]
  BY DEF Begun, LedgerTypes
<1>4. Taken(Owing(k), Owing(k)', req, req', served, served', g, q)
  BY <1>1, <1>2, <1>3 DEF Taken
<1>. QED
  BY <1>4, BalanceBegun

\* The k-th update pays what the goroutine owes the k-th counter.
LEMMA CounterPaid ==
  ASSUME MetricsTypes, NEW g \in Goroutines, NEW k \in 1..6, Advance(g),
         Stage(pc[g]) = k, Stage(pc'[g]) = k + 1,
         NEW c \in Nat, NEW e, NEW R \in SUBSET Requests, NEW w \in [Requests -> Nat],
         Balance(c, Owing(k), req, served, R, w),
         e = IF req[g] \in R THEN c + w[req[g]] ELSE c
  PROVE  Balance(e, Owing(k)', req', served', R, w)
<1>1. g \in Owing(k) /\ g \notin Owing(k)' /\ req[g] \in Requests
  BY StageIs DEF Owing, MetricsTypes
<1>2. \A h \in Goroutines : h # g => (h \in Owing(k)' <=> h \in Owing(k))
  BY DEF Advance, Owing
<1>3. Balance(e, Owing(k)', req, served, R, w)
  BY <1>1, <1>2, BalancePaid
<1>4. served' = served /\ \A h \in Goroutines : req'[h] = req[h]
  BY DEF Advance
<1>. QED
  BY <1>3, <1>4, BalanceKept

\* The steps of a goroutine that serves a request.
Working(g) ==
  \/ AddTotal(g) \/ AddDuration(g) \/ AddStatus(g) \/ AddClass(g)
  \/ AddSum(g) \/ AddCount(g) \/ LoadBuckets(g) \/ AddBucket(g)
  \/ ReadTotal(g) \/ ReadDuration(g) \/ RangeOp(g) \/ ReadBucket(g) \/ ReadCount(g)

\* A step of the middleware or of a scrape moves its goroutine on by at most
\* one stage.
LEMMA WorkingAdvances ==
  ASSUME MetricsTypes, NEW g \in Goroutines, Working(g)
  PROVE  Advance(g)
<1> USE DEF MetricsTypes, Goto
<1>1. ASSUME NEW l \in Labels \ {"idle"}, pc' = [pc EXCEPT ![g] = l],
             served' = served, req' = req,
             \A h \in Goroutines : h # g => idx'[h] = idx[h],
             Stage(l) \in {Stage(pc[g]), Stage(pc[g]) + 1}, pc[g] # "idle"
      PROVE  Advance(g)
  <2>1. Stage(pc[g]) <= 8
    BY <1>1, StageIs
  <2>. QED
    BY <1>1, <2>1 DEF Advance
<1>2. ASSUME \/ AddTotal(g) \/ AddDuration(g) \/ AddStatus(g)
             \/ AddClass(g) \/ AddSum(g) \/ AddCount(g)
      PROVE  Advance(g)
  <2>1. served' = served /\ req' = req /\ idx' = idx /\ pc[g] # "idle"
    BY <1>2 DEF AddTotal, AddDuration, AddStatus, AddClass, AddSum, AddCount
  <2>2. \E l \in Labels \ {"idle"} :
          pc' = [pc EXCEPT ![g] = l] /\ Stage(l) = Stage(pc[g]) + 1
    BY <1>2, StageIs DEF AddTotal, AddDuration, AddStatus, AddClass, AddSum, AddCount, Labels
  <2>. QED
    BY <1>1, <2>1, <2>2
<1>3. CASE LoadBuckets(g)
  <2>1. /\ served' = served /\ req' = req
        /\ pc[g] = "buckets" /\ pc' = [pc EXCEPT ![g] = "bucket"]
        /\ idx' = [idx EXCEPT ![g] = 1]
    BY <1>3 DEF LoadBuckets
  <2>2. \A h \in Goroutines : h # g => idx'[h] = idx[h]
    BY <2>1
  <2>3. "bucket" \in Labels \ {"idle"} /\ Stage("bucket") = Stage(pc[g]) + 1
    BY <2>1, StageIs DEF Labels
  <2>. QED
    BY <1>1, <2>1, <2>2, <2>3
<1>4. CASE AddBucket(g)
  <2>1. /\ served' = served /\ pc[g] = "bucket"
        /\ \A h \in Goroutines : h # g => idx'[h] = idx[h]
    BY <1>4 DEF AddBucket
  <2>2. CASE pc' = pc /\ req' = req
    BY <2>1, <2>2, StageIs DEF Advance
  <2>3. CASE pc' = [pc EXCEPT ![g] = "idle"] /\ req' = [req EXCEPT ![g] = Nil]
    BY <2>1, <2>3, StageIs DEF Advance
  <2>. QED
    BY <1>4, <2>2, <2>3 DEF AddBucket
<1>5. ASSUME ReadTotal(g) \/ ReadDuration(g) \/ RangeOp(g) \/ ReadBucket(g) \/ ReadCount(g)
      PROVE  Advance(g)
  <2>1. served' = served /\ req' = req /\ idx' = idx /\ pc[g] # "idle" /\ Stage(pc[g]) = 1
    BY <1>5, StageIs DEF ReadTotal, ReadDuration, RangeOp, ReadBucket, ReadCount
  <2>2. \E l \in Labels \ {"idle"} : pc' = [pc EXCEPT ![g] = l] /\ Stage(l) = 1
    BY <1>5, StageIs DEF ReadTotal, ReadDuration, RangeOp, ReadBucket, ReadCount, Labels
  <2>. QED
    BY <1>1, <2>1, <2>2
<1>. QED
  BY <1>2, <1>3, <1>4, <1>5 DEF Working

\* Each counter has one update, which is the step that changes it.
LEMMA OneUpdateEach ==
  ASSUME MetricsTypes, NEW g \in Goroutines, Working(g)
  PROVE  /\ AddTotal(g) \/ (total' = total /\ Passes(g, 1))
         /\ AddDuration(g) \/ (duration' = duration /\ Passes(g, 2))
         /\ AddStatus(g) \/ (byStatus' = byStatus /\ Passes(g, 3))
         /\ AddClass(g) \/ (byClass' = byClass /\ Passes(g, 4))
         /\ AddSum(g) \/ (sum' = sum /\ Passes(g, 5))
         /\ AddCount(g) \/ (count' = count /\ Passes(g, 6))
<1>0. Advance(g)
  BY WorkingAdvances
<1>1. CASE AddTotal(g)
  BY <1>0, <1>1, StageIs DEF AddTotal, Passes
<1>2. CASE AddDuration(g)
  BY <1>0, <1>2, StageIs DEF AddDuration, Passes
<1>3. CASE AddStatus(g)
  BY <1>0, <1>3, StageIs DEF AddStatus, Passes
<1>4. CASE AddClass(g)
  BY <1>0, <1>4, StageIs DEF AddClass, Passes
<1>5. CASE AddSum(g)
  BY <1>0, <1>5, StageIs DEF AddSum, Passes
<1>6. CASE AddCount(g)
  BY <1>0, <1>6, StageIs DEF AddCount, Passes
<1>7. CASE LoadBuckets(g)
  BY <1>0, <1>7, StageIs DEF LoadBuckets, Passes
<1>8. CASE AddBucket(g)
  BY <1>0, <1>8, StageIs DEF AddBucket, Passes
<1>9. ASSUME ReadTotal(g) \/ ReadDuration(g) \/ RangeOp(g) \/ ReadBucket(g) \/ ReadCount(g)
      PROVE  UNCHANGED counters /\ \A k \in 1..6 : Passes(g, k)
  <2>1. UNCHANGED counters /\ Stage(pc[g]) = 1
    BY <1>9, StageIs DEF ReadTotal, ReadDuration, RangeOp, ReadBucket, ReadCount
  <2>2. Stage(pc'[g]) = 1
    BY <1>9, StageIs
       DEF ReadTotal, ReadDuration, RangeOp, ReadBucket, ReadCount, Goto, MetricsTypes
  <2>. QED
    BY <1>0, <2>1, <2>2 DEF Passes
<1>. QED
  BY <1>1, <1>2, <1>3, <1>4, <1>5, <1>6, <1>7, <1>8, <1>9 DEF Working, counters

\* A step serves a request, takes one or leaves everything as it is.
LEMMA StepKinds ==
  ASSUME MetricsTypes, [Next]_vars
  PROVE  \/ UNCHANGED vars
         \/ \E g \in Goroutines, q \in Requests : Begun(g, q)
         \/ \E g \in Goroutines : Working(g)
<1>1. ASSUME NEW g \in Goroutines, NEW op \in Ops, NEW s \in Statuses, NEW d \in Durations,
             NEW l \in {"total", "scrape"}, Begin(g, op, s, d, l)
      PROVE  \E q \in Requests : Begun(g, q)
  <2> DEFINE q == [op |-> op, status |-> s, d |-> d]
  <2>1. q \in Requests
    BY DEF Requests
  <2>2. Begun(g, q)
    <3>1. /\ pc[g] = "idle" /\ pc' = [pc EXCEPT ![g] = l] /\ req' = [req EXCEPT ![g] = q]
          /\ served' = [served EXCEPT ![req'[g]] = @ + 1] /\ UNCHANGED <<counters, idx>>
      BY <1>1 DEF Begin, Goto
    <3>2. req'[g] = q /\ pc'[g] = l
          /\ \A h \in Goroutines : h # g => pc'[h] = pc[h] /\ req'[h] = req[h] /\ idx'[h] = idx[h]
      BY <3>1 DEF MetricsTypes
    <3>3. served' = [served EXCEPT ![q] = @ + 1]
      BY <3>1, <3>2
    <3>4. Stage(pc[g]) = 9 /\ Stage(pc'[g]) = 1
      BY <3>1, <3>2, StageIs
    <3> HIDE DEF q
    <3>. QED
      BY <3>1, <3>2, <3>3, <3>4 DEF Begun
  <2>. QED
    BY <2>1, <2>2
<1>. QED
  BY <1>1, MetricsCases DEF Working

\* Types of the other counters are kept.
LEMMA LedgerTypeStep ==
  ASSUME MetricsTypes, LedgerTypes, [Next]_vars
  PROVE  LedgerTypes'
<1>1. CASE UNCHANGED vars
  BY <1>1 DEF vars, LedgerTypes
<1>2. ASSUME NEW g \in Goroutines, NEW q \in Requests, Begun(g, q) PROVE LedgerTypes'
  BY <1>2 DEF Begun, LedgerTypes, counters
<1>3. ASSUME NEW g \in Goroutines, Working(g) PROVE LedgerTypes'
  <2>0. served' = served /\ Stage(pc[g]) <= 8
    BY <1>3, WorkingAdvances DEF Advance
  <2>1. req[g] \in Requests /\ req[g].op \in Ops /\ req[g].status \in Statuses /\ req[g].d \in Nat
    <3>1. req[g] \in Requests
      BY <2>0, StageIs DEF MetricsTypes
    <3>. QED
      BY <3>1, NilIsNone DEF Requests
  <2>2. byStatus' \in [Statuses -> Nat]
    <3>1. CASE AddStatus(g)
      BY <2>1, <3>1 DEF AddStatus, LedgerTypes
    <3>2. CASE ~AddStatus(g)
      BY <1>3, <3>2, OneUpdateEach DEF LedgerTypes
    <3>. QED
      BY <3>1, <3>2
  <2>3. byClass' \in [Ops \X Classes -> Nat]
    <3>1. CASE AddClass(g)
      <4> DEFINE key == <<req[g].op, classifyStatusClass(req[g].status)>>
      <4>1. byClass' = [byClass EXCEPT ![key] = @ + 1]
        BY <3>1 DEF AddClass
      <4>2. ASSUME NEW S, NEW f \in [S -> Nat], NEW x
            PROVE  [f EXCEPT ![x] = @ + 1] \in [S -> Nat]
        <5>1. CASE x \in S
          BY <5>1
        <5>2. CASE x \notin S
          BY <5>2
        <5>. QED
          BY <5>1, <5>2
      <4>3. byClass \in [Ops \X Classes -> Nat]
        BY DEF LedgerTypes
      <4> HIDE DEF key
      <4>. QED
        BY <4>1, <4>2, <4>3
    <3>2. CASE ~AddClass(g)
      BY <1>3, <3>2, OneUpdateEach DEF LedgerTypes
    <3>. QED
      BY <3>1, <3>2
  <2>4. sum' \in [Ops -> Nat \cup {Nil}]
    <3>1. CASE AddSum(g)
      <4>1. Loaded(sum[req[g].op]) + req[g].d \in Nat
        BY <2>1, NilIsNone DEF LedgerTypes, Loaded
      <4>2. sum' = [sum EXCEPT ![req[g].op] = Loaded(sum[req[g].op]) + req[g].d]
        BY <3>1 DEF AddSum
      <4>. QED
        BY <4>1, <4>2 DEF LedgerTypes
    <3>2. CASE ~AddSum(g)
      BY <1>3, <3>2, OneUpdateEach DEF LedgerTypes
    <3>. QED
      BY <3>1, <3>2
  <2>. QED
    BY <2>0, <2>2, <2>3, <2>4 DEF LedgerTypes
<1>. QED
  BY <1>1, <1>2, <1>3, StepKinds

\* A step that leaves everything as it is.
LEMMA CounterStays ==
  ASSUME UNCHANGED vars, NEW k, NEW c, NEW R, NEW w, Balance(c, Owing(k), req, served, R, w)
  PROVE  Balance(c, Owing(k)', req', served', R, w)
<1>1. Owing(k)' = Owing(k) /\ req' = req /\ served' = served
  BY DEF vars, Owing
<1>. QED
  BY <1>1

\* A step that is not the k-th update of any goroutine.
Undisturbed(k) ==
  \/ UNCHANGED vars
  \/ \E g \in Goroutines, q \in Requests : Begun(g, q)
  \/ \E g \in Goroutines : Passes(g, k)

\* Such a step keeps the balance.
LEMMA CounterUndisturbed ==
  ASSUME MetricsTypes, LedgerTypes, NEW k \in 1..6, Undisturbed(k),
         NEW c \in Nat, NEW R \in SUBSET Requests, NEW w \in [Requests -> Nat],
         Balance(c, Owing(k), req, served, R, w)
  PROVE  Balance(c, Owing(k)', req', served', R, w)
  BY CounterStays, CounterBegun, CounterKept DEF Undisturbed

\* What a step does to each counter: its update, or nothing.
LEMMA StepOnCounters ==
  ASSUME MetricsTypes, [Next]_vars
  PROVE  /\ (\E g \in Goroutines : AddTotal(g)) \/ (total' = total /\ Undisturbed(1))
         /\ (\E g \in Goroutines : AddDuration(g)) \/ (duration' = duration /\ Undisturbed(2))
         /\ (\E g \in Goroutines : AddStatus(g)) \/ (byStatus' = byStatus /\ Undisturbed(3))
         /\ (\E g \in Goroutines : AddClass(g)) \/ (byClass' = byClass /\ Undisturbed(4))
         /\ (\E g \in Goroutines : AddSum(g)) \/ (sum' = sum /\ Undisturbed(5))
         /\ (\E g \in Goroutines : AddCount(g)) \/ (count' = count /\ Undisturbed(6))
<1>1. CASE UNCHANGED vars
  BY <1>1 DEF vars, Undisturbed
<1>2. ASSUME NEW g \in Goroutines, NEW q \in Requests, Begun(g, q)
      PROVE  UNCHANGED counters /\ \A k \in 1..6 : Undisturbed(k)
  BY <1>2 DEF Begun, Undisturbed
<1>3. ASSUME NEW g \in Goroutines, Working(g)
      PROVE  /\ AddTotal(g) \/ (total' = total /\ Undisturbed(1))
             /\ AddDuration(g) \/ (duration' = duration /\ Undisturbed(2))
             /\ AddStatus(g) \/ (byStatus' = byStatus /\ Undisturbed(3))
             /\ AddClass(g) \/ (byClass' = byClass /\ Undisturbed(4))
             /\ AddSum(g) \/ (sum' = sum /\ Undisturbed(5))
             /\ AddCount(g) \/ (count' = count /\ Undisturbed(6))
  BY <1>3, OneUpdateEach, Zenon DEF Undisturbed
<1>. QED
  BY <1>1, <1>2, <1>3, StepKinds DEF counters

\* The goroutine that makes the k-th update.
LEMMA UpdateIs ==
  ASSUME MetricsTypes, NEW g \in Goroutines
  PROVE  /\ AddTotal(g) => Advance(g) /\ Stage(pc[g]) = 1 /\ Stage(pc'[g]) = 2
         /\ AddDuration(g) => Advance(g) /\ Stage(pc[g]) = 2 /\ Stage(pc'[g]) = 3
         /\ AddStatus(g) => Advance(g) /\ Stage(pc[g]) = 3 /\ Stage(pc'[g]) = 4
         /\ AddClass(g) => Advance(g) /\ Stage(pc[g]) = 4 /\ Stage(pc'[g]) = 5
         /\ AddSum(g) => Advance(g) /\ Stage(pc[g]) = 5 /\ Stage(pc'[g]) = 6
         /\ AddCount(g) => Advance(g) /\ Stage(pc[g]) = 6 /\ Stage(pc'[g]) = 7
         /\ Stage(pc[g]) <= 8 => /\ req[g] \in Requests /\ req[g].d \in Nat
                                 /\ req[g].op \in Ops /\ req[g].status \in Statuses
<1>1. Working(g) => Advance(g)
  BY WorkingAdvances
<1>2. Stage(pc[g]) <= 8 => req[g] \in Requests
  BY StageIs DEF MetricsTypes
<1>3. \A r \in Requests : r.d \in Nat /\ r.op \in Ops /\ r.status \in Statuses
  BY NilIsNone DEF Requests
<1>4. ASSUME NEW l, pc' = [pc EXCEPT ![g] = l] PROVE pc'[g] = l
  BY <1>4 DEF MetricsTypes
<1>5. AddTotal(g) => Stage(pc[g]) = 1 /\ Stage(pc'[g]) = 2
  BY <1>4, StageIs DEF AddTotal, Goto
<1>6. AddDuration(g) => Stage(pc[g]) = 2 /\ Stage(pc'[g]) = 3
  BY <1>4, StageIs DEF AddDuration, Goto
<1>7. AddStatus(g) => Stage(pc[g]) = 3 /\ Stage(pc'[g]) = 4
  BY <1>4, StageIs DEF AddStatus, Goto
<1>8. AddClass(g) => Stage(pc[g]) = 4 /\ Stage(pc'[g]) = 5
  BY <1>4, StageIs DEF AddClass, Goto
<1>9. AddSum(g) => Stage(pc[g]) = 5 /\ Stage(pc'[g]) = 6
  BY <1>4, StageIs DEF AddSum, Goto
<1>10. AddCount(g) => Stage(pc[g]) = 6 /\ Stage(pc'[g]) = 7
  BY <1>4, StageIs DEF AddCount, Goto
<1>. QED
  BY <1>1, <1>2, <1>3, <1>5, <1>6, <1>7, <1>8, <1>9, <1>10 DEF Working

\* The number of requests stays balanced.
LEMMA TotalStep ==
  ASSUME MetricsTypes, LedgerTypes, TotalDue, [Next]_vars
  PROVE  TotalDue'
<1>1. /\ Balance(total, Owing(1), req, served, Requests, One)
      /\ total \in Nat /\ Requests \in SUBSET Requests
  BY DEF TotalDue, MetricsTypes
<1>2. ASSUME NEW g \in Goroutines, AddTotal(g)
      PROVE  Balance(total', Owing(1)', req', served', Requests, One)
  <2>1. Advance(g) /\ Stage(pc[g]) = 1 /\ Stage(pc'[g]) = 1 + 1 /\ req[g] \in Requests
    BY <1>2, UpdateIs
  <2>2. total' = IF req[g] \in Requests THEN total + One[req[g]] ELSE total
    BY <1>2, <2>1, Weights DEF AddTotal
  <2>. QED
    BY <1>1, <2>1, <2>2, CounterPaid, Weights
<1>3. CASE total' = total /\ Undisturbed(1)
  BY <1>1, <1>3, CounterUndisturbed, Weights DEF TotalDue
<1>. QED
  BY <1>2, <1>3, StepOnCounters DEF TotalDue

\* The total duration stays balanced.
LEMMA DurationStep ==
  ASSUME MetricsTypes, LedgerTypes, DurationDue, [Next]_vars
  PROVE  DurationDue'
<1>1. /\ Balance(duration, Owing(2), req, served, Requests, Time)
      /\ duration \in Nat /\ Requests \in SUBSET Requests
  BY DEF DurationDue, MetricsTypes
<1>2. ASSUME NEW g \in Goroutines, AddDuration(g)
      PROVE  Balance(duration', Owing(2)', req', served', Requests, Time)
  <2>1. Advance(g) /\ Stage(pc[g]) = 2 /\ Stage(pc'[g]) = 2 + 1 /\ req[g] \in Requests
    BY <1>2, UpdateIs
  <2>2. duration' = IF req[g] \in Requests THEN duration + Time[req[g]] ELSE duration
    BY <1>2, <2>1, Weights DEF AddDuration
  <2>. QED
    BY <1>1, <2>1, <2>2, CounterPaid, Weights
<1>3. CASE duration' = duration /\ Undisturbed(2)
  BY <1>1, <1>3, CounterUndisturbed, Weights DEF DurationDue
<1>. QED
  BY <1>2, <1>3, StepOnCounters DEF DurationDue

\* So does the count of each status,
LEMMA StatusStep ==
  ASSUME MetricsTypes, LedgerTypes, StatusDue, [Next]_vars
  PROVE  StatusDue'
<1> SUFFICES ASSUME NEW s \in Statuses
             PROVE  Balance(byStatus'[s], Owing(3)', req', served', OfStatus(s), One)
  BY DEF StatusDue
<1>1. /\ Balance(byStatus[s], Owing(3), req, served, OfStatus(s), One)
      /\ byStatus[s] \in Nat /\ OfStatus(s) \in SUBSET Requests
  BY DEF StatusDue, LedgerTypes, OfStatus
<1>2. ASSUME NEW g \in Goroutines, AddStatus(g)
      PROVE  Balance(byStatus'[s], Owing(3)', req', served', OfStatus(s), One)
  <2>1. Advance(g) /\ Stage(pc[g]) = 3 /\ Stage(pc'[g]) = 3 + 1
        /\ req[g] \in Requests /\ req[g].status \in Statuses
    BY <1>2, UpdateIs
  <2>2. byStatus' = [byStatus EXCEPT ![req[g].status] = @ + 1]
    BY <1>2 DEF AddStatus
  <2>3. byStatus'[s] = IF req[g] \in OfStatus(s) THEN byStatus[s] + One[req[g]] ELSE byStatus[s]
    BY <1>1, <2>1, <2>2, Weights DEF OfStatus, LedgerTypes
  <2>. QED
    BY <1>1, <2>1, <2>3, CounterPaid, Weights
<1>3. CASE byStatus' = byStatus /\ Undisturbed(3)
  BY <1>1, <1>3, CounterUndisturbed, Weights
<1>. QED
  BY <1>2, <1>3, StepOnCounters

\* that of each operation and class of status,
LEMMA ClassStep ==
  ASSUME MetricsTypes, LedgerTypes, ClassDue, [Next]_vars
  PROVE  ClassDue'
<1> SUFFICES ASSUME NEW op \in Ops, NEW class \in Classes
             PROVE  Balance(byClass'[<<op, class>>], Owing(4)', req', served',
                            OfClass(op, class), One)
  BY DEF ClassDue
<1>1. /\ Balance(byClass[<<op, class>>], Owing(4), req, served, OfClass(op, class), One)
      /\ byClass[<<op, class>>] \in Nat /\ OfClass(op, class) \in SUBSET Requests
  BY DEF ClassDue, LedgerTypes, OfClass
<1>2. ASSUME NEW g \in Goroutines, AddClass(g)
      PROVE  Balance(byClass'[<<op, class>>], Owing(4)', req', served', OfClass(op, class), One)
  <2> DEFINE key == <<req[g].op, classifyStatusClass(req[g].status)>>
  <2>1. Advance(g) /\ Stage(pc[g]) = 4 /\ Stage(pc'[g]) = 4 + 1 /\ req[g] \in Requests
    BY <1>2, UpdateIs
  <2>2. byClass' = [byClass EXCEPT ![key] = @ + 1]
    BY <1>2 DEF AddClass
  <2>3. key = <<op, class>> <=> req[g] \in OfClass(op, class)
    BY <2>1 DEF OfClass
  <2>4. <<op, class>> \in DOMAIN byClass
    BY DEF LedgerTypes
  <2>5. byClass'[<<op, class>>] =
          IF key = <<op, class>> THEN byClass[<<op, class>>] + 1 ELSE byClass[<<op, class>>]
    <3> HIDE DEF key
    <3>. QED
      BY <2>2, <2>4
  <2>6. byClass'[<<op, class>>] = IF req[g] \in OfClass(op, class)
                                    THEN byClass[<<op, class>>] + One[req[g]]
                                    ELSE byClass[<<op, class>>]
    <3> HIDE DEF key
    <3>. QED
      BY <2>1, <2>3, <2>5, Weights
  <2>. QED
    BY <1>1, <2>1, <2>6, CounterPaid, Weights
<1>3. CASE byClass' = byClass /\ Undisturbed(4)
  BY <1>1, <1>3, CounterUndisturbed, Weights
<1>. QED
  BY <1>2, <1>3, StepOnCounters

\* the duration of each operation,
LEMMA SumStep ==
  ASSUME MetricsTypes, LedgerTypes, SumDue, [Next]_vars
  PROVE  SumDue'
<1> SUFFICES ASSUME NEW op \in Ops
             PROVE  Balance(Loaded(sum'[op]), Owing(5)', req', served', OfOp(op), Time)
  BY DEF SumDue, Loaded
<1>1. /\ Balance(Loaded(sum[op]), Owing(5), req, served, OfOp(op), Time)
      /\ Loaded(sum[op]) \in Nat /\ OfOp(op) \in SUBSET Requests
  BY DEF SumDue, LedgerTypes, OfOp, Loaded
<1>2. ASSUME NEW g \in Goroutines, AddSum(g)
      PROVE  Balance(Loaded(sum'[op]), Owing(5)', req', served', OfOp(op), Time)
  <2>1. Advance(g) /\ Stage(pc[g]) = 5 /\ Stage(pc'[g]) = 5 + 1
        /\ req[g] \in Requests /\ req[g].op \in Ops /\ req[g].d \in Nat
    BY <1>2, UpdateIs
  <2>2. sum' = [sum EXCEPT ![req[g].op] = Loaded(@) + req[g].d]
    BY <1>2 DEF AddSum
  <2>3. sum'[op] = IF req[g].op = op THEN Loaded(sum[op]) + req[g].d ELSE sum[op]
    BY <2>1, <2>2 DEF LedgerTypes
  <2>4. Loaded(sum'[op]) = IF req[g] \in OfOp(op) THEN Loaded(sum[op]) + Time[req[g]]
                           ELSE Loaded(sum[op])
    <3>1. CASE req[g].op = op
      <4>1. sum'[op] \in Nat /\ sum'[op] = Loaded(sum[op]) + Time[req[g]]
        BY <1>1, <2>1, <2>3, <3>1, Weights
      <4>. QED
        BY <2>1, <3>1, <4>1, NilIsNone DEF OfOp, Loaded
    <3>2. CASE req[g].op # op
      BY <2>1, <2>3, <3>2 DEF OfOp
    <3>. QED
      BY <3>1, <3>2
  <2>. QED
    BY <1>1, <2>1, <2>4, CounterPaid, Weights
<1>3. CASE sum' = sum /\ Undisturbed(5)
  BY <1>1, <1>3, CounterUndisturbed, Weights
<1>. QED
  BY <1>2, <1>3, StepOnCounters

\* and the count of each operation.
LEMMA CountStep ==
  ASSUME MetricsTypes, LedgerTypes, CountDue, [Next]_vars
  PROVE  CountDue'
<1> SUFFICES ASSUME NEW op \in Ops
             PROVE  Balance(Loaded(count'[op]), Owing(6)', req', served', OfOp(op), One)
  BY DEF CountDue, Loaded
<1>1. /\ Balance(Loaded(count[op]), Owing(6), req, served, OfOp(op), One)
      /\ Loaded(count[op]) \in Nat /\ OfOp(op) \in SUBSET Requests
  BY DEF CountDue, MetricsTypes, OfOp, Loaded
<1>2. ASSUME NEW g \in Goroutines, AddCount(g)
      PROVE  Balance(Loaded(count'[op]), Owing(6)', req', served', OfOp(op), One)
  <2>1. Advance(g) /\ Stage(pc[g]) = 6 /\ Stage(pc'[g]) = 6 + 1
        /\ req[g] \in Requests /\ req[g].op \in Ops
    BY <1>2, UpdateIs
  <2>2. count' = [count EXCEPT ![req[g].op] = Loaded(@) + 1]
    BY <1>2 DEF AddCount
  <2>3. count'[op] = IF req[g].op = op THEN Loaded(count[op]) + 1 ELSE count[op]
    BY <2>1, <2>2 DEF MetricsTypes
  <2>4. Loaded(count'[op]) = IF req[g] \in OfOp(op) THEN Loaded(count[op]) + One[req[g]]
                             ELSE Loaded(count[op])
    <3>1. CASE req[g].op = op
      <4>1. count'[op] \in Nat /\ count'[op] = Loaded(count[op]) + One[req[g]]
        BY <1>1, <2>1, <2>3, <3>1, Weights
      <4>. QED
        BY <2>1, <3>1, <4>1, NilIsNone DEF OfOp, Loaded
    <3>2. CASE req[g].op # op
      BY <2>1, <2>3, <3>2 DEF OfOp
    <3>. QED
      BY <3>1, <3>2
  <2>. QED
    BY <1>1, <2>1, <2>4, CounterPaid, Weights
<1>3. CASE count' = count /\ Undisturbed(6)
  BY <1>1, <1>3, CounterUndisturbed, Weights
<1>. QED
  BY <1>2, <1>3, StepOnCounters

\* Nobody's place among the buckets changes.
LEMMA BucketKept ==
  ASSUME NEW i, NEW c, NEW R, NEW w, Balance(c, OwingBucket(i), req, served, R, w),
         served' = served,
         \A h \in Goroutines : /\ h \in OwingBucket(i)' <=> h \in OwingBucket(i)
                               /\ h \in OwingBucket(i) => req'[h] = req[h]
  PROVE  Balance(c, OwingBucket(i)', req', served', R, w)
  BY BalanceKept

\* Each bucket stays balanced: a round of the loop pays what its goroutine owes
\* that bucket, and the end of the loop comes after every bucket.
LEMMA BucketStep ==
  ASSUME MetricsTypes, CountFirst, LedgerTypes, BucketDue, [Next]_vars
  PROVE  BucketDue'
<1> SUFFICES ASSUME NEW op \in Ops, NEW i \in DOMAIN Bounds
             PROVE  Balance(Bucket(op, i)', OwingBucket(i)', req', served',
                            WithinBound(op, i), One)
  BY DEF BucketDue
<1> DEFINE R == WithinBound(op, i)
<1>0. /\ Balance(Bucket(op, i), OwingBucket(i), req, served, R, One)
      /\ Bucket(op, i) \in Nat /\ R \in SUBSET Requests /\ i \in Nat /\ 1 <= i
      /\ One \in [Requests -> Nat]
  <2>1. Bucket(op, i) \in Nat
    BY DEF Bucket, MetricsTypes
  <2>. QED
    BY <2>1, NilIsNone, Weights DEF BucketDue, WithinBound
<1> HIDE DEF R
<1>1. CASE UNCHANGED vars
  <2>1. Bucket(op, i)' = Bucket(op, i) /\ OwingBucket(i)' = OwingBucket(i)
        /\ req' = req /\ served' = served
    BY <1>1 DEF vars, Bucket, OwingBucket
  <2>. QED
    BY <1>0, <2>1 DEF R
<1>2. ASSUME NEW g \in Goroutines, NEW q \in Requests, Begun(g, q)
      PROVE  Balance(Bucket(op, i)', OwingBucket(i)', req', served', R, One)
  <2>1. g \notin OwingBucket(i) /\ g \in OwingBucket(i)' /\ req'[g] = q
    BY <1>2 DEF Begun, OwingBucket
  <2>2. \A h \in Goroutines : h # g =>
          (h \in OwingBucket(i)' <=> h \in OwingBucket(i)) /\ req'[h] = req[h]
    BY <1>2 DEF Begun, OwingBucket
  <2>3. /\ served' = [served EXCEPT ![q] = @ + 1] /\ served \in [Requests -> Nat]
        /\ Bucket(op, i)' = Bucket(op, i)
    BY <1>2 DEF Begun, LedgerTypes, counters, Bucket
  <2>4. Taken(OwingBucket(i), OwingBucket(i)', req, req', served, served', g, q)
    BY <2>1, <2>2, <2>3 DEF Taken
  <2>. QED
    BY <1>0, <2>3, <2>4, BalanceBegun
<1>3. ASSUME NEW g \in Goroutines, Working(g), ~LoadBuckets(g), ~AddBucket(g)
      PROVE  Balance(Bucket(op, i)', OwingBucket(i)', req', served', R, One)
  <2>1. Advance(g) /\ Stage(pc[g]) <= 6 /\ buckets' = buckets
    <3>1. Advance(g)
      BY <1>3, WorkingAdvances
    <3>2. Stage(pc[g]) <= 6
      <4>1. pc[g] \in {"total", "duration", "status", "class", "sum", "count",
                       "scrape", "readDuration", "range", "readBucket", "readCount"}
        BY <1>3 DEF Working, AddTotal, AddDuration, AddStatus, AddClass, AddSum, AddCount,
           ReadTotal, ReadDuration, RangeOp, ReadBucket, ReadCount
      <4>. QED
        BY <4>1 DEF Stage
    <3>3. buckets' = buckets
      BY <1>3 DEF Working, AddTotal, AddDuration, AddStatus, AddClass, AddSum, AddCount,
         ReadTotal, ReadDuration, RangeOp, ReadBucket, ReadCount, counters
    <3>. QED
      BY <3>1, <3>2, <3>3
  <2>2. Stage(pc[g]) \in 1..9
    BY StageIs DEF MetricsTypes
  <2>3. g \in OwingBucket(i) /\ g \in OwingBucket(i)' /\ req'[g] = req[g]
    BY <2>1, <2>2 DEF Advance, OwingBucket
  <2>4. \A h \in Goroutines : h # g =>
          (h \in OwingBucket(i)' <=> h \in OwingBucket(i)) /\ req'[h] = req[h]
    BY <2>1 DEF Advance, OwingBucket
  <2>5. served' = served /\ Bucket(op, i)' = Bucket(op, i)
    BY <2>1 DEF Advance, Bucket
  <2>. QED
    BY <1>0, <2>3, <2>4, <2>5, BucketKept
<1>4. ASSUME NEW g \in Goroutines, LoadBuckets(g)
      PROVE  Balance(Bucket(op, i)', OwingBucket(i)', req', served', R, One)
  <2>1. /\ pc[g] = "buckets" /\ pc' = [pc EXCEPT ![g] = "bucket"] /\ idx' = [idx EXCEPT ![g] = 1]
        /\ req' = req /\ served' = served
        /\ buckets' = IF buckets[req[g].op] = Nil
                        THEN [buckets EXCEPT ![req[g].op] = newBucketCounters] ELSE buckets
    BY <1>4 DEF LoadBuckets, Goto
  <2>2. /\ pc'[g] = "bucket" /\ idx'[g] = 1
        /\ \A h \in Goroutines : h # g => pc'[h] = pc[h] /\ idx'[h] = idx[h]
    BY <2>1 DEF MetricsTypes
  <2>3. g \in OwingBucket(i) /\ g \in OwingBucket(i)'
    BY <1>0, <2>1, <2>2, StageIs DEF OwingBucket
  <2>4. \A h \in Goroutines : h # g => (h \in OwingBucket(i)' <=> h \in OwingBucket(i))
    BY <2>2 DEF OwingBucket
  <2>5. Bucket(op, i)' = Bucket(op, i)
    <3>1. newBucketCounters \in [DOMAIN Bounds -> Nat] /\ newBucketCounters[i] = 0
      BY DEF newBucketCounters
    <3>2. newBucketCounters # Nil
      BY <3>1, NilIsNone
    <3>3. CASE buckets[req[g].op] = Nil /\ op = req[g].op
      <4>1. buckets'[op] = newBucketCounters /\ buckets[op] = Nil
        BY <2>1, <3>3 DEF MetricsTypes
      <4>. QED
        BY <3>1, <3>2, <4>1 DEF Bucket
    <3>4. CASE ~(buckets[req[g].op] = Nil /\ op = req[g].op)
      <4>1. buckets'[op] = buckets[op]
        BY <2>1, <3>4 DEF MetricsTypes
      <4>. QED
        BY <4>1 DEF Bucket
    <3>. QED
      BY <3>3, <3>4
  <2>. QED
    BY <1>0, <2>1, <2>3, <2>4, <2>5, BucketKept
<1>5. ASSUME NEW g \in Goroutines, AddBucket(g)
      PROVE  Balance(Bucket(op, i)', OwingBucket(i)', req', served', R, One)
  <2>0. /\ pc[g] = "bucket" /\ served' = served
        /\ req[g] \in Requests /\ req[g].op \in Ops /\ req[g].d \in Nat
        /\ buckets[req[g].op] \in [DOMAIN Bounds -> Nat] /\ buckets[req[g].op] # Nil
        /\ idx[g] \in Nat /\ 1 <= idx[g]
    <3>1. pc[g] = "bucket" /\ served' = served
      BY <1>5 DEF AddBucket
    <3>2. req[g] \in Requests /\ idx[g] \in Nat /\ 1 <= idx[g]
      BY <3>1 DEF MetricsTypes
    <3>3. req[g].op \in Ops /\ req[g].d \in Nat
      BY <3>2, NilIsNone DEF Requests
    <3>. QED
      BY <3>1, <3>2, <3>3 DEF CountFirst, MetricsTypes
  <2>1. CASE /\ idx[g] \in DOMAIN Bounds
             /\ buckets' = IF req[g].d <= Bounds[idx[g]]
                             THEN [buckets EXCEPT ![req[g].op][idx[g]] = @ + 1]
                             ELSE buckets
             /\ idx' = [idx EXCEPT ![g] = @ + 1] /\ UNCHANGED <<pc, req>>
    <3>1. pc' = pc /\ req' = req /\ idx'[g] = idx[g] + 1
          /\ \A h \in Goroutines : h # g => idx'[h] = idx[h]
      BY <2>1 DEF MetricsTypes
    <3>2. \A h \in Goroutines : h # g => (h \in OwingBucket(i)' <=> h \in OwingBucket(i))
      BY <3>1 DEF OwingBucket
    <3>3. (g \in OwingBucket(i) <=> idx[g] <= i) /\ (g \in OwingBucket(i)' <=> idx[g] + 1 <= i)
      BY <2>0, <3>1, StageIs DEF OwingBucket
    <3>4. CASE idx[g] = i
      <4>1. g \in OwingBucket(i) /\ g \notin OwingBucket(i)'
        BY <1>0, <3>3, <3>4
      <4>2. Bucket(op, i)' = IF req[g] \in R THEN Bucket(op, i) + One[req[g]] ELSE Bucket(op, i)
        <5>1. One[req[g]] = 1 /\ (req[g] \in R <=> req[g].op = op /\ req[g].d <= Bounds[i])
          BY <2>0, Weights DEF R, WithinBound
        <5>2. CASE req[g].op = op /\ req[g].d <= Bounds[i]
          <6>1. buckets'[op] = [buckets[op] EXCEPT ![i] = @ + 1]
            BY <2>1, <3>4, <5>2 DEF MetricsTypes
          <6>2. buckets'[op][i] = buckets[op][i] + 1 /\ buckets'[op] \in [DOMAIN Bounds -> Nat]
            BY <2>0, <5>2, <6>1
          <6>3. buckets'[op] # Nil /\ buckets[op] # Nil
            BY <2>0, <5>2, <6>2, NilIsNone
          <6>. QED
            BY <5>1, <5>2, <6>2, <6>3 DEF Bucket
        <5>3. CASE ~(req[g].op = op /\ req[g].d <= Bounds[i])
          <6>1. buckets'[op] = buckets[op]
            BY <2>1, <3>4, <5>3 DEF MetricsTypes
          <6>. QED
            BY <5>1, <5>3, <6>1 DEF Bucket
        <5>. QED
          BY <5>2, <5>3
      <4>3. Balance(Bucket(op, i)', OwingBucket(i)', req, served, R, One)
        BY <1>0, <2>0, <3>2, <4>1, <4>2, BalancePaid
      <4>. QED
        BY <2>0, <3>1, <4>3
    <3>5. CASE idx[g] # i
      <4>1. g \in OwingBucket(i)' <=> g \in OwingBucket(i)
        BY <1>0, <2>0, <3>3, <3>5
      <4>2. Bucket(op, i)' = Bucket(op, i)
        <5>1. CASE req[g].op = op /\ req[g].d <= Bounds[idx[g]]
          <6>1. buckets'[op] = [buckets[op] EXCEPT ![idx[g]] = @ + 1]
            BY <2>1, <5>1 DEF MetricsTypes
          <6>2. buckets'[op][i] = buckets[op][i] /\ buckets'[op] \in [DOMAIN Bounds -> Nat]
            BY <2>0, <2>1, <3>5, <5>1, <6>1
          <6>3. buckets'[op] # Nil /\ buckets[op] # Nil
            BY <2>0, <5>1, <6>2, NilIsNone
          <6>. QED
            BY <6>2, <6>3 DEF Bucket
        <5>2. CASE ~(req[g].op = op /\ req[g].d <= Bounds[idx[g]])
          <6>1. buckets'[op] = buckets[op]
            BY <2>1, <5>2 DEF MetricsTypes
          <6>. QED
            BY <6>1 DEF Bucket
        <5>. QED
          BY <5>1, <5>2
      <4>. QED
        BY <1>0, <2>0, <3>1, <3>2, <4>1, <4>2, BucketKept
    <3>. QED
      BY <3>4, <3>5
  <2>2. CASE /\ idx[g] \notin DOMAIN Bounds
             /\ pc' = [pc EXCEPT ![g] = "idle"] /\ idx' = [idx EXCEPT ![g] = 1]
             /\ req' = [req EXCEPT ![g] = Nil] /\ UNCHANGED buckets
    <3>1. /\ pc'[g] = "idle"
          /\ \A h \in Goroutines : h # g =>
               pc'[h] = pc[h] /\ idx'[h] = idx[h] /\ req'[h] = req[h]
      BY <2>2 DEF MetricsTypes
    <3>2. ~(idx[g] <= i)
      BY <2>0, <2>2, NilIsNone
    <3>3. g \notin OwingBucket(i) /\ g \notin OwingBucket(i)'
      BY <2>0, <3>1, <3>2, StageIs DEF OwingBucket
    <3>4. \A h \in Goroutines : h # g => (h \in OwingBucket(i)' <=> h \in OwingBucket(i))
      BY <3>1 DEF OwingBucket
    <3>5. Bucket(op, i)' = Bucket(op, i)
      BY <2>2 DEF Bucket
    <3>. QED
      BY <1>0, <2>0, <3>1, <3>3, <3>4, <3>5, BucketKept
  <2>. QED
    BY <1>5, <2>1, <2>2 DEF AddBucket, Goto
<1>. QED
  BY <1>1, <1>2, <1>3, <1>4, <1>5, StepKinds DEF R

\* An operation gets its buckets right after its first count.
LEMMA FollowStep ==
  ASSUME MetricsTypes, BucketsFollow, [Next]_vars
  PROVE  BucketsFollow'
<1> SUFFICES ASSUME NEW op \in Ops, count'[op] # Nil
             PROVE  \/ buckets'[op] # Nil
                    \/ \E g \in Goroutines : pc'[g] = "buckets" /\ req'[g].op = op
  BY DEF BucketsFollow
<1>1. CASE UNCHANGED vars
  BY <1>1 DEF vars, BucketsFollow
<1>2. ASSUME NEW g \in Goroutines, NEW q \in Requests, Begun(g, q)
      PROVE  buckets'[op] # Nil \/ \E h \in Goroutines : pc'[h] = "buckets" /\ req'[h].op = op
  <2>1. count' = count /\ buckets' = buckets /\ pc[g] # "buckets"
        /\ \A h \in Goroutines : h # g => pc'[h] = pc[h] /\ req'[h] = req[h]
    BY <1>2, StageIs DEF Begun, counters
  <2>. QED
    BY <2>1 DEF BucketsFollow
<1>3. ASSUME NEW g \in Goroutines, Working(g)
      PROVE  buckets'[op] # Nil \/ \E h \in Goroutines : pc'[h] = "buckets" /\ req'[h].op = op
  <2>1. \A h \in Goroutines : h # g => pc'[h] = pc[h] /\ req'[h] = req[h]
    BY <1>3, WorkingAdvances DEF Advance
  <2>2. CASE AddCount(g) /\ req[g].op = op
    <3>1. pc'[g] = "buckets" /\ req'[g] = req[g]
      BY <2>2 DEF AddCount, Goto, MetricsTypes
    <3>. QED
      BY <2>2, <3>1
  <2>3. CASE AddCount(g) /\ req[g].op # op
    <3>1. count'[op] = count[op] /\ buckets' = buckets /\ pc[g] = "count"
      BY <2>3 DEF AddCount, MetricsTypes
    <3>. QED
      BY <2>1, <3>1 DEF BucketsFollow
  <2>4. CASE LoadBuckets(g)
    <3>1. /\ count' = count
          /\ buckets' = IF buckets[req[g].op] = Nil
                          THEN [buckets EXCEPT ![req[g].op] = newBucketCounters] ELSE buckets
      BY <2>4 DEF LoadBuckets
    <3>2. newBucketCounters # Nil
      BY NilIsNone DEF newBucketCounters
    <3>3. CASE req[g].op = op
      <4>1. CASE buckets[op] = Nil
        <5>1. buckets'[op] = newBucketCounters
          BY <3>1, <3>3, <4>1 DEF MetricsTypes
        <5>. QED
          BY <3>2, <5>1
      <4>2. CASE buckets[op] # Nil
        BY <3>1, <3>3, <4>2
      <4>. QED
        BY <4>1, <4>2
    <3>4. CASE req[g].op # op
      <4>1. buckets'[op] = buckets[op]
        BY <3>1, <3>4 DEF MetricsTypes
      <4>. QED
        BY <2>1, <3>1, <3>4, <4>1 DEF BucketsFollow
    <3>. QED
      BY <3>3, <3>4
  <2>5. CASE AddBucket(g)
    <3>1. count' = count /\ pc[g] = "bucket"
      BY <2>5 DEF AddBucket
    <3>2. buckets[op] # Nil => buckets'[op] # Nil
      <4>1. CASE buckets' = buckets
        BY <4>1
      <4>2. CASE /\ buckets' = [buckets EXCEPT ![req[g].op][idx[g]] = @ + 1]
                 /\ idx[g] \in DOMAIN Bounds
        <5>1. CASE req[g].op = op /\ buckets[op] # Nil
          <6>1. buckets'[op] = [buckets[op] EXCEPT ![idx[g]] = @ + 1]
            BY <4>2, <5>1 DEF MetricsTypes
          <6>2. buckets'[op] \in [DOMAIN Bounds -> Nat]
            BY <4>2, <5>1, <6>1 DEF MetricsTypes
          <6>. QED
            BY <6>2, NilIsNone
        <5>2. CASE req[g].op # op
          BY <4>2, <5>2 DEF MetricsTypes
        <5>. QED
          BY <5>1, <5>2
      <4>. QED
        BY <2>5, <4>1, <4>2 DEF AddBucket
    <3>. QED
      BY <2>1, <3>1, <3>2 DEF BucketsFollow
  <2>6. CASE ~AddCount(g) /\ ~LoadBuckets(g) /\ ~AddBucket(g)
    <3>1. count' = count /\ buckets' = buckets /\ pc[g] # "buckets"
      BY <1>3, <2>6 DEF Working, AddTotal, AddDuration, AddStatus, AddClass, AddSum,
         ReadTotal, ReadDuration, RangeOp, ReadBucket, ReadCount, counters
    <3>. QED
      BY <2>1, <3>1 DEF BucketsFollow
  <2>. QED
    BY <2>2, <2>3, <2>4, <2>5, <2>6
<1>. QED
  BY <1>1, <1>2, <1>3, StepKinds

\* Initially nothing was served and nothing is owed.
LEMMA LedgerInit ==
  ASSUME Init
  PROVE  Ledger
<1> USE DEF Init
<1>1. LedgerTypes
  BY DEF LedgerTypes
<1>2. ASSUME NEW D, \A g \in Goroutines : g \notin D,
             NEW R \in SUBSET Requests, NEW w \in [Requests -> Nat]
      PROVE  Balance(0, D, req, served, R, w)
  <2> DEFINE f == Owed(D, req, R, w)
             m == [r \in Requests |-> w[r] * served[r]]
  <2>1. IsFiniteSet(Goroutines) /\ IsFiniteSet(R)
    BY MetricsAssumption, RequestsFinite
  <2>2. \A g \in Goroutines : f[g] = 0
    BY <1>2 DEF Owed
  <2>3. \A r \in R : m[r] = 0
    OBVIOUS
  <2> HIDE DEF f, m
  <2>4. SumOver(f, Goroutines) = 0 /\ SumOver(m, R) = 0
    BY <2>1, <2>2, <2>3, SumZero
  <2>. QED
    BY <2>4 DEF Balance, Weighted, f, m
<1>3. /\ \A k \in 1..6, g \in Goroutines : g \notin Owing(k)
      /\ \A i \in DOMAIN Bounds, g \in Goroutines : g \notin OwingBucket(i)
  BY StageIs DEF Owing, OwingBucket
<1>4. /\ Requests \in SUBSET Requests /\ \A s \in Statuses : OfStatus(s) \in SUBSET Requests
      /\ \A op \in Ops : OfOp(op) \in SUBSET Requests
      /\ \A op \in Ops, class \in Classes : OfClass(op, class) \in SUBSET Requests
      /\ \A op \in Ops, i \in DOMAIN Bounds : WithinBound(op, i) \in SUBSET Requests
  BY DEF OfStatus, OfOp, OfClass, WithinBound
<1>5. /\ total = 0 /\ duration = 0 /\ \A s \in Statuses : byStatus[s] = 0
      /\ \A op \in Ops, class \in Classes : byClass[<<op, class>>] = 0
      /\ \A op \in Ops : Loaded(sum[op]) = 0 /\ Loaded(count[op]) = 0 /\ count[op] = Nil
      /\ \A op \in Ops, i \in DOMAIN Bounds : Bucket(op, i) = 0
  BY DEF Loaded, Bucket
<1> HIDE DEF Init
<1>6. TotalDue /\ DurationDue
  BY <1>2, <1>3, <1>4, <1>5, Weights DEF TotalDue, DurationDue
<1>7. StatusDue /\ ClassDue
  BY <1>2, <1>3, <1>4, <1>5, Weights DEF StatusDue, ClassDue
<1>8. SumDue /\ CountDue
  BY <1>2, <1>3, <1>4, <1>5, Weights DEF SumDue, CountDue
<1>9. BucketDue /\ BucketsFollow
  BY <1>2, <1>3, <1>4, <1>5, Weights DEF BucketDue, BucketsFollow
<1>. QED
  BY <1>1, <1>6, <1>7, <1>8, <1>9 DEF Ledger

\* When no request is in flight nothing is owed, so the counters are exact.
LEMMA LedgerQuiet ==
  ASSUME MetricsTypes, Ledger, Quiet
  PROVE  QuietExact
<1>1. /\ \A k \in 1..6, g \in Goroutines : g \notin Owing(k)
      /\ \A i \in DOMAIN Bounds, g \in Goroutines : g \notin OwingBucket(i)
  BY StageIs DEF Owing, OwingBucket, Quiet
<1>2. LedgerTypes
  BY DEF Ledger
<1>3. \A R : SumOver(Weighted(One, served), R) = Served(R)
  <2>1. Weighted(One, served) = served
    BY <1>2, Weights DEF LedgerTypes, Weighted
  <2>. QED
    BY <2>1 DEF Served
<1>4. \A R : SumOver(Weighted(Time, served), R) = ServedTime(R)
  <2>1. Weighted(Time, served) = [r \in Requests |-> r.d * served[r]]
    BY Weights DEF Weighted
  <2>. QED
    BY <2>1 DEF ServedTime
<1>5. total = Served(Requests) /\ duration = ServedTime(Requests)
  <2>1. total \in Nat /\ Balance(total, Owing(1), req, served, Requests, One)
    BY DEF Ledger, TotalDue, MetricsTypes
  <2>2. duration \in Nat /\ Balance(duration, Owing(2), req, served, Requests, Time)
    BY DEF Ledger, DurationDue, MetricsTypes
  <2>3. total = SumOver(Weighted(One, served), Requests)
    BY <1>1, <2>1, BalanceQuiet
  <2>4. duration = SumOver(Weighted(Time, served), Requests)
    BY <1>1, <2>2, BalanceQuiet
  <2>. QED
    BY <1>3, <1>4, <2>3, <2>4
<1>6. ASSUME NEW s \in Statuses PROVE byStatus[s] = Served(OfStatus(s))
  <2>1. byStatus[s] \in Nat /\ Balance(byStatus[s], Owing(3), req, served, OfStatus(s), One)
    BY <1>2 DEF Ledger, StatusDue, LedgerTypes
  <2>2. byStatus[s] = SumOver(Weighted(One, served), OfStatus(s))
    BY <1>1, <2>1, BalanceQuiet
  <2>. QED
    BY <1>3, <2>2
<1>7. ASSUME NEW op \in Ops PROVE Loaded(count[op]) = Served(OfOp(op))
  <2>1. /\ Loaded(count[op]) \in Nat
        /\ Balance(Loaded(count[op]), Owing(6), req, served, OfOp(op), One)
    BY DEF Ledger, CountDue, Loaded, MetricsTypes
  <2>2. Loaded(count[op]) = SumOver(Weighted(One, served), OfOp(op))
    BY <1>1, <2>1, BalanceQuiet
  <2>. QED
    BY <1>3, <2>2
<1>8. ASSUME NEW op \in Ops PROVE Loaded(sum[op]) = ServedTime(OfOp(op))
  <2>1. /\ Loaded(sum[op]) \in Nat
        /\ Balance(Loaded(sum[op]), Owing(5), req, served, OfOp(op), Time)
    BY <1>2 DEF Ledger, SumDue, Loaded, LedgerTypes
  <2>2. Loaded(sum[op]) = SumOver(Weighted(Time, served), OfOp(op))
    BY <1>1, <2>1, BalanceQuiet
  <2>. QED
    BY <1>4, <2>2
<1>9. ASSUME NEW op \in Ops, NEW class \in Classes
      PROVE  byClass[<<op, class>>] = Served(OfClass(op, class))
  <2>1. /\ byClass[<<op, class>>] \in Nat
        /\ Balance(byClass[<<op, class>>], Owing(4), req, served, OfClass(op, class), One)
    BY <1>2 DEF Ledger, ClassDue, LedgerTypes
  <2>2. byClass[<<op, class>>] = SumOver(Weighted(One, served), OfClass(op, class))
    BY <1>1, <2>1, BalanceQuiet
  <2>. QED
    BY <1>3, <2>2
<1>10. ASSUME NEW op \in Ops, NEW i \in DOMAIN Bounds
       PROVE  Bucket(op, i) = Served(WithinBound(op, i))
  <2>1. /\ Bucket(op, i) \in Nat
        /\ Balance(Bucket(op, i), OwingBucket(i), req, served, WithinBound(op, i), One)
    BY DEF Ledger, BucketDue, Bucket, MetricsTypes
  <2>2. Bucket(op, i) = SumOver(Weighted(One, served), WithinBound(op, i))
    BY <1>1, <2>1, BalanceQuiet
  <2>. QED
    BY <1>3, <2>2
<1>11. \A op \in Ops : buckets[op] = Nil => count[op] = Nil
  BY DEF Ledger, BucketsFollow, Quiet
<1>. QED
  BY <1>5, <1>6, <1>7, <1>8, <1>9, <1>10, <1>11
     DEF QuietExact, OfStatus, OfOp, OfClass, WithinBound, Bucket

\* Each counter, with what is owed to it, adds up to what was served.
LEMMA LedgerInvariant == Spec => []Ledger
<1>1. Init => Ledger
  BY LedgerInit
<1>2. MetricsInv /\ Ledger /\ [Next]_vars => Ledger'
  <2> SUFFICES ASSUME MetricsInv, Ledger, [Next]_vars PROVE Ledger'
    OBVIOUS
  <2>1. /\ MetricsTypes /\ CountFirst /\ LedgerTypes /\ TotalDue /\ DurationDue /\ StatusDue
        /\ ClassDue /\ SumDue /\ CountDue /\ BucketDue /\ BucketsFollow
    BY DEF MetricsInv, Ledger
  <2>2. TotalDue' /\ DurationDue' /\ StatusDue' /\ ClassDue' /\ SumDue' /\ CountDue' /\ BucketDue'
    BY <2>1, TotalStep, DurationStep, StatusStep, ClassStep, SumStep, CountStep, BucketStep
  <2>. QED
    BY <2>1, <2>2, LedgerTypeStep, FollowStep DEF Ledger
<1>. QED
  BY <1>1, <1>2, MetricsInvariant, PTL DEF Spec

\* No update is lost, although no lock is held between any two of them: when no
\* request is in flight every counter and every bucket is exactly what the
\* requests served so far add up to, whatever the interleaving was.
THEOREM QuietTheorem == Spec => []QuietExact
<1>1. MetricsInv /\ Ledger => QuietExact
  <2> SUFFICES ASSUME MetricsInv, Ledger PROVE QuietExact
    OBVIOUS
  <2>1. CASE Quiet
    BY <2>1, LedgerQuiet DEF MetricsInv
  <2>2. CASE ~Quiet
    BY <2>2 DEF QuietExact
  <2>. QED
    BY <2>1, <2>2
<1>. QED
  BY <1>1, MetricsInvariant, LedgerInvariant, PTL
=============================================================================

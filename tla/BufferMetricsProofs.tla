------------------------- MODULE BufferMetricsProofs -------------------------
(* Theorems about BufferMetrics, for every value of its constants.  What is     *)
(* proved of BatchBuffer holds of it, too: the metrics only watch.              *)
EXTENDS BufferMetrics, BatchBufferProofs

\* A step with metrics is a step of the batch buffer without, or leaves it alone.
LEMMA StepOfBuffer == [MetricsNext]_metricsVars => [Next]_vars
  <1> SUFFICES ASSUME [MetricsNext]_metricsVars PROVE [Next]_vars
    OBVIOUS
  <1>1. CASE MeteredWorkerStep
    <2>1. CASE DrainRow \/ DrainNext \/ SkipTable
      BY <2>1 DEF Next, WorkerStep
    <2>2. CASE \E outcome \in Outcomes : MeteredInsert(outcome)
      BY <2>2 DEF MeteredInsert, Next, WorkerStep
    <2>3. CASE FlushReadsLen \/ FlushSetsDepth
      BY <2>3 DEF FlushReadsLen, FlushSetsDepth
    <2>4. CASE FlushDone
      BY <2>4 DEF FlushDone, Next, WorkerStep
    <2>5. QED
      BY <1>1, <2>1, <2>2, <2>3, <2>4 DEF MeteredWorkerStep
  <1>2. CASE WorkerSelect
    BY <1>2 DEF Next
  <1>3. ASSUME NEW p \in Producers, MeteredProducerStep(p) PROVE [Next]_vars
    BY <1>3 DEF MeteredProducerStep, ReadLen, SetDepth, Send, Next, CallerStep
  <1>4. CASE \/ \E f \in Flushers : CallFlush(f) \/ FlushSeesStop(f) \/ FlushCtxDone(f)
             \/ \E s \in Stoppers : CallStop(s) \/ StopReturns(s)
    BY <1>4 DEF Next, CallerStep
  <1>5. CASE UNCHANGED metricsVars
    BY <1>5 DEF metricsVars
  <1>6. QED
    BY <1>1, <1>2, <1>3, <1>4, <1>5 DEF MetricsNext

\* The batch buffer with its metrics implements the batch buffer: its invariants hold.
THEOREM MetricsImplementBuffer == MetricsSpec => Spec
  <1>1. MetricsInit => Init
    BY DEF MetricsInit
  <1>2. QED
    BY <1>1, StepOfBuffer, PTL DEF MetricsSpec, Spec
-------------------------------------------------------------------------------
(* Types.                                                                    *)

\* Flush has set a gauge for each length that it has read.
MetricsInv ==
    /\ MetricsTypeOK
    /\ gauges.pc = "read" => gauges.set < Len(FlushOrder)

LEMMA FlushOrderLength == Len(FlushOrder) = 3
  BY DEF FlushOrder

LEMMA ReadingFields ==
    /\ Idle \in Reading
    /\ \A r \in Reading :
          /\ r.pc \in {"idle", "sent", "read"} /\ r.table \in Tables /\ r.len \in Nat
          /\ \A t \in Tables : [[r EXCEPT !.pc = "sent"] EXCEPT !.table = t] \in Reading
          /\ \A n \in Nat : [[r EXCEPT !.pc = "read"] EXCEPT !.len = n] \in Reading
  <1>1. FlushOrder[1] \in Tables
    BY FlushOrderTables
  <1>2. Idle \in Reading
    BY <1>1 DEF Idle, Reading
  <1>3. QED
    BY <1>2 DEF Reading

LEMMA MetricsTypeInit == MetricsInit => MetricsInv
  <1> SUFFICES ASSUME MetricsInit PROVE MetricsInv
    OBVIOUS
  <1>1. TypeOK
    BY TypeInit DEF MetricsInit
  <1>2. /\ depth \in [Tables -> Nat] /\ counted \in [Tables -> Nat]
        /\ producer \in [Producers -> Reading]
    BY ReadingFields DEF MetricsInit
  <1>3. /\ gauges \in [set : 0..3, pc : {"idle", "read"}, len : Nat]
        /\ gauges.pc # "read"
    BY DEF MetricsInit
  <1>4. QED
    BY <1>1, <1>2, <1>3, FlushOrderLength DEF MetricsInv, MetricsTypeOK

\* Producers that go on to set a gauge.
LEMMA ProducerTypes ==
    ASSUME MetricsInv, TypeOK', NEW p \in Producers, MeteredProducerStep(p)
    PROVE  MetricsInv'
  <1>1. producer[p] \in Reading /\ producer \in [Producers -> Reading]
    BY DEF MetricsInv, MetricsTypeOK
  <1>2. ASSUME NEW t \in Tables, Send(p, t) PROVE MetricsInv'
    BY <1>1, <1>2, ReadingFields DEF Send, MetricsInv, MetricsTypeOK
  <1>3. CASE ReadLen(p)
    <2>1. producer[p].table \in Tables
      BY <1>1, ReadingFields
    <2>2. Len(queue[producer[p].table]) \in Nat
      BY <2>1 DEF MetricsInv, MetricsTypeOK, TypeOK
    <2>3. producer' \in [Producers -> Reading]
      BY <1>1, <1>3, <2>2, ReadingFields DEF ReadLen
    <2>4. QED
      BY <1>3, <2>3 DEF ReadLen, MetricsInv, MetricsTypeOK
  <1>4. CASE SetDepth(p)
    <2>1. producer[p].table \in Tables /\ producer[p].len \in Nat
      BY <1>1, ReadingFields
    <2>2. QED
      BY <1>1, <1>4, <2>1, ReadingFields DEF SetDepth, MetricsInv, MetricsTypeOK
  <1>5. QED
    BY <1>2, <1>3, <1>4 DEF MeteredProducerStep

\* The worker's own steps with its metrics.
LEMMA WorkerTypes ==
    ASSUME MetricsInv, TypeOK', MeteredWorkerStep
    PROVE  MetricsInv'
  <1>1. /\ gauges \in [set : 0..3, pc : {"idle", "read"}, len : Nat]
        /\ depth \in [Tables -> Nat] /\ counted \in [Tables -> Nat]
    BY FlushOrderLength DEF MetricsInv, MetricsTypeOK
  <1>2. \A i \in 1..3 : FlushOrder[i] \in Tables
    BY FlushOrderTables, FlushOrderLength
  <1>3. CASE (DrainRow \/ DrainNext \/ SkipTable) /\ UNCHANGED meterVars
    BY <1>3 DEF meterVars, MetricsInv, MetricsTypeOK
  <1>4. ASSUME NEW outcome \in Outcomes, MeteredInsert(outcome) PROVE MetricsInv'
    <2>1. PICK t : t = FlushOrder[worker.pos]
      OBVIOUS
    <2>2. t \in Tables
      BY <1>4, <2>1, WorkerFields, FlushOrderTables
         DEF MeteredInsert, FlushTable, MetricsInv, MetricsTypeOK
    <2>3. Len(batch[t]) \in Nat
      BY <2>2 DEF MetricsInv, MetricsTypeOK, TypeOK
    <2>4. counted' \in [Tables -> Nat]
      BY <1>1, <1>4, <2>1, <2>2, <2>3 DEF MeteredInsert, RecordClickHouseInsert
    <2>5. QED
      BY <1>4, <2>4 DEF MeteredInsert, MetricsInv, MetricsTypeOK
  <1>5. CASE FlushReadsLen
    <2>1. gauges.set \in 0..3 /\ gauges.set < 3
      BY <1>1, <1>5, FlushOrderLength DEF FlushReadsLen
    <2>2. PICK t \in Tables : t = FlushOrder[gauges.set + 1]
      BY <1>2, <2>1
    <2>3. Depth(t) \in Nat
      BY DEF Depth, MetricsInv, MetricsTypeOK, TypeOK
    <2>4. gauges' = [[gauges EXCEPT !.pc = "read"] EXCEPT !.len = Depth(t)]
      BY <1>5, <2>2 DEF FlushReadsLen
    <2>5. /\ gauges' \in [set : 0..3, pc : {"idle", "read"}, len : Nat]
          /\ gauges'.set = gauges.set
      BY <1>1, <2>3, <2>4
    <2>6. QED
      BY <1>5, <2>1, <2>5, FlushOrderLength DEF FlushReadsLen, MetricsInv, MetricsTypeOK
  <1>6. CASE FlushSetsDepth
    <2>1. gauges.set \in 0..3 /\ gauges.set < 3 /\ gauges.len \in Nat
      BY <1>1, <1>6, FlushOrderLength DEF FlushSetsDepth, MetricsInv
    <2>2. PICK t \in Tables : t = FlushOrder[gauges.set + 1]
      BY <1>2, <2>1
    <2>3. depth' \in [Tables -> Nat] /\ gauges.set + 1 \in 0..3
      BY <1>1, <1>6, <2>1, <2>2 DEF FlushSetsDepth
    <2>4. QED
      BY <1>6, <2>3, FlushOrderLength DEF FlushSetsDepth, MetricsInv, MetricsTypeOK
  <1>7. CASE FlushDone
    <2>a. gauges' = [gauges EXCEPT !.set = 0] /\ 0 \in 0..3
      BY <1>7 DEF FlushDone
    <2>1. /\ gauges' \in [set : 0..3, pc : {"idle", "read"}, len : Nat]
          /\ gauges'.set = 0
      BY <1>1, <2>a
    <2>2. QED
      BY <1>7, <2>1, FlushOrderLength DEF FlushDone, MetricsInv, MetricsTypeOK
  <1>8. QED
    BY <1>3, <1>4, <1>5, <1>6, <1>7 DEF MeteredWorkerStep

LEMMA MetricsTypeStep == MetricsInv /\ [MetricsNext]_metricsVars => MetricsInv'
  <1> SUFFICES ASSUME MetricsInv, [MetricsNext]_metricsVars PROVE MetricsInv'
    OBVIOUS
  <1>1. TypeOK'
    BY StepOfBuffer, TypeStep DEF MetricsInv, MetricsTypeOK
  <1>2. CASE UNCHANGED meterVars
    BY <1>1, <1>2 DEF meterVars, MetricsInv, MetricsTypeOK
  <1>3. CASE MeteredWorkerStep
    BY <1>1, <1>3, WorkerTypes
  <1>4. ASSUME NEW p \in Producers, MeteredProducerStep(p) PROVE MetricsInv'
    BY <1>1, <1>4, ProducerTypes
  <1>5. QED
    BY <1>2, <1>3, <1>4 DEF MetricsNext, metricsVars

\* Gauges and counters keep their types, and flush sets no gauge but those of the tables.
THEOREM MetricsTypeCorrect == MetricsSpec => []MetricsTypeOK
  <1>1. MetricsInv => MetricsTypeOK
    BY DEF MetricsInv
  <1>2. QED
    BY <1>1, MetricsTypeInit, MetricsTypeStep, PTL DEF MetricsSpec
-------------------------------------------------------------------------------
(* The counter of inserted rows: an inductive invariant.                     *)

\* Sums and differences of lengths.
LEMMA MovedOne ==
    ASSUME NEW a \in Nat, NEW b \in Nat, NEW c \in Nat
    PROVE  a - (b + 1) - (c - 1) = a - b - c
  OBVIOUS

LEMMA SumAtLeast ==
    ASSUME NEW a \in Nat, NEW b \in Nat
    PROVE  a + b >= a
  OBVIOUS

LEMMA SumsOrdered ==
    ASSUME NEW a \in Nat, NEW b \in Nat, NEW c \in Nat, a <= b
    PROVE  a + c <= b + c
  OBVIOUS

LEMMA CountUp ==
    ASSUME NEW a \in Nat, NEW b \in Nat, NEW c \in Nat, NEW n \in Nat, n = a - b - c
    PROVE  n + b = a - c
  OBVIOUS

CountedInv ==
    /\ counted \in [Tables -> Nat]
    /\ InsertedCounts

\* A step other than an insert leaves the counter, the acknowledged rows and the
\* tables as they are.
LEMMA NoInsertKeepsCounts ==
    ASSUME RowsInv, TypeOK', CountedInv, UNCHANGED counted,
           \/ UNCHANGED rowVars
           \/ \E t \in Tables : Enqueue(t)
           \/ \E t \in Tables : TakeRow(t)
    PROVE  CountedInv'
  <1>1. ASSUME NEW u \in Tables PROVE Acked(u)' = Acked(u) /\ stored'[u] = stored[u]
    <2>1. CASE UNCHANGED rowVars
      BY <2>1 DEF rowVars, Acked
    <2>2. ASSUME NEW t \in Tables, Enqueue(t) PROVE Acked(u)' = Acked(u) /\ stored' = stored
      <3>1. /\ accepted[u] \in Seq(Nat) /\ queue[u] \in Seq(Nat) /\ batch[u] \in Seq(Nat)
            /\ offered[u] + 1 \in Nat
        BY TableRows DEF RowsInv
      <3>2. \/ queue'[u] = queue[u] /\ accepted'[u] = accepted[u]
            \/ /\ queue'[u] = Append(queue[u], offered[u] + 1)
               /\ accepted'[u] = Append(accepted[u], offered[u] + 1)
        BY <2>2 DEF RowsInv, TypeOK, Enqueue
      <3>3. batch' = batch /\ stored' = stored
        BY <2>2 DEF Enqueue
      <3>4. CASE queue'[u] = queue[u] /\ accepted'[u] = accepted[u]
        BY <3>3, <3>4 DEF Acked
      <3>5. CASE /\ queue'[u] = Append(queue[u], offered[u] + 1)
                 /\ accepted'[u] = Append(accepted[u], offered[u] + 1)
        <4>1. /\ Len(queue'[u]) = Len(queue[u]) + 1
              /\ Len(accepted'[u]) = Len(accepted[u]) + 1
          BY <3>1, <3>5, AppendRow
        <4>2. QED
          BY <3>1, <3>3, <4>1 DEF Acked
      <3>6. QED
        BY <3>2, <3>3, <3>4, <3>5
    <2>3. ASSUME NEW t \in Tables, TakeRow(t) PROVE Acked(u)' = Acked(u) /\ stored' = stored
      <3>1. /\ accepted[u] \in Seq(Nat) /\ queue[u] \in Seq(Nat) /\ batch[u] \in Seq(Nat)
        BY TableRows DEF RowsInv
      <3>2. accepted' = accepted /\ stored' = stored
        BY <2>3 DEF TakeRow
      <3>3. CASE u = t
        <4>1. Len(accepted[t]) \in Nat /\ Len(queue[t]) \in Nat /\ Len(batch[t]) \in Nat
          BY <3>1, <3>3
        <4>2. Len(queue'[t]) = Len(queue[t]) - 1 /\ Len(batch'[t]) = Len(batch[t]) + 1
          BY <2>3, TakeRowType DEF RowsInv
        <4>3. Acked(t)' = Len(accepted[t]) - (Len(batch[t]) + 1) - (Len(queue[t]) - 1)
          BY <3>2, <4>2 DEF Acked
        <4>4. Acked(t)' = Len(accepted[t]) - Len(batch[t]) - Len(queue[t])
          BY <4>1, <4>3, MovedOne
        <4>5. QED
          BY <3>2, <3>3, <4>4 DEF Acked
      <3>4. CASE u # t
        BY <2>3, <3>2, <3>4 DEF RowsInv, TypeOK, TakeRow, Acked
      <3>5. QED
        BY <3>2, <3>3, <3>4
    <2>4. QED
      BY <2>1, <2>2, <2>3
  <1>2. QED
    BY <1>1 DEF CountedInv, InsertedCounts

\* An insert that is acknowledged empties the slice, fills the table and is counted;
\* another one changes at most the table.
LEMMA InsertKeepsCounts ==
    ASSUME RowsInv, CountedInv, NEW outcome \in Outcomes, MeteredInsert(outcome)
    PROVE  CountedInv'
  <1>a. FlushOrder[worker.pos] \in Tables
    BY WorkerFields, FlushOrderTables DEF MeteredInsert, FlushTable, RowsInv
  <1>b. PICK t \in Tables : t = FlushOrder[worker.pos]
    BY <1>a
  <1>1. t \in Tables /\ outcome \in {"ok", "error", "unacked"}
    BY BufferAssumption DEF BufferAssumption, InsertOutcomes
  <1>2. /\ InsertRows(t, outcome) /\ RecordClickHouseInsert(t, outcome)
        /\ accepted' = accepted /\ queue' = queue
    BY <1>b DEF MeteredInsert, FlushTable
  <1>3. /\ accepted[t] \in Seq(Nat) /\ queue[t] \in Seq(Nat)
        /\ batch[t] \in Seq(Nat) /\ stored[t] \in Seq(Nat)
    BY <1>1, TableRows DEF RowsInv
  <1>4. Len(stored[t] \o batch[t]) = Len(stored[t]) + Len(batch[t])
    BY <1>3
  <1>l. /\ Len(accepted[t]) \in Nat /\ Len(queue[t]) \in Nat
        /\ Len(batch[t]) \in Nat /\ Len(stored[t]) \in Nat /\ counted[t] \in Nat
    BY <1>1, <1>3 DEF CountedInv
  <1>5. /\ counted' \in [Tables -> Nat]
        /\ counted'[t] = counted[t] + (IF outcome = "ok" THEN Len(batch[t]) ELSE 0)
        /\ \A u \in Tables \ {t} : counted'[u] = counted[u]
    BY <1>1, <1>2, <1>3 DEF CountedInv, RecordClickHouseInsert
  <1>6. \A u \in Tables \ {t} : stored'[u] = stored[u] /\ batch'[u] = batch[u]
    BY <1>1, <1>2 DEF InsertRows, RowsInv, TypeOK
  <1>7. Acked(t)' = counted'[t] /\ counted'[t] <= Len(stored'[t])
    <2>1. counted[t] = Len(accepted[t]) - Len(batch[t]) - Len(queue[t])
      BY <1>1 DEF CountedInv, InsertedCounts, Acked
    <2>2. counted[t] <= Len(stored[t])
      BY <1>1 DEF CountedInv, InsertedCounts
    <2>3. CASE outcome = "ok"
      <3>1. batch'[t] = <<>> /\ stored'[t] = stored[t] \o batch[t]
        BY <1>1, <1>2, <2>3 DEF InsertRows, RowsInv, TypeOK
      <3>2. /\ Len(batch'[t]) = 0 /\ Len(stored'[t]) = Len(stored[t]) + Len(batch[t])
            /\ Len(accepted'[t]) = Len(accepted[t]) /\ Len(queue'[t]) = Len(queue[t])
        BY <1>2, <1>4, <3>1
      <3>3. Acked(t)' = Len(accepted[t]) - Len(queue[t])
        BY <1>l, <3>2 DEF Acked
      <3>4. counted'[t] = counted[t] + Len(batch[t])
        BY <1>5, <2>3
      <3>5. counted[t] + Len(batch[t]) = Len(accepted[t]) - Len(queue[t])
        BY <1>l, <2>1, CountUp
      <3>6. counted[t] + Len(batch[t]) <= Len(stored[t]) + Len(batch[t])
        BY <1>l, <2>2, SumsOrdered
      <3>7. QED
        BY <3>2, <3>3, <3>4, <3>5, <3>6
    <2>4. CASE outcome # "ok"
      <3>1. batch'[t] = batch[t] /\ stored'[t] \in {stored[t], stored[t] \o batch[t]}
        BY <1>1, <1>2, <2>4 DEF InsertRows, RowsInv, TypeOK
      <3>2. Len(stored'[t]) >= Len(stored[t])
        <4>1. CASE stored'[t] = stored[t]
          <5>1. Len(stored'[t]) = Len(stored[t])
            BY <4>1
          <5>2. QED
            BY <1>l, <5>1
        <4>2. CASE stored'[t] = stored[t] \o batch[t]
          <5>1. Len(stored'[t]) = Len(stored[t]) + Len(batch[t])
            BY <1>4, <4>2
          <5>2. QED
            BY <1>l, <5>1, SumAtLeast
        <4>3. QED
          BY <3>1, <4>1, <4>2
      <3>3. Acked(t)' = counted[t]
        BY <1>2, <2>1, <3>1 DEF Acked
      <3>4. QED
        BY <1>1, <1>3, <1>5, <2>2, <2>4, <3>1, <3>2, <3>3 DEF CountedInv
    <2>5. QED
      BY <2>3, <2>4
  <1>8. ASSUME NEW u \in Tables \ {t}
        PROVE  Acked(u)' = counted'[u] /\ counted'[u] <= Len(stored'[u])
    BY <1>2, <1>5, <1>6 DEF CountedInv, InsertedCounts, Acked
  <1>9. QED
    BY <1>5, <1>7, <1>8 DEF CountedInv, InsertedCounts

LEMMA CountedStep ==
    RowsInv /\ CountedInv /\ [MetricsNext]_metricsVars => CountedInv'
  <1> SUFFICES ASSUME RowsInv, CountedInv, [MetricsNext]_metricsVars PROVE CountedInv'
    OBVIOUS
  <1>1. TypeOK /\ TypeOK'
    BY StepOfBuffer, TypeStep DEF RowsInv
  <1>2. CASE \E outcome \in Outcomes : MeteredInsert(outcome)
    BY <1>2, InsertKeepsCounts
  <1>3. CASE ~\E outcome \in Outcomes : MeteredInsert(outcome)
    <2>1. /\ UNCHANGED counted
          /\ \/ UNCHANGED rowVars
             \/ \E t \in Tables : Enqueue(t)
             \/ \E t \in Tables : TakeRow(t)
      <3>1. CASE DrainRow /\ UNCHANGED meterVars
        BY <1>1, <3>1, WorkerFields, FlushOrderTables DEF DrainRow, meterVars
      <3>2. CASE (DrainNext \/ SkipTable) /\ UNCHANGED meterVars
        BY <3>2 DEF DrainNext, SkipTable, meterVars
      <3>3. CASE FlushReadsLen \/ FlushSetsDepth \/ FlushDone
        BY <3>3 DEF FlushReadsLen, FlushSetsDepth, FlushDone, Loop, Ack, Exit, vars, rowVars
      <3>4. CASE WorkerSelect /\ UNCHANGED meterVars
        BY <3>4 DEF WorkerSelect, Receive, Tick, TakeRequest, SeeStop, meterVars
      <3>5. ASSUME NEW p \in Producers, MeteredProducerStep(p)
            PROVE  /\ UNCHANGED counted
                   /\ UNCHANGED rowVars \/ \E t \in Tables : Enqueue(t)
        BY <3>5 DEF MeteredProducerStep, ReadLen, SetDepth, Send, vars, rowVars
      <3>6. CASE /\ \/ \E f \in Flushers : CallFlush(f) \/ FlushSeesStop(f) \/ FlushCtxDone(f)
                    \/ \E s \in Stoppers : CallStop(s) \/ StopReturns(s)
                 /\ UNCHANGED meterVars
        BY <3>6 DEF CallFlush, FlushSeesStop, FlushCtxDone, CallStop, StopReturns, meterVars
      <3>7. CASE UNCHANGED metricsVars
        BY <3>7 DEF metricsVars, vars, rowVars, meterVars
      <3>8. QED
        BY <1>3, <3>1, <3>2, <3>3, <3>4, <3>5, <3>6, <3>7 DEF MetricsNext, MeteredWorkerStep
    <2>2. QED
      BY <1>1, <2>1, NoInsertKeepsCounts
  <1>4. QED
    BY <1>2, <1>3

\* The counter of inserted rows never counts a retry, nor a row that is not stored.
THEOREM InsertedCountsCorrect == MetricsSpec => []InsertedCounts
  <1>1. MetricsInit => CountedInv
    <2>1. SUFFICES ASSUME MetricsInit PROVE CountedInv
      OBVIOUS
    <2>2. ASSUME NEW t \in Tables
          PROVE  /\ accepted[t] = <<>> /\ queue[t] = <<>> /\ batch[t] = <<>>
                 /\ stored[t] = <<>> /\ counted[t] = 0
      BY <2>1 DEF MetricsInit, Init
    <2>3. counted \in [Tables -> Nat]
      BY <2>1 DEF MetricsInit
    <2>5. ASSUME NEW t \in Tables PROVE counted[t] = Acked(t) /\ counted[t] <= Len(stored[t])
      <3>1. /\ Len(accepted[t]) = 0 /\ Len(queue[t]) = 0 /\ Len(batch[t]) = 0
            /\ Len(stored[t]) = 0
        BY <2>2
      <3>2. Acked(t) = 0
        BY <3>1 DEF Acked
      <3>3. QED
        BY <2>2, <3>1, <3>2
    <2>6. QED
      BY <2>3, <2>5 DEF CountedInv, InsertedCounts
  <1>2. MetricsSpec => []RowsInv
    BY MetricsImplementBuffer, RowsCorrect, PTL
  <1>3. CountedInv => InsertedCounts
    BY DEF CountedInv
  <1>4. QED
    BY <1>1, <1>2, <1>3, CountedStep, PTL DEF MetricsSpec
===============================================================================

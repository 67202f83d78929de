---------------------------- MODULE BufferMetrics ----------------------------
(***************************************************************************)
(* The metrics of the batch writer (internal/metrics, batch_writer.go):    *)
(* the gauge ClickHouseBufferDepth, which the producers and flush set each *)
(* from a length read a moment before, and the counter                     *)
(* ClickHouseRowsInserted.  Every step of BatchBuffer is taken as it is;   *)
(* flush goes on to set the gauges before its caller continues.            *)
(*                                                                         *)
(* A definition marked "Variant" is the one after it with a plausible      *)
(* mistake; no specification uses it.                                      *)
(***************************************************************************)
EXTENDS BatchBuffer

CONSTANTS
    Producers,   \* goroutines that call EnqueueRVM, EnqueueEvent, EnqueueBin
    AlertAbove   \* the depth above which BCRSBufferDepthHigh is raised: 1000

ASSUME MetricsAssumption == AlertAbove \in Nat

\* A gauge update in progress: its table and the length it has read.
Reading == [pc : {"idle", "sent", "read"}, table : Tables, len : Nat]

VARIABLES
    depth,      \* depth[t]: bcrs_clickhouse_buffer_depth
    counted,    \* counted[t]: bcrs_clickhouse_rows_inserted_total
    producer,   \* producer[p]: p's Enqueue after its row was sent
    gauges      \* the gauges that flush has set, and the length it has read

meterVars == <<depth, counted, producer, gauges>>

\* No update in progress: table and length are of no meaning.
Idle == [pc |-> "idle", table |-> FlushOrder[1], len |-> 0]

MetricsInit ==
    /\ Init
    /\ depth    = [t \in Tables |-> 0]
    /\ counted  = [t \in Tables |-> 0]
    /\ producer = [p \in Producers |-> Idle]
    /\ gauges   = [set |-> 0, pc |-> "idle", len |-> 0]
-------------------------------------------------------------------------------
(* Producers.  The row is sent, the channel's length is read, the gauge is  *)
(* set: the worker and other producers may come between any two of these.   *)

Send(p, t) ==
    /\ producer[p] = Idle
    /\ Enqueue(t)
    /\ producer' = IF accepted' = accepted THEN producer
                   ELSE [producer EXCEPT ![p] = [@ EXCEPT !.pc = "sent", !.table = t]]
    /\ UNCHANGED <<depth, counted, gauges>>

ReadLen(p) ==
    /\ producer[p].pc = "sent"
    /\ producer' = [producer EXCEPT ![p].pc = "read",
                                    ![p].len = Len(queue[producer[p].table])]
    /\ UNCHANGED <<vars, depth, counted, gauges>>

SetDepth(p) ==
    /\ producer[p].pc = "read"
    /\ depth' = [depth EXCEPT ![producer[p].table] = producer[p].len]
    /\ producer' = [producer EXCEPT ![p] = Idle]
    /\ UNCHANGED <<vars, counted, gauges>>
-------------------------------------------------------------------------------
(* The worker.                                                              *)

\* Variant: the rows are counted before the error is looked at.
RecordAttempt(t, outcome) ==
    counted' = [counted EXCEPT ![t] = @ + Len(batch[t])]

\* RecordClickHouseInsert: an insert that returned an error adds no rows.
RecordClickHouseInsert(t, outcome) ==
    counted' = [counted EXCEPT ![t] = @ + (IF outcome = "ok" THEN Len(batch[t]) ELSE 0)]

MeteredInsert(outcome) ==
    /\ FlushTable(outcome)
    /\ RecordClickHouseInsert(FlushOrder[worker.pos], outcome)
    /\ UNCHANGED <<depth, producer, gauges>>

\* What flush counts: the rows of the channel and of the worker's slice.
Depth(t) == Len(queue[t]) + Len(batch[t])

FlushReadsLen ==
    /\ FlushEnds
    /\ gauges.pc = "idle"
    /\ gauges.set < Len(FlushOrder)
    /\ gauges' = [gauges EXCEPT !.pc = "read", !.len = Depth(FlushOrder[gauges.set + 1])]
    /\ UNCHANGED <<vars, depth, counted, producer>>

FlushSetsDepth ==
    /\ gauges.pc = "read"
    /\ depth' = [depth EXCEPT ![FlushOrder[gauges.set + 1]] = gauges.len]
    /\ gauges' = [set |-> gauges.set + 1, pc |-> "idle", len |-> 0]
    /\ UNCHANGED <<vars, counted, producer>>

FlushDone ==
    /\ gauges.set = Len(FlushOrder)
    /\ Loop \/ Ack \/ Exit
    /\ gauges' = [gauges EXCEPT !.set = 0]
    /\ UNCHANGED <<depth, counted, producer>>
-------------------------------------------------------------------------------
MeteredWorkerStep ==
    \/ (DrainRow \/ DrainNext \/ SkipTable) /\ UNCHANGED meterVars
    \/ \E outcome \in Outcomes : MeteredInsert(outcome)
    \/ FlushReadsLen \/ FlushSetsDepth \/ FlushDone

MeteredProducerStep(p) == ReadLen(p) \/ SetDepth(p) \/ \E t \in Tables : Send(p, t)

MetricsNext ==
    \/ MeteredWorkerStep
    \/ WorkerSelect /\ UNCHANGED meterVars
    \/ \E p \in Producers : MeteredProducerStep(p)
    \/ /\ \/ \E f \in Flushers : CallFlush(f) \/ FlushSeesStop(f) \/ FlushCtxDone(f)
          \/ \E s \in Stoppers : CallStop(s) \/ StopReturns(s)
       /\ UNCHANGED meterVars

metricsVars == <<vars, meterVars>>

MetricsSpec == MetricsInit /\ [][MetricsNext]_metricsVars
-------------------------------------------------------------------------------
(* Properties.                                                              *)

\* Every variable has its type.
MetricsTypeOK ==
    /\ TypeOK
    /\ depth    \in [Tables -> Nat]
    /\ counted  \in [Tables -> Nat]
    /\ producer \in [Producers -> Reading]
    /\ gauges   \in [set : 0..Len(FlushOrder), pc : {"idle", "read"}, len : Nat]

\* The counter of inserted rows counts each row once, when the database has
\* acknowledged it: no retry is counted, and no row that is not in its table.
InsertedCounts ==
    \A t \in Tables : counted[t] = Acked(t) /\ counted[t] <= Len(stored[t])

\* Said of the alert BCRSBufferDepthHigh by the README: it is raised while more rows than
\* AlertAbove are pending in the batch buffer.  So once the gauge shows that many, it must
\* not show fewer as long as they are pending; but Enqueue sets it to the length of the
\* channel alone, over the value of flush.
AlertStands ==
    [][\A t \in Tables : depth[t] > AlertAbove /\ Depth(t) > AlertAbove /\ Depth(t)' > AlertAbove
          => depth'[t] > AlertAbove]_metricsVars
===============================================================================

----------------------------- MODULE BatchBuffer -----------------------------
(***************************************************************************)
(* internal/storage/batch_writer.go: producers push rows into one bounded  *)
(* channel per table; a single worker goroutine collects them in slices    *)
(* and inserts them, on size, on a ticker, on an explicit Flush and on     *)
(* Stop.  A row is the number of the Enqueue call that offered it.         *)
(*                                                                         *)
(* A definition marked "Variant" is the one after it with a plausible      *)
(* mistake; no specification uses it.                                      *)
(***************************************************************************)
EXTENDS Naturals, Sequences

CONSTANTS
    Flushers,    \* goroutines that may call Flush
    Stoppers,    \* goroutines that may call Stop or Close
    NoFlusher,   \* not a flusher: no ack channel is held
    BatchSize,   \* rows of one table that trigger a flush (CLICKHOUSE_BATCH_SIZE)
    ChanCap,     \* ChanCap[t]: the capacity of t's channel (5000, 5000, 10000)
    Outcomes,    \* how an insert may end, a subset of InsertOutcomes
    Refused,     \* Refused[t]: rows of table t that batch.Append returns an error for
    MaxRows,     \* bound: MaxRows[t] rows are offered for table t
    MaxStored    \* bound: rows in a table before an insert may be unacknowledged

Tables == {"rvm_current", "rvm_events", "rvm_bin_snapshots"}

\* The order in which drainChannels and flush go through the tables.
FlushOrder == <<"rvm_current", "rvm_events", "rvm_bin_snapshots">>

\* "unacked": the server committed the batch but the client saw an error.
InsertOutcomes == {"ok", "error", "unacked"}

ASSUME BufferAssumption ==
    /\ NoFlusher \notin Flushers
    /\ BatchSize \in Nat \ {0}
    /\ ChanCap \in [Tables -> Nat \ {0}]
    /\ Outcomes \subseteq InsertOutcomes
    /\ Refused \in [Tables -> SUBSET Nat]
    /\ \A t \in Tables : Refused[t] # {} => "error" \in Outcomes
    /\ MaxRows \in [Tables -> Nat]
    /\ MaxStored \in Nat

VARIABLES
    offered,     \* offered[t]: number of Enqueue calls for table t
    accepted,    \* accepted[t]: history of the rows the channel took, in order
    queue,       \* queue[t]: rvmChan, eventChan, binChan
    batch,       \* batch[t]: the worker's slices rvms, events, bins
    stored,      \* stored[t]: rows in the ClickHouse table, in insertion order
    worker,      \* the worker goroutine: where it is and what it does next
    stopped,     \* stopChan is closed
    stopMark,    \* stopMark[t]: rows accepted when stopChan was closed (history)
    flusher,     \* flusher[f]: state of f's call of Flush
    mark,        \* mark[f][t]: rows accepted when f called Flush (history)
    stopper      \* stopper[s]: state of s's call of Stop

rowVars    == <<offered, accepted, queue, batch, stored>>
callerVars == <<stopped, stopMark, flusher, mark, stopper>>
vars       == <<rowVars, worker, callerVars>>

WorkerState ==
    [pc : {"select", "drain", "flush", "exited"},
     pos : 1..(Len(FlushOrder) + 1),
     after : {"loop", "ack", "exit"},
     ack : Flushers \cup {NoFlusher}]

\* Back at the top of the worker's for-select.
Selecting == [pc |-> "select", pos |-> 1, after |-> "loop", ack |-> NoFlusher]

\* flush(), after which the worker loops, closes f's ack channel or returns.
Flushing(after, f) == [pc |-> "flush", pos |-> 1, after |-> after, ack |-> f]
Draining(after, f) == [pc |-> "drain", pos |-> 1, after |-> after, ack |-> f]

AcceptedCounts == [t \in Tables |-> Len(accepted[t])]

Init ==
    /\ offered  = [t \in Tables |-> 0]
    /\ accepted = [t \in Tables |-> <<>>]
    /\ queue    = [t \in Tables |-> <<>>]
    /\ batch    = [t \in Tables |-> <<>>]
    /\ stored   = [t \in Tables |-> <<>>]
    /\ worker   = Selecting
    /\ stopped  = FALSE
    /\ stopMark = [t \in Tables |-> 0]
    /\ flusher  = [f \in Flushers |-> "idle"]
    /\ mark     = [f \in Flushers |-> [t \in Tables |-> 0]]
    /\ stopper  = [s \in Stoppers |-> "idle"]

-------------------------------------------------------------------------------
(* Producers: EnqueueRVM, EnqueueEvent, EnqueueBin never block.  Nothing    *)
(* stops a producer from calling them after Stop.                           *)

\* Variant: the capacity check is off by one.
EnqueueOverfull(t) ==
    /\ offered[t] < MaxRows[t]
    /\ offered' = [offered EXCEPT ![t] = @ + 1]
    /\ \/ /\ Len(queue[t]) <= ChanCap[t]
          /\ queue'    = [queue EXCEPT ![t] = Append(@, offered[t] + 1)]
          /\ accepted' = [accepted EXCEPT ![t] = Append(@, offered[t] + 1)]
       \/ /\ Len(queue[t]) > ChanCap[t]
          /\ UNCHANGED <<queue, accepted>>
    /\ UNCHANGED <<batch, stored, worker, callerVars>>

Enqueue(t) ==
    /\ offered[t] < MaxRows[t]
    /\ offered' = [offered EXCEPT ![t] = @ + 1]
    /\ \/ /\ Len(queue[t]) < ChanCap[t]
          /\ queue'    = [queue EXCEPT ![t] = Append(@, offered[t] + 1)]
          /\ accepted' = [accepted EXCEPT ![t] = Append(@, offered[t] + 1)]
       \/ /\ Len(queue[t]) = ChanCap[t]      \* select default: the row is dropped
          /\ UNCHANGED <<queue, accepted>>
    /\ UNCHANGED <<batch, stored, worker, callerVars>>

-------------------------------------------------------------------------------
(* The worker's select.                                                     *)

\* Variant: new rows go to the front of the slice.
TakeRowFront(t) ==
    /\ queue[t] # <<>>
    /\ batch' = [batch EXCEPT ![t] = <<Head(queue[t])>> \o @]
    /\ queue' = [queue EXCEPT ![t] = Tail(@)]
    /\ UNCHANGED <<offered, accepted, stored>>

\* Variant: a slice that failed inserts have filled takes no further row.
TakeRowBounded(t) ==
    /\ queue[t] # <<>>
    /\ batch' = IF Len(batch[t]) < BatchSize
                THEN [batch EXCEPT ![t] = Append(@, Head(queue[t]))]
                ELSE batch
    /\ queue' = [queue EXCEPT ![t] = Tail(@)]
    /\ UNCHANGED <<offered, accepted, stored>>

\* The oldest row of t's channel moves to the end of the worker's slice.
TakeRow(t) ==
    /\ queue[t] # <<>>
    /\ batch' = [batch EXCEPT ![t] = Append(@, Head(queue[t]))]
    /\ queue' = [queue EXCEPT ![t] = Tail(@)]
    /\ UNCHANGED <<offered, accepted, stored>>

Receive(t) ==
    /\ worker.pc = "select"
    /\ TakeRow(t)
    /\ worker' = IF Len(batch'[t]) >= BatchSize
                 THEN Flushing("loop", NoFlusher)
                 ELSE worker
    /\ UNCHANGED callerVars

Tick ==
    /\ worker.pc = "select"
    /\ worker' = Flushing("loop", NoFlusher)
    /\ UNCHANGED <<rowVars, callerVars>>

\* Variant: a request is flushed without draining the channels first.
TakeRequestUndrained(f) ==
    /\ worker.pc = "select"
    /\ flusher[f] = "sending"
    /\ flusher' = [flusher EXCEPT ![f] = "waiting"]
    /\ worker' = Flushing("ack", f)
    /\ UNCHANGED <<rowVars, stopped, stopMark, mark, stopper>>

\* flushReqChan is unbuffered: the request and the caller's send are one step.
TakeRequest(f) ==
    /\ worker.pc = "select"
    /\ flusher[f] = "sending"
    /\ flusher' = [flusher EXCEPT ![f] = "waiting"]
    /\ worker' = Draining("ack", f)
    /\ UNCHANGED <<rowVars, stopped, stopMark, mark, stopper>>

\* Variant: the final flush does not drain the channels.
SeeStopUndrained ==
    /\ worker.pc = "select"
    /\ stopped
    /\ worker' = Flushing("exit", NoFlusher)
    /\ UNCHANGED <<rowVars, callerVars>>

\* Variant: the return after the final flush is missing.
SeeStopForever ==
    /\ worker.pc = "select"
    /\ stopped
    /\ worker' = Draining("loop", NoFlusher)
    /\ UNCHANGED <<rowVars, callerVars>>

SeeStop ==
    /\ worker.pc = "select"
    /\ stopped
    /\ worker' = Draining("exit", NoFlusher)
    /\ UNCHANGED <<rowVars, callerVars>>

-------------------------------------------------------------------------------
(* drainChannels: each channel in turn until it is seen empty, while        *)
(* producers go on.                                                         *)

DrainRow ==
    /\ worker.pc = "drain"
    /\ TakeRow(FlushOrder[worker.pos])
    /\ UNCHANGED <<worker, callerVars>>

DrainNext ==
    /\ worker.pc = "drain"
    /\ queue[FlushOrder[worker.pos]] = <<>>
    /\ worker' = IF worker.pos < Len(FlushOrder)
                 THEN [worker EXCEPT !.pos = @ + 1]
                 ELSE Flushing(worker.after, worker.ack)
    /\ UNCHANGED <<rowVars, callerVars>>

-------------------------------------------------------------------------------
(* flush: one insert per non-empty slice; a slice is emptied only when its  *)
(* insert returned no error, and the next table is tried either way.        *)

\* Variant: a slice is emptied whatever its insert returned.
InsertForgets(t, outcome) ==
    /\ outcome = "unacked" => Len(stored[t]) + Len(batch[t]) <= MaxStored
    /\ stored' = IF outcome = "error"
                 THEN stored
                 ELSE [stored EXCEPT ![t] = @ \o batch[t]]
    /\ batch'  = [batch EXCEPT ![t] = <<>>]

\* Variant: a slice that was inserted is not emptied.
InsertKeeps(t, outcome) ==
    /\ stored' = IF outcome = "error"
                 THEN stored
                 ELSE [stored EXCEPT ![t] = @ \o batch[t]]
    /\ UNCHANGED batch

RowsOf(s) == {s[i] : i \in 1..Len(s)}

\* One refused row in the slice and no row of it is sent.
InsertRows(t, outcome) ==
    /\ RowsOf(batch[t]) \cap Refused[t] # {} => outcome = "error"
    /\ outcome = "unacked" => Len(stored[t]) + Len(batch[t]) <= MaxStored
    /\ stored' = IF outcome = "error"
                 THEN stored
                 ELSE [stored EXCEPT ![t] = @ \o batch[t]]
    /\ batch'  = IF outcome = "ok" THEN [batch EXCEPT ![t] = <<>>] ELSE batch

\* Variant: flush returns at the first insert that fails.
FlushTableOrGiveUp(outcome) ==
    /\ worker.pc = "flush"
    /\ worker.pos <= Len(FlushOrder)
    /\ batch[FlushOrder[worker.pos]] # <<>>
    /\ InsertRows(FlushOrder[worker.pos], outcome)
    /\ worker' = [worker EXCEPT !.pos = IF outcome = "ok" THEN @ + 1
                                      ELSE Len(FlushOrder) + 1]
    /\ UNCHANGED <<offered, accepted, queue, callerVars>>

FlushTable(outcome) ==
    /\ worker.pc = "flush"
    /\ worker.pos <= Len(FlushOrder)
    /\ batch[FlushOrder[worker.pos]] # <<>>
    /\ InsertRows(FlushOrder[worker.pos], outcome)
    /\ worker' = [worker EXCEPT !.pos = @ + 1]
    /\ UNCHANGED <<offered, accepted, queue, callerVars>>

SkipTable ==
    /\ worker.pc = "flush"
    /\ worker.pos <= Len(FlushOrder)
    /\ batch[FlushOrder[worker.pos]] = <<>>
    /\ worker' = [worker EXCEPT !.pos = @ + 1]
    /\ UNCHANGED <<rowVars, callerVars>>

FlushEnds == worker.pc = "flush" /\ worker.pos > Len(FlushOrder)

\* A size or ticker flush ends.
Loop ==
    /\ FlushEnds
    /\ worker.after = "loop"
    /\ worker' = Selecting
    /\ UNCHANGED <<rowVars, callerVars>>

\* close(ack) wakes the caller of Flush if it is still waiting.
Ack ==
    /\ FlushEnds
    /\ worker.after = "ack"
    /\ worker' = Selecting
    /\ flusher' = [f \in Flushers |->
                      IF f = worker.ack /\ flusher[f] = "waiting"
                      THEN "acked" ELSE flusher[f]]
    /\ UNCHANGED <<rowVars, stopped, stopMark, mark, stopper>>

Exit ==
    /\ FlushEnds
    /\ worker.after = "exit"
    /\ worker' = [worker EXCEPT !.pc = "exited"]
    /\ UNCHANGED <<rowVars, callerVars>>

-------------------------------------------------------------------------------
(* Flush and Stop, as their callers see them.                               *)

CallFlush(f) ==
    /\ flusher[f] = "idle"
    /\ flusher' = [flusher EXCEPT ![f] = "sending"]
    /\ mark' = [mark EXCEPT ![f] = AcceptedCounts]
    /\ UNCHANGED <<rowVars, worker, stopped, stopMark, stopper>>

\* Variant: only the second select of Flush, for the ack, watches stopChan.
FlushSeesStopWaiting(f) ==
    /\ flusher[f] = "waiting"
    /\ stopped
    /\ flusher' = [flusher EXCEPT ![f] = "returned"]
    /\ UNCHANGED <<rowVars, worker, stopped, stopMark, mark, stopper>>

\* Both selects of Flush also return when stopChan is closed ...
FlushSeesStop(f) ==
    /\ flusher[f] \in {"sending", "waiting"}
    /\ stopped
    /\ flusher' = [flusher EXCEPT ![f] = "returned"]
    /\ UNCHANGED <<rowVars, worker, stopped, stopMark, mark, stopper>>

\* ... and when the caller's context ends.
FlushCtxDone(f) ==
    /\ flusher[f] \in {"sending", "waiting"}
    /\ flusher' = [flusher EXCEPT ![f] = "returned"]
    /\ UNCHANGED <<rowVars, worker, stopped, stopMark, mark, stopper>>

\* stopOnce: only the first caller closes stopChan; all wait for the worker.
CallStop(s) ==
    /\ stopper[s] = "idle"
    /\ stopper' = [stopper EXCEPT ![s] = "waiting"]
    /\ stopped' = TRUE
    /\ stopMark' = IF stopped THEN stopMark ELSE AcceptedCounts
    /\ UNCHANGED <<rowVars, worker, flusher, mark>>

StopReturns(s) ==
    /\ stopper[s] = "waiting"
    /\ worker.pc = "exited"
    /\ stopper' = [stopper EXCEPT ![s] = "returned"]
    /\ UNCHANGED <<rowVars, worker, stopped, stopMark, flusher, mark>>

-------------------------------------------------------------------------------
WorkerStep ==
    \/ DrainRow \/ DrainNext \/ SkipTable \/ Loop \/ Ack \/ Exit
    \/ \E outcome \in Outcomes : FlushTable(outcome)

WorkerSelect ==
    \/ \E t \in Tables : Receive(t)
    \/ Tick
    \/ \E f \in Flushers : TakeRequest(f)
    \/ SeeStop

CallerStep ==
    \/ \E t \in Tables : Enqueue(t)
    \/ \E f \in Flushers : CallFlush(f) \/ FlushSeesStop(f) \/ FlushCtxDone(f)
    \/ \E s \in Stoppers : CallStop(s) \/ StopReturns(s)

Next == WorkerStep \/ WorkerSelect \/ CallerStep

Spec == Init /\ [][Next]_vars

\* The worker keeps running and an insert ends within its 10 s context (weak
\* fairness); Go's select picks among the ready cases at random, so a case that
\* is ready again and again is taken (strong fairness); a blocked caller whose
\* channel is closed wakes up (weak fairness).  Nothing is assumed of contexts,
\* producers or callers.
WorkerFairness ==
    /\ WF_vars(WorkerStep)
    /\ \A t \in Tables : SF_vars(Receive(t))
    /\ \A f \in Flushers : SF_vars(TakeRequest(f))
    /\ WF_vars(Tick)
    /\ SF_vars(SeeStop)
    /\ \A f \in Flushers : WF_vars(FlushSeesStop(f))
    /\ \A s \in Stoppers : WF_vars(StopReturns(s))

FairSpec == Spec /\ WorkerFairness

\* In addition the database is not down for ever: an insert that is tried again
\* and again succeeds in the end.
InsertOk(t) == worker.pos <= Len(FlushOrder) /\ FlushOrder[worker.pos] = t /\ FlushTable("ok")

RecoveringSpec == FairSpec /\ \A t \in Tables : SF_vars(InsertOk(t))
-------------------------------------------------------------------------------
(* Properties.                                                              *)

\* Rows the database has acknowledged: accepted and no longer held in memory.
Acked(t) == Len(accepted[t]) - Len(batch[t]) - Len(queue[t])

\* Every variable has its type; a channel never holds more than its capacity.
TypeOK ==
    /\ offered  \in [Tables -> Nat]
    /\ accepted \in [Tables -> Seq(Nat)]
    /\ queue    \in [Tables -> Seq(Nat)]
    /\ batch    \in [Tables -> Seq(Nat)]
    /\ stored   \in [Tables -> Seq(Nat)]
    /\ worker   \in WorkerState
    /\ worker.pc = "drain" => worker.pos <= Len(FlushOrder)
    /\ stopped  \in BOOLEAN
    /\ stopMark \in [Tables -> Nat]
    /\ flusher  \in [Flushers -> {"idle", "sending", "waiting", "acked", "returned"}]
    /\ mark     \in [Flushers -> [Tables -> Nat]]
    /\ stopper  \in [Stoppers -> {"idle", "waiting", "returned"}]
    /\ \A t \in Tables : Len(queue[t]) <= ChanCap[t]

\* What memory still holds of a table is exactly the accepted rows that were not
\* acknowledged, in the order of acceptance: the channel, the slice, the drain
\* loops and the retry of a failed insert lose, duplicate and reorder nothing.
InOrder ==
    \A t \in Tables :
        batch[t] \o queue[t] = SubSeq(accepted[t], Acked(t) + 1, Len(accepted[t]))

\* A row leaves memory only for its table, and a table holds accepted rows only.
AckedRowsDurable ==
    \A t \in Tables :
        /\ \A i \in 1..Acked(t) : accepted[t][i] \in RowsOf(stored[t])
        /\ RowsOf(stored[t]) \subseteq RowsOf(accepted[t])

\* As long as a reported insert error means that nothing was inserted, every
\* accepted row is in exactly one place and enters its table once, in order,
\* however often inserts fail and are retried.
ExactlyOnce ==
    "unacked" \notin Outcomes =>
        \A t \in Tables : stored[t] \o batch[t] \o queue[t] = accepted[t]

\* When Flush returns through its ack channel, every row accepted before the call
\* has at least been taken from its channel and handed to an insert; it is in its
\* table unless an insert failed.
FlushCovers ==
    \A f \in Flushers : flusher[f] = "acked" =>
        \A t \in Tables :
            /\ mark[f][t] <= Len(accepted[t]) - Len(queue[t])
            /\ Outcomes = {"ok"} => mark[f][t] <= Acked(t)

\* When the worker has exited, the same holds of the rows accepted before Stop.
StopCovers ==
    worker.pc = "exited" =>
        \A t \in Tables :
            /\ stopMark[t] <= Len(accepted[t]) - Len(queue[t])
            /\ Outcomes = {"ok"} => stopMark[t] <= Acked(t)

\* The batch buffer implements one log per table: what it holds of a table leaves
\* it only from the front and for the table, and a row is inserted again only after
\* an insert without an answer.
Log == INSTANCE TableLog
           WITH Rows      <- [t \in Tables |-> 1..MaxRows[t]],
                MayRepeat <- "unacked" \in Outcomes,
                waiting   <- [t \in Tables |-> batch[t] \o queue[t]],
                durable   <- [t \in Tables |-> RowsOf(stored[t])]

LogImplemented == Log!LogSpec

\* Flush returns even if its context never ends, whatever inserts, other
\* flushers and Stop do meanwhile.
FlushReturns ==
    \A f \in Flushers :
        flusher[f] \in {"sending", "waiting"} ~> flusher[f] \in {"acked", "returned"}

\* Stop returns, for every caller: the worker notices the closed channel however
\* busy its other channels are, and its last flush ends.
StopEnds == \A s \in Stoppers : stopper[s] = "waiting" ~> stopper[s] = "returned"

\* If the database recovers, an accepted row reaches its table without any further
\* call, by size or by ticker, unless the buffer is stopped first.  A row that
\* batch.Append refuses keeps the rows of its own table waiting for ever, never
\* those of another one: flush goes on after an error.
Delivered ==
    \A t \in Tables : \A row \in 1..MaxRows[t] :
        row \in RowsOf(accepted[t])
            ~> \/ row \in RowsOf(stored[t])
               \/ RowsOf(accepted[t]) \cap Refused[t] # {}
               \/ stopped
===============================================================================

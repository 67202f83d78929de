--------------------------- MODULE BatchBufferProofs ---------------------------
(* Theorems about BatchBuffer, for every value of its constants. *)
EXTENDS BatchBuffer, RowSequences, TLAPS

\* Each action of Next, in one list that the proofs split on.
LEMMA NextCases ==
    ASSUME Next
    PROVE  \/ \E t \in Tables : Enqueue(t)
           \/ \E t \in Tables : Receive(t)
           \/ Tick
           \/ \E f \in Flushers : TakeRequest(f)
           \/ SeeStop
           \/ DrainRow
           \/ DrainNext
           \/ \E outcome \in Outcomes : FlushTable(outcome)
           \/ SkipTable
           \/ Loop
           \/ Ack
           \/ Exit
           \/ \E f \in Flushers : CallFlush(f) \/ FlushSeesStop(f) \/ FlushCtxDone(f)
           \/ \E s \in Stoppers : CallStop(s) \/ StopReturns(s)
  BY DEF Next, WorkerStep, WorkerSelect, CallerStep

\* The worker only ever indexes FlushOrder inside its domain.
LEMMA FlushOrderTables ==
    /\ Len(FlushOrder) = 3
    /\ \A p \in 1..3 : FlushOrder[p] \in Tables
    /\ \A t \in Tables : \E p \in 1..3 : FlushOrder[p] = t
  <1>1. Len(FlushOrder) = 3
    BY DEF FlushOrder
  <1>2. \A p \in 1..3 : FlushOrder[p] \in Tables
    BY DEF FlushOrder, Tables
  <1>3. /\ FlushOrder[1] = "rvm_current"
        /\ FlushOrder[2] = "rvm_events"
        /\ FlushOrder[3] = "rvm_bin_snapshots"
    BY DEF FlushOrder
  <1>4. QED
    BY <1>1, <1>2, <1>3 DEF Tables

\* Moving a row from a channel to the worker's slice keeps the types.
LEMMA TakeRowType ==
    ASSUME TypeOK, NEW t \in Tables, TakeRow(t)
    PROVE  /\ queue' \in [Tables -> Seq(Nat)]
           /\ batch' \in [Tables -> Seq(Nat)]
           /\ \A u \in Tables : Len(queue'[u]) <= ChanCap[u]
           /\ Len(queue'[t]) = Len(queue[t]) - 1
           /\ Len(batch'[t]) = Len(batch[t]) + 1
  <1>1. queue[t] \in Seq(Nat) /\ batch[t] \in Seq(Nat) /\ queue[t] # <<>>
    BY DEF TypeOK, TakeRow
  <1>2. /\ Head(queue[t]) \in Nat
        /\ Tail(queue[t]) \in Seq(Nat)
        /\ Len(Tail(queue[t])) = Len(queue[t]) - 1
    BY <1>1
  <1>3. /\ Append(batch[t], Head(queue[t])) \in Seq(Nat)
        /\ Len(Append(batch[t], Head(queue[t]))) = Len(batch[t]) + 1
    BY <1>1, <1>2
  <1>4. /\ batch'[t] = Append(batch[t], Head(queue[t]))
        /\ queue'[t] = Tail(queue[t])
    BY DEF TypeOK, TakeRow
  <1>5. \A u \in Tables : Len(queue'[u]) <= ChanCap[u]
    <2>1. \A u \in Tables : Len(queue[u]) <= ChanCap[u] /\ ChanCap[u] \in Nat
      BY BufferAssumption DEF TypeOK, BufferAssumption
    <2>2. \A u \in Tables \ {t} : queue'[u] = queue[u]
      BY DEF TypeOK, TakeRow
    <2>3. Len(Tail(queue[t])) <= ChanCap[t]
      BY <1>1, <1>2, <2>1
    <2>4. QED
      BY <1>4, <2>1, <2>2, <2>3
  <1>6. QED
    BY <1>2, <1>3, <1>4, <1>5 DEF TypeOK, TakeRow

\* The records the worker is set to are worker states.
LEMMA WorkerTargets ==
    /\ Selecting \in WorkerState /\ Selecting.pc = "select"
    /\ \A after \in {"loop", "ack", "exit"}, f \in Flushers \cup {NoFlusher} :
          /\ Flushing(after, f) \in WorkerState /\ Flushing(after, f).pc = "flush"
          /\ Draining(after, f) \in WorkerState /\ Draining(after, f).pos = 1
  BY FlushOrderTables DEF WorkerState, Selecting, Flushing, Draining

\* The worker's record, with the length of FlushOrder spelled out.
LEMMA WorkerFields ==
    ASSUME TypeOK
    PROVE  /\ worker = [pc |-> worker.pc, pos |-> worker.pos, after |-> worker.after, ack |-> worker.ack]
           /\ worker.pc \in {"select", "drain", "flush", "exited"}
           /\ worker.pos \in 1..4
           /\ worker.after \in {"loop", "ack", "exit"}
           /\ worker.ack \in Flushers \cup {NoFlusher}
           /\ worker.pc = "drain" => worker.pos \in 1..3
           /\ worker.pos <= Len(FlushOrder) => FlushOrder[worker.pos] \in Tables
  <1>1. WorkerState = [pc : {"select", "drain", "flush", "exited"}, pos : 1..4,
                       after : {"loop", "ack", "exit"}, ack : Flushers \cup {NoFlusher}]
    BY FlushOrderTables DEF WorkerState
  <1>2. worker \in WorkerState /\ (worker.pc = "drain" => worker.pos <= 3)
    BY FlushOrderTables DEF TypeOK
  <1>3. QED
    BY <1>1, <1>2, FlushOrderTables

\* Moving on to the next table, or ending the flush, gives a worker state.
LEMMA WorkerAdvance ==
    ASSUME TypeOK, worker.pos <= 3
    PROVE  /\ [worker EXCEPT !.pos = @ + 1] \in WorkerState
           /\ [worker EXCEPT !.pos = @ + 1].pc = worker.pc
           /\ [worker EXCEPT !.pos = @ + 1].pos = worker.pos + 1
  BY WorkerFields, FlushOrderTables DEF WorkerState

\* Every step of the specification keeps the types.
LEMMA TypeStep == TypeOK /\ [Next]_vars => TypeOK'
  <1> SUFFICES ASSUME TypeOK, [Next]_vars PROVE TypeOK'
    OBVIOUS
  <1> USE DEF rowVars, callerVars
  <1>1. ASSUME NEW t \in Tables, Enqueue(t) PROVE TypeOK'
    <2>1. /\ Append(queue[t], offered[t] + 1) \in Seq(Nat)
          /\ Append(accepted[t], offered[t] + 1) \in Seq(Nat)
          /\ Len(Append(queue[t], offered[t] + 1)) = Len(queue[t]) + 1
      BY DEF TypeOK
    <2>2. /\ offered' \in [Tables -> Nat]
          /\ accepted' \in [Tables -> Seq(Nat)]
          /\ queue' \in [Tables -> Seq(Nat)]
      <3>1. offered' \in [Tables -> Nat]
        BY <1>1 DEF TypeOK, Enqueue
      <3>2. CASE UNCHANGED <<queue, accepted>>
        BY <3>1, <3>2 DEF TypeOK
      <3>3. CASE /\ queue' = [queue EXCEPT ![t] = Append(@, offered[t] + 1)]
                 /\ accepted' = [accepted EXCEPT ![t] = Append(@, offered[t] + 1)]
        BY <2>1, <3>1, <3>3 DEF TypeOK
      <3>4. QED
        BY <1>1, <3>2, <3>3 DEF Enqueue
    <2>3. \A u \in Tables : Len(queue'[u]) <= ChanCap[u]
      <3>1. CASE UNCHANGED queue
        BY <3>1 DEF TypeOK
      <3>2. CASE /\ Len(queue[t]) < ChanCap[t]
                 /\ queue' = [queue EXCEPT ![t] = Append(@, offered[t] + 1)]
        <4>1. \A u \in Tables \ {t} : queue'[u] = queue[u]
          BY <3>2 DEF TypeOK
        <4>2. queue'[t] = Append(queue[t], offered[t] + 1)
          BY <3>2 DEF TypeOK
        <4>3. Len(queue[t]) \in Nat /\ ChanCap[t] \in Nat
          BY BufferAssumption DEF TypeOK, BufferAssumption
        <4>4. Len(queue'[t]) <= ChanCap[t]
          BY <2>1, <3>2, <4>2, <4>3
        <4>5. QED
          BY <4>1, <4>4 DEF TypeOK
      <3>3. QED
        BY <1>1, <3>1, <3>2 DEF Enqueue
    <2>4. QED
      BY <1>1, <2>2, <2>3 DEF TypeOK, Enqueue
  <1>2. ASSUME NEW t \in Tables, Receive(t) PROVE TypeOK'
    <2>1. TakeRow(t)
      BY <1>2 DEF Receive
    <2>2. worker' \in WorkerState /\ worker'.pc # "drain"
      BY <1>2, WorkerTargets DEF TypeOK, Receive
    <2>3. QED
      BY <1>2, <2>1, <2>2, TakeRowType DEF TypeOK, Receive, TakeRow
  <1>3. CASE Tick
    BY <1>3, WorkerTargets DEF TypeOK, Tick
  <1>4. ASSUME NEW f \in Flushers, TakeRequest(f) PROVE TypeOK'
    <2>1. worker' \in WorkerState /\ worker'.pos <= Len(FlushOrder)
      BY <1>4, WorkerTargets, FlushOrderTables DEF TakeRequest
    <2>2. QED
      BY <1>4, <2>1 DEF TypeOK, TakeRequest
  <1>5. CASE SeeStop
    <2>1. worker' \in WorkerState /\ worker'.pos <= Len(FlushOrder)
      BY <1>5, WorkerTargets, FlushOrderTables DEF SeeStop
    <2>2. QED
      BY <1>5, <2>1 DEF TypeOK, SeeStop
  <1>6. CASE DrainRow
    <2>1. FlushOrder[worker.pos] \in Tables
      BY <1>6, FlushOrderTables, WorkerFields DEF DrainRow
    <2>2. QED
      BY <1>6, <2>1, TakeRowType DEF TypeOK, DrainRow, TakeRow
  <1>7. CASE DrainNext
    <2>1. worker' \in WorkerState /\ (worker'.pc = "drain" => worker'.pos <= Len(FlushOrder))
      BY <1>7, WorkerTargets, WorkerFields, WorkerAdvance, FlushOrderTables DEF DrainNext
    <2>2. QED
      BY <1>7, <2>1 DEF TypeOK, DrainNext
  <1>8. ASSUME NEW outcome \in Outcomes, FlushTable(outcome) PROVE TypeOK'
    <2>1. FlushOrder[worker.pos] \in Tables
      BY <1>8, WorkerFields DEF FlushTable
    <2>2. PICK t \in Tables : t = FlushOrder[worker.pos]
      BY <2>1
    <2>3. batch[t] \in Seq(Nat) /\ stored[t] \in Seq(Nat) /\ <<>> \in Seq(Nat)
      BY DEF TypeOK
    <2>4. stored[t] \o batch[t] \in Seq(Nat)
      BY <2>3
    <2>5. batch' \in [Tables -> Seq(Nat)] /\ stored' \in [Tables -> Seq(Nat)]
      BY <1>8, <2>2, <2>3, <2>4 DEF TypeOK, FlushTable, InsertRows
    <2>6. worker' \in WorkerState /\ worker'.pc = "flush"
      BY <1>8, WorkerAdvance, FlushOrderTables DEF FlushTable
    <2>7. QED
      BY <1>8, <2>5, <2>6 DEF TypeOK, FlushTable
  <1>9. CASE SkipTable
    <2>1. worker' \in WorkerState /\ worker'.pc = "flush"
      BY <1>9, WorkerAdvance, FlushOrderTables DEF SkipTable
    <2>2. QED
      BY <1>9, <2>1 DEF TypeOK, SkipTable
  <1>10. CASE Loop
    BY <1>10, WorkerTargets DEF TypeOK, Loop
  <1>11. CASE Ack
    BY <1>11, WorkerTargets DEF TypeOK, Ack
  <1>12. CASE Exit
    <2>1. worker' \in WorkerState /\ worker'.pc = "exited"
      BY <1>12 DEF TypeOK, Exit, WorkerState
    <2>2. QED
      BY <1>12, <2>1 DEF TypeOK, Exit
  <1>13. ASSUME NEW f \in Flushers, CallFlush(f) \/ FlushSeesStop(f) \/ FlushCtxDone(f)
         PROVE  TypeOK'
    <2>1. AcceptedCounts \in [Tables -> Nat]
      BY DEF TypeOK, AcceptedCounts
    <2>2. QED
      BY <1>13, <2>1 DEF TypeOK, CallFlush, FlushSeesStop, FlushCtxDone
  <1>14. ASSUME NEW s \in Stoppers, CallStop(s) \/ StopReturns(s) PROVE TypeOK'
    <2>1. AcceptedCounts \in [Tables -> Nat]
      BY DEF TypeOK, AcceptedCounts
    <2>2. QED
      BY <1>14, <2>1 DEF TypeOK, CallStop, StopReturns
  <1>15. CASE UNCHANGED vars
    BY <1>15 DEF TypeOK, vars
  <1>16. QED
    BY <1>1, <1>2, <1>3, <1>4, <1>5, <1>6, <1>7, <1>8, <1>9, <1>10, <1>11,
       <1>12, <1>13, <1>14, <1>15, NextCases

LEMMA TypeInit == Init => TypeOK
  <1> SUFFICES ASSUME Init PROVE TypeOK
    OBVIOUS
  <1>1. <<>> \in Seq(Nat) /\ Len(<<>>) = 0
    OBVIOUS
  <1>2. \A t \in Tables : Len(queue[t]) <= ChanCap[t]
    BY <1>1, BufferAssumption DEF Init, BufferAssumption
  <1>3. QED
    BY <1>1, <1>2, WorkerTargets DEF Init, TypeOK

\* Type correctness of batch_writer.go's state, for any number of flushers and
\* stoppers, any capacities and batch size, and any mix of insert outcomes.
THEOREM TypeCorrect == Spec => []TypeOK
  <1>1. QED
    BY TypeInit, TypeStep, PTL DEF Spec

-------------------------------------------------------------------------------
(* The rows: an inductive invariant.                                        *)

\* The slice and then the channel hold the accepted rows past Acked(t).
HeldInv == \A t \in Tables : Ends(accepted[t], batch[t], queue[t])

\* A row is the number of an Enqueue call that has been made.
OfferedInv ==
    \A t \in Tables : \A i \in 1..Len(accepted[t]) : accepted[t][i] <= offered[t]

RowsInv == TypeOK /\ HeldInv /\ OfferedInv /\ AckedRowsDurable /\ ExactlyOnce

\* A non-empty slice is handed to an insert; nothing else moves.
Insert(t, outcome) ==
    /\ batch[t] # <<>>
    /\ InsertRows(t, outcome)
    /\ UNCHANGED <<offered, accepted, queue>>

\* Whatever the goroutines do, the rows change in one of three ways.
LEMMA RowEffects ==
    ASSUME TypeOK, [Next]_vars
    PROVE  \/ UNCHANGED rowVars
           \/ \E t \in Tables : Enqueue(t)
           \/ \E t \in Tables : TakeRow(t)
           \/ \E t \in Tables, outcome \in Outcomes : Insert(t, outcome)
  <1>1. ASSUME NEW t \in Tables, Receive(t) PROVE \E u \in Tables : TakeRow(u)
    BY <1>1 DEF Receive
  <1>2. ASSUME DrainRow PROVE \E u \in Tables : TakeRow(u)
    BY <1>2, WorkerFields, FlushOrderTables DEF DrainRow
  <1>3. ASSUME NEW outcome \in Outcomes, FlushTable(outcome)
        PROVE  \E u \in Tables : Insert(u, outcome)
    <2>1. FlushOrder[worker.pos] \in Tables
      BY <1>3, WorkerFields DEF FlushTable
    <2>2. QED
      BY <1>3, <2>1 DEF FlushTable, Insert
  <1>4. CASE \/ Tick \/ SeeStop \/ DrainNext \/ SkipTable \/ Loop \/ Ack \/ Exit
             \/ \E f \in Flushers : \/ TakeRequest(f) \/ CallFlush(f)
                                    \/ FlushSeesStop(f) \/ FlushCtxDone(f)
             \/ \E s \in Stoppers : CallStop(s) \/ StopReturns(s)
             \/ UNCHANGED vars
    BY <1>4 DEF Tick, SeeStop, DrainNext, SkipTable, Loop, Ack, Exit, TakeRequest, CallFlush,
                FlushSeesStop, FlushCtxDone, CallStop, StopReturns, vars
  <1>5. QED
    BY <1>1, <1>2, <1>3, <1>4, NextCases

\* What the lemmas about sequences need to know of table t.
LEMMA TableRows ==
    ASSUME TypeOK, NEW t \in Tables
    PROVE  /\ offered[t] \in Nat
           /\ accepted[t] \in Seq(Nat) /\ queue[t] \in Seq(Nat)
           /\ batch[t] \in Seq(Nat) /\ stored[t] \in Seq(Nat)
  BY DEF TypeOK

\* Acked(t) is a length: the rows of memory are among the accepted ones.
LEMMA AckedRange ==
    ASSUME TypeOK, NEW t \in Tables, Ends(accepted[t], batch[t], queue[t])
    PROVE  /\ Acked(t) \in Nat
           /\ Acked(t) <= Len(accepted[t])
           /\ Len(accepted[t]) = Acked(t) + Len(batch[t]) + Len(queue[t])
  BY TableRows, EndsLengths, ZenonT(40) DEF Acked

\* Offering a row keeps the invariant, whether it is taken or dropped.
LEMMA EnqueueKeepsRows ==
    ASSUME RowsInv, TypeOK', NEW t \in Tables, Enqueue(t)
    PROVE  RowsInv'
  <1>1. /\ batch' = batch /\ stored' = stored
        /\ offered'[t] = offered[t] + 1
        /\ \A u \in Tables : u # t => /\ offered'[u] = offered[u]
                                      /\ queue'[u] = queue[u]
                                      /\ accepted'[u] = accepted[u]
    BY DEF RowsInv, TypeOK, Enqueue
  <1>2. \/ queue'[t] = queue[t] /\ accepted'[t] = accepted[t]
        \/ /\ queue'[t] = Append(queue[t], offered[t] + 1)
           /\ accepted'[t] = Append(accepted[t], offered[t] + 1)
    BY DEF RowsInv, TypeOK, Enqueue
  <1>3. ASSUME NEW u \in Tables
        PROVE  /\ Ends(accepted'[u], batch'[u], queue'[u])
               /\ Acked(u)' = Acked(u)
               /\ \A i \in 1..Len(accepted[u]) : /\ i \in 1..Len(accepted'[u])
                                                 /\ accepted'[u][i] = accepted[u][i]
    <2>1. CASE queue'[u] = queue[u] /\ accepted'[u] = accepted[u]
      BY <1>1, <2>1 DEF RowsInv, HeldInv, Acked
    <2>2. CASE /\ u = t
               /\ queue'[t] = Append(queue[t], offered[t] + 1)
               /\ accepted'[t] = Append(accepted[t], offered[t] + 1)
      <3>1. /\ offered[t] + 1 \in Nat
            /\ accepted[t] \in Seq(Nat) /\ queue[t] \in Seq(Nat) /\ batch[t] \in Seq(Nat)
        BY TableRows DEF RowsInv
      <3>2. Ends(accepted'[t], batch'[t], queue'[t])
        BY <1>1, <2>2, <3>1, EndsAppend DEF RowsInv, HeldInv
      <3>3. /\ Len(accepted'[t]) = Len(accepted[t]) + 1
            /\ Len(queue'[t]) = Len(queue[t]) + 1
            /\ \A i \in 1..Len(accepted[t]) : accepted'[t][i] = accepted[t][i]
        BY <2>2, <3>1, AppendRow
      <3>4. Len(accepted[t]) \in Nat /\ Len(queue[t]) \in Nat /\ Len(batch[t]) \in Nat
        BY <3>1
      <3>5. Acked(t)' = Acked(t)
        BY <1>1, <3>3, <3>4 DEF Acked
      <3>6. QED
        BY <2>2, <3>2, <3>3, <3>4, <3>5
    <2>3. QED
      BY <1>1, <1>2, <2>1, <2>2
  <1>4. OfferedInv'
    <2>1. ASSUME NEW u \in Tables, queue'[u] = queue[u], accepted'[u] = accepted[u],
                 NEW i \in 1..Len(accepted'[u])
          PROVE  accepted'[u][i] <= offered'[u]
      <3>1. accepted[u] \in Seq(Nat) /\ offered[u] \in Nat /\ i \in 1..Len(accepted[u])
        BY <2>1, TableRows DEF RowsInv
      <3>2. accepted[u][i] \in Nat /\ accepted[u][i] <= offered[u]
        BY <3>1 DEF RowsInv, OfferedInv
      <3>3. offered'[u] = offered[u] \/ offered'[u] = offered[u] + 1
        BY <1>1
      <3>4. QED
        BY <2>1, <3>1, <3>2, <3>3
    <2>2. ASSUME accepted'[t] = Append(accepted[t], offered[t] + 1),
                 NEW i \in 1..Len(accepted'[t])
          PROVE  accepted'[t][i] <= offered'[t]
      <3>1. accepted[t] \in Seq(Nat) /\ offered[t] \in Nat /\ offered[t] + 1 \in Nat
        BY TableRows DEF RowsInv
      <3>2. /\ Len(accepted'[t]) = Len(accepted[t]) + 1
            /\ accepted'[t][Len(accepted[t]) + 1] = offered[t] + 1
            /\ \A j \in 1..Len(accepted[t]) : accepted'[t][j] = accepted[t][j]
        BY <2>2, <3>1, AppendRow
      <3>3. CASE i \in 1..Len(accepted[t])
        <4>1. accepted[t][i] \in Nat /\ accepted[t][i] <= offered[t]
          BY <3>1, <3>3 DEF RowsInv, OfferedInv
        <4>2. QED
          BY <1>1, <3>1, <3>2, <3>3, <4>1
      <3>4. CASE i = Len(accepted[t]) + 1
        BY <1>1, <3>1, <3>2, <3>4
      <3>5. i \in 1..Len(accepted[t]) \/ i = Len(accepted[t]) + 1
        BY <3>1, <3>2
      <3>6. QED
        BY <3>3, <3>4, <3>5
    <2>3. QED
      BY <1>1, <1>2, <2>1, <2>2 DEF OfferedInv
  <1>5. AckedRowsDurable'
    <2>1. ASSUME NEW u \in Tables
          PROVE  /\ \A i \in 1..Acked(u)' : accepted'[u][i] \in RowsOf(stored'[u])
                 /\ RowsOf(stored'[u]) \subseteq RowsOf(accepted'[u])
      <3>1. \A i \in 1..Acked(u) : i \in 1..Len(accepted[u])
        BY AckedRange, TableRows DEF RowsInv, HeldInv
      <3>2. RowsOf(accepted[u]) \subseteq RowsOf(accepted'[u])
        BY <1>3 DEF RowsOf
      <3>3. /\ \A i \in 1..Acked(u) : accepted[u][i] \in RowsOf(stored[u])
            /\ RowsOf(stored[u]) \subseteq RowsOf(accepted[u])
        BY DEF RowsInv, AckedRowsDurable
      <3>4. QED
        BY <1>1, <1>3, <3>1, <3>2, <3>3
    <2>2. QED
      BY <2>1 DEF AckedRowsDurable
  <1>6. ExactlyOnce'
    <2>1. ASSUME "unacked" \notin Outcomes, NEW u \in Tables
          PROVE  stored'[u] \o batch'[u] \o queue'[u] = accepted'[u]
      <3>1. CASE queue'[u] = queue[u] /\ accepted'[u] = accepted[u]
        BY <1>1, <2>1, <3>1 DEF RowsInv, ExactlyOnce
      <3>2. CASE /\ u = t
                 /\ queue'[t] = Append(queue[t], offered[t] + 1)
                 /\ accepted'[t] = Append(accepted[t], offered[t] + 1)
        <4>1. /\ offered[t] + 1 \in Nat /\ queue[t] \in Seq(Nat)
              /\ stored[t] \in Seq(Nat) /\ batch[t] \in Seq(Nat)
          BY TableRows DEF RowsInv
        <4>2. stored[t] \o batch[t] \in Seq(Nat)
          BY <4>1, ConcatRow
        <4>3. (stored[t] \o batch[t]) \o Append(queue[t], offered[t] + 1)
                = Append((stored[t] \o batch[t]) \o queue[t], offered[t] + 1)
          BY <4>1, <4>2, ConcatAppend
        <4>4. QED
          BY <1>1, <2>1, <3>2, <4>3 DEF RowsInv, ExactlyOnce
      <3>3. QED
        BY <1>1, <1>2, <3>1, <3>2
    <2>2. QED
      BY <2>1 DEF ExactlyOnce
  <1>7. QED
    BY <1>3, <1>4, <1>5, <1>6 DEF RowsInv, HeldInv

\* So does moving a row from the channel to the slice: what is held is the same.
LEMMA TakeKeepsRows ==
    ASSUME RowsInv, TypeOK', NEW t \in Tables, TakeRow(t)
    PROVE  RowsInv'
  <1>1. /\ offered' = offered /\ accepted' = accepted /\ stored' = stored
        /\ queue[t] # <<>>
        /\ batch'[t] = Append(batch[t], Head(queue[t]))
        /\ queue'[t] = Tail(queue[t])
        /\ \A u \in Tables : u # t => batch'[u] = batch[u] /\ queue'[u] = queue[u]
    BY DEF RowsInv, TypeOK, TakeRow
  <1>2. /\ accepted[t] \in Seq(Nat) /\ queue[t] \in Seq(Nat)
        /\ batch[t] \in Seq(Nat) /\ stored[t] \in Seq(Nat)
    BY TableRows DEF RowsInv
  <1>3. ASSUME NEW u \in Tables
        PROVE  /\ Ends(accepted'[u], batch'[u], queue'[u])
               /\ Acked(u)' = Acked(u)
    <2>1. CASE u = t
      <3>1. Ends(accepted[t], batch'[t], queue'[t])
        BY <1>1, <1>2, EndsTake DEF RowsInv, HeldInv
      <3>2. /\ Len(batch'[t]) = Len(batch[t]) + 1
            /\ Len(queue'[t]) = Len(queue[t]) - 1
            /\ Len(queue[t]) \in Nat
        BY <1>1, <1>2, AppendRow, TailRow
      <3>3. Len(accepted[t]) - (Len(batch[t]) + 1) - (Len(queue[t]) - 1)
              = Len(accepted[t]) - Len(batch[t]) - Len(queue[t])
        BY <1>2, EndsLengths DEF RowsInv, HeldInv
      <3>4. Acked(t)' = Acked(t)
        BY <1>1, <3>2, <3>3 DEF Acked
      <3>5. QED
        BY <1>1, <2>1, <3>1, <3>4
    <2>2. CASE u # t
      BY <1>1, <2>2 DEF RowsInv, HeldInv, Acked
    <2>3. QED
      BY <2>1, <2>2
  <1>4. OfferedInv' /\ AckedRowsDurable'
    BY <1>1, <1>3 DEF RowsInv, OfferedInv, AckedRowsDurable
  <1>5. ExactlyOnce'
    <2>1. (stored[t] \o Append(batch[t], Head(queue[t]))) \o Tail(queue[t])
            = (stored[t] \o batch[t]) \o queue[t]
      BY <1>1, <1>2, ConcatTake
    <2>2. QED
      BY <1>1, <2>1 DEF RowsInv, ExactlyOnce
  <1>6. QED
    BY <1>3, <1>4, <1>5 DEF RowsInv, HeldInv

\* An insert keeps it too: a slice that was acknowledged is in the table, one that
\* was not is still held.
LEMMA InsertKeepsRows ==
    ASSUME RowsInv, TypeOK', NEW t \in Tables, NEW outcome \in Outcomes, Insert(t, outcome)
    PROVE  RowsInv'
  <1>1. /\ offered' = offered /\ accepted' = accepted /\ queue' = queue
        /\ batch[t] # <<>>
        /\ \A u \in Tables : u # t => batch'[u] = batch[u] /\ stored'[u] = stored[u]
    BY DEF RowsInv, TypeOK, Insert, InsertRows
  <1>2. CASE outcome = "error"
    <2>1. batch' = batch /\ stored' = stored
      BY <1>2 DEF Insert, InsertRows
    <2>2. QED
      BY <1>1, <2>1 DEF RowsInv, HeldInv, OfferedInv, AckedRowsDurable, ExactlyOnce, Acked
  <1>3. CASE outcome # "error"
    <2>1. /\ stored'[t] = stored[t] \o batch[t]
          /\ outcome = "ok" => batch'[t] = <<>>
          /\ outcome # "ok" => batch'[t] = batch[t] /\ "unacked" \in Outcomes
      BY <1>3, BufferAssumption
         DEF RowsInv, TypeOK, Insert, InsertRows, BufferAssumption, InsertOutcomes
    <2>2. /\ accepted[t] \in Seq(Nat) /\ queue[t] \in Seq(Nat)
          /\ batch[t] \in Seq(Nat) /\ stored[t] \in Seq(Nat)
      BY TableRows DEF RowsInv
    <2>3. Ends(accepted[t], batch[t], queue[t])
      BY DEF RowsInv, HeldInv
    <2>4. Acked(t)' = IF outcome = "ok" THEN Acked(t) + Len(batch[t]) ELSE Acked(t)
      BY <1>1, <2>1, <2>2, <2>3, EndsLengths, ZenonT(40) DEF Acked
    <2>5. HeldInv'
      <3>1. Ends(accepted[t], <<>>, queue[t])
        BY <2>2, <2>3, EndsInsert
      <3>2. Ends(accepted'[t], batch'[t], queue'[t])
        BY <1>1, <2>1, <2>3, <3>1
      <3>3. QED
        BY <1>1, <3>2 DEF RowsInv, HeldInv
    <2>6. OfferedInv'
      BY <1>1 DEF RowsInv, OfferedInv
    <2>7. AckedRowsDurable'
      <3>1. RowsOf(stored'[t]) = RowsOf(stored[t]) \cup RowsOf(batch[t])
        <4>1. RowsOf(stored[t] \o batch[t]) = RowsOf(stored[t]) \cup RowsOf(batch[t])
          BY <2>2, RowSetConcat DEF RowsOf
        <4>2. QED
          BY <2>1, <4>1
      <3>2. /\ RowsOf(batch[t]) = {accepted[t][i] : i \in (Acked(t) + 1)..(Acked(t) + Len(batch[t]))}
            /\ (Acked(t) + 1)..(Acked(t) + Len(batch[t])) \subseteq 1..Len(accepted[t])
        BY <2>2, <2>3, EndsRowSet, ZenonT(40) DEF RowsOf, Acked
      <3>3. /\ \A i \in 1..Acked(t) : accepted[t][i] \in RowsOf(stored[t])
            /\ RowsOf(stored[t]) \subseteq RowsOf(accepted[t])
        BY DEF RowsInv, AckedRowsDurable
      <3>4. ASSUME NEW i \in 1..Acked(t)' PROVE accepted[t][i] \in RowsOf(stored'[t])
        <4>1. Acked(t) \in Nat /\ Len(batch[t]) \in Nat
          BY <2>2, <2>3, EndsLengths DEF Acked
        <4>2. i \in 1..Acked(t) \/ i \in (Acked(t) + 1)..(Acked(t) + Len(batch[t]))
          BY <2>4, <4>1
        <4>3. QED
          BY <3>1, <3>2, <3>3, <4>2
      <3>5. RowsOf(stored'[t]) \subseteq RowsOf(accepted[t])
        BY <3>1, <3>2, <3>3 DEF RowsOf
      <3>6. \A u \in Tables : u # t => Acked(u)' = Acked(u)
        BY <1>1 DEF Acked
      <3>7. QED
        BY <1>1, <3>4, <3>5, <3>6 DEF RowsInv, AckedRowsDurable
    <2>8. ExactlyOnce'
      <3>1. ASSUME outcome = "ok" PROVE stored'[t] \o batch'[t] = stored[t] \o batch[t]
        <4>1. (stored[t] \o batch[t]) \o <<>> = stored[t] \o batch[t]
          BY <2>2, ConcatRow, ConcatEmpty
        <4>2. QED
          BY <2>1, <3>1, <4>1
      <3>2. QED
        BY <1>1, <2>1, <3>1 DEF RowsInv, ExactlyOnce
    <2>9. QED
      BY <2>5, <2>6, <2>7, <2>8 DEF RowsInv
  <1>4. QED
    BY <1>2, <1>3

LEMMA RowsInit == Init => RowsInv
  <1> SUFFICES ASSUME Init PROVE RowsInv
    OBVIOUS
  <1>1. TypeOK
    BY TypeInit
  <1>2. Len(<<>>) = 0 /\ <<>> \o <<>> = <<>> /\ <<>> \in Seq(Nat)
    OBVIOUS
  <1>3. HeldInv
    BY <1>2 DEF Init, HeldInv, Ends
  <1>4. OfferedInv /\ AckedRowsDurable
    BY <1>2 DEF Init, OfferedInv, AckedRowsDurable, Acked, RowsOf
  <1>5. ExactlyOnce
    BY <1>2 DEF Init, ExactlyOnce
  <1>6. QED
    BY <1>1, <1>3, <1>4, <1>5 DEF RowsInv

LEMMA RowsStep == RowsInv /\ [Next]_vars => RowsInv'
  <1> SUFFICES ASSUME RowsInv, [Next]_vars PROVE RowsInv'
    OBVIOUS
  <1>1. TypeOK /\ TypeOK'
    BY TypeStep DEF RowsInv
  <1>2. CASE UNCHANGED rowVars
    BY <1>1, <1>2 DEF rowVars, RowsInv, HeldInv, OfferedInv, AckedRowsDurable, ExactlyOnce, Acked
  <1>3. QED
    BY <1>1, <1>2, RowEffects, EnqueueKeepsRows, TakeKeepsRows, InsertKeepsRows

THEOREM RowsCorrect == Spec => []RowsInv
  <1>1. QED
    BY RowsInit, RowsStep, PTL DEF Spec

\* Between Enqueue and a successful insert no accepted row is lost, duplicated or
\* reordered in memory, for any capacities, batch size and interleaving.
THEOREM InOrderCorrect == Spec => []InOrder
  <1>1. RowsInv => InOrder
    <2> SUFFICES ASSUME RowsInv, NEW t \in Tables
                 PROVE  batch[t] \o queue[t] = SubSeq(accepted[t], Acked(t) + 1, Len(accepted[t]))
      BY DEF InOrder
    <2>1. QED
      BY TableRows, EndsSubSeq DEF RowsInv, HeldInv, Acked
  <1>2. QED
    BY <1>1, RowsCorrect, PTL

\* A row leaves memory only for its table, whatever inserts do.
THEOREM AckedRowsDurableCorrect == Spec => []AckedRowsDurable
  <1>1. RowsInv => AckedRowsDurable
    BY DEF RowsInv
  <1>2. QED
    BY <1>1, RowsCorrect, PTL

\* When a reported error means nothing was inserted, retries never duplicate.
THEOREM ExactlyOnceCorrect == Spec => []ExactlyOnce
  <1>1. RowsInv => ExactlyOnce
    BY DEF RowsInv
  <1>2. QED
    BY <1>1, RowsCorrect, PTL

-------------------------------------------------------------------------------
(* Refinement: every step of the batch buffer is a step of the log of one      *)
(* table, or leaves the logs alone.                                            *)

LEMMA LogInitially == Init => Log!LogInit
  <1> SUFFICES ASSUME Init PROVE Log!LogInit
    OBVIOUS
  <1>1. <<>> \o <<>> = <<>> /\ {<<>>[i] : i \in 1..Len(<<>>)} = {}
    OBVIOUS
  <1>2. ASSUME NEW t \in Tables PROVE batch[t] \o queue[t] = <<>> /\ RowsOf(stored[t]) = {}
    <2>1. batch[t] = <<>> /\ queue[t] = <<>> /\ stored[t] = <<>>
      BY DEF Init
    <2>2. QED
      BY <1>1, <2>1 DEF RowsOf
  <1>3. QED
    BY <1>2 DEF Log!LogInit

\* What waits for table t, and the rows of its slice, its channel and its table, are
\* among the accepted ones.
LEMMA WaitingAccepted ==
    ASSUME RowsInv, NEW t \in Tables
    PROVE  /\ batch[t] \o queue[t] \in Seq(Nat)
           /\ \A old \in RowsOf(stored[t]) \cup RowsOf(batch[t] \o queue[t]) :
                 old \in Nat /\ old <= offered[t]
  <1>1. /\ accepted[t] \in Seq(Nat) /\ queue[t] \in Seq(Nat) /\ batch[t] \in Seq(Nat)
        /\ offered[t] \in Nat
        /\ Ends(accepted[t], batch[t], queue[t])
    BY TableRows DEF RowsInv, HeldInv
  <1>2. batch[t] \o queue[t] = SubSeq(accepted[t], Acked(t) + 1, Len(accepted[t]))
    BY <1>1, EndsSubSeq DEF Acked
  <1>3. /\ Acked(t) \in Nat /\ Acked(t) <= Len(accepted[t])
        /\ Len(accepted[t]) \in Nat
    BY <1>1, AckedRange DEF RowsInv
  <1>4. RowsOf(batch[t] \o queue[t]) \subseteq RowsOf(accepted[t])
    <2> DEFINE held == SubSeq(accepted[t], Acked(t) + 1, Len(accepted[t]))
    <2>1. /\ Len(held) = Len(accepted[t]) - Acked(t)
          /\ \A i \in 1..(Len(accepted[t]) - Acked(t)) : held[i] = accepted[t][Acked(t) + i]
      BY <1>1, <1>3, SubSeqRows
    <2> HIDE DEF held
    <2>2. ASSUME NEW i \in 1..Len(held) PROVE held[i] \in RowsOf(accepted[t])
      <3>1. Acked(t) + i \in 1..Len(accepted[t]) /\ held[i] = accepted[t][Acked(t) + i]
        BY <1>3, <2>1
      <3>2. QED
        BY <3>1 DEF RowsOf
    <2>3. RowsOf(held) \subseteq RowsOf(accepted[t])
      BY <2>2 DEF RowsOf
    <2>4. QED
      BY <1>2, <2>3 DEF held
  <1>5. RowsOf(stored[t]) \subseteq RowsOf(accepted[t])
    BY DEF RowsInv, AckedRowsDurable
  <1>6. ASSUME NEW old \in RowsOf(accepted[t]) PROVE old \in Nat /\ old <= offered[t]
    <2>1. PICK i \in 1..Len(accepted[t]) : old = accepted[t][i]
      BY DEF RowsOf
    <2>2. QED
      BY <1>1, <2>1 DEF RowsInv, OfferedInv
  <1>7. batch[t] \o queue[t] \in Seq(Nat)
    BY <1>1, ConcatRow
  <1>8. QED
    BY <1>4, <1>5, <1>6, <1>7

\* Offering a row accepts it at the end of the log, or drops it.
LEMMA EnqueueRefines ==
    ASSUME RowsInv, NEW t \in Tables, Enqueue(t)
    PROVE  Log!LogNext \/ UNCHANGED Log!logVars
  <1> DEFINE held  == [u \in Tables |-> batch[u] \o queue[u]]
             there == [u \in Tables |-> RowsOf(stored[u])]
  <1>1. /\ batch' = batch /\ stored' = stored
        /\ offered[t] < MaxRows[t]
        /\ \A u \in Tables : u # t => queue'[u] = queue[u]
    BY DEF RowsInv, TypeOK, Enqueue
  <1>2. CASE queue' = queue
    BY <1>1, <1>2 DEF Log!logVars, RowsOf
  <1>3. CASE queue' = [queue EXCEPT ![t] = Append(@, offered[t] + 1)]
    <2>1. /\ queue[t] \in Seq(Nat) /\ batch[t] \in Seq(Nat)
          /\ offered[t] \in Nat /\ MaxRows[t] \in Nat
          /\ queue'[t] = Append(queue[t], offered[t] + 1)
      BY <1>3, TableRows, BufferAssumption DEF RowsInv, TypeOK, BufferAssumption
    <2>2. offered[t] + 1 \in 1..MaxRows[t] /\ offered[t] + 1 \in Nat
      BY <1>1, <2>1
    <2>3. ASSUME NEW old \in there[t] \cup RowsOf(held[t]) PROVE old < offered[t] + 1
      <3>1. old \in Nat /\ old <= offered[t]
        BY WaitingAccepted
      <3>2. QED
        BY <2>1, <3>1
    <2>4. batch[t] \o Append(queue[t], offered[t] + 1)
            = Append(batch[t] \o queue[t], offered[t] + 1)
      BY <2>1, <2>2, ConcatAppend
    <2>5. held' = [held EXCEPT ![t] = Append(@, offered[t] + 1)] /\ UNCHANGED there
      BY <1>1, <2>1, <2>4
    <2> HIDE DEF held, there
    <2>6. /\ \E row \in 1..MaxRows[t] :
                /\ \A old \in there[t] \cup {held[t][i] : i \in 1..Len(held[t])} : old < row
                /\ held' = [held EXCEPT ![t] = Append(@, row)]
          /\ UNCHANGED there
      BY <2>2, <2>3, <2>5 DEF RowsOf
    <2>7. Log!Accept(t)
      BY <2>6 DEF Log!Accept, Log!FirstRows, held, there
    <2>8. QED
      BY <2>7 DEF Log!LogNext
  <1>4. QED
    BY <1>2, <1>3 DEF Enqueue

\* Taking a row from the channel is invisible in the log.
LEMMA TakeRefines ==
    ASSUME RowsInv, NEW t \in Tables, TakeRow(t)
    PROVE  UNCHANGED Log!logVars
  <1>1. /\ stored' = stored
        /\ queue[t] # <<>>
        /\ batch'[t] = Append(batch[t], Head(queue[t]))
        /\ queue'[t] = Tail(queue[t])
        /\ \A u \in Tables : u # t => batch'[u] = batch[u] /\ queue'[u] = queue[u]
    BY DEF RowsInv, TypeOK, TakeRow
  <1>2. queue[t] \in Seq(Nat) /\ batch[t] \in Seq(Nat)
    BY TableRows DEF RowsInv
  <1>3. Append(batch[t], Head(queue[t])) \o Tail(queue[t]) = batch[t] \o queue[t]
    BY <1>1, <1>2, HeldTake
  <1>4. QED
    BY <1>1, <1>3 DEF Log!logVars, RowsOf

\* An insert persists the rows of the slice, the first ones that wait, and they wait
\* no longer unless the answer was lost.
LEMMA InsertRefines ==
    ASSUME RowsInv, NEW t \in Tables, NEW outcome \in Outcomes, Insert(t, outcome)
    PROVE  Log!LogNext \/ UNCHANGED Log!logVars
  <1> DEFINE held  == [u \in Tables |-> batch[u] \o queue[u]]
             there == [u \in Tables |-> RowsOf(stored[u])]
             k == Len(batch[t])
  <1>1. /\ queue' = queue
        /\ batch[t] # <<>>
        /\ \A u \in Tables : u # t => batch'[u] = batch[u] /\ stored'[u] = stored[u]
    BY DEF RowsInv, TypeOK, Insert, InsertRows
  <1>2. CASE outcome = "error"
    <2>1. batch' = batch /\ stored' = stored
      BY <1>2 DEF Insert, InsertRows
    <2>2. QED
      BY <1>1, <2>1 DEF Log!logVars, RowsOf
  <1>3. CASE outcome # "error"
    <2>1. /\ stored'[t] = stored[t] \o batch[t]
          /\ outcome = "ok" => batch'[t] = <<>>
          /\ outcome # "ok" => "unacked" \in Outcomes /\ batch' = batch
      BY <1>3, BufferAssumption
         DEF RowsInv, TypeOK, Insert, InsertRows, BufferAssumption, InsertOutcomes
    <2>2. queue[t] \in Seq(Nat) /\ batch[t] \in Seq(Nat) /\ stored[t] \in Seq(Nat)
      BY TableRows DEF RowsInv
    <2>3. /\ SubSeq(held[t], k + 1, Len(held[t])) = queue[t]
          /\ {held[t][i] : i \in 1..k} = RowsOf(batch[t])
          /\ k \in 1..Len(held[t])
      <3>1. held[t] = batch[t] \o queue[t] /\ k = Len(batch[t])
        OBVIOUS
      <3>2. /\ SubSeq(batch[t] \o queue[t], Len(batch[t]) + 1, Len(batch[t] \o queue[t]))
                  = queue[t]
            /\ {(batch[t] \o queue[t])[i] : i \in 1..Len(batch[t])}
                  = {batch[t][i] : i \in 1..Len(batch[t])}
            /\ Len(batch[t]) \in 1..Len(batch[t] \o queue[t])
        BY <1>1, <2>2, ConcatRest
      <3> HIDE DEF held, k
      <3>3. QED
        BY <3>1, <3>2 DEF RowsOf
    <2>4. RowsOf(stored'[t]) = RowsOf(stored[t]) \cup RowsOf(batch[t])
      <3>1. RowsOf(stored[t] \o batch[t]) = RowsOf(stored[t]) \cup RowsOf(batch[t])
        BY <2>2, RowSetConcat DEF RowsOf
      <3>2. QED
        BY <2>1, <3>1
    <2>5. <<>> \o queue[t] = queue[t]
      BY <2>2
    <2>6. \/ held' = [held EXCEPT ![t] = SubSeq(@, k + 1, Len(@))]
          \/ "unacked" \in Outcomes /\ UNCHANGED held
      <3>1. CASE outcome = "ok"
        <4>1. held'[t] = queue[t]
          BY <1>1, <2>1, <2>5, <3>1
        <4>2. \A u \in Tables : u # t => held'[u] = held[u]
          BY <1>1
        <4>3. QED
          BY <2>3, <4>1, <4>2
      <3>2. CASE outcome # "ok"
        BY <1>1, <2>1, <3>2
      <3>3. QED
        BY <3>1, <3>2
    <2>7. there' = [there EXCEPT ![t] = @ \cup {held[t][i] : i \in 1..k}]
      BY <1>1, <2>3, <2>4
    <2> HIDE DEF held, there, k
    <2>8. \E n \in 1..Len(held[t]) :
             /\ there' = [there EXCEPT ![t] = @ \cup {held[t][i] : i \in 1..n}]
             /\ \/ held' = [held EXCEPT ![t] = SubSeq(@, n + 1, Len(@))]
                \/ "unacked" \in Outcomes /\ UNCHANGED held
      BY <2>3, <2>6, <2>7
    <2>9. \E n \in 1..Len(held[t]) : Log!Persist(t, n)
      BY <2>8 DEF Log!Persist, Log!FirstRows, held, there
    <2>10. QED
      BY <2>9 DEF Log!LogNext, held
  <1>4. QED
    BY <1>2, <1>3

\* The batch writer implements the abstract log of every table (TableLog): rows wait in
\* the order of acceptance, leave memory only from the front and for their table, and
\* are inserted again only after an insert without an answer.  It is what
\* LocationTracker and BinDelta take for granted of the batch writer.
THEOREM LogImplementedCorrect == Spec => LogImplemented
  <1>1. RowsInv /\ [Next]_vars => [Log!LogNext]_Log!logVars
    <2> SUFFICES ASSUME RowsInv, [Next]_vars
                 PROVE  Log!LogNext \/ UNCHANGED Log!logVars
      OBVIOUS
    <2>1. CASE UNCHANGED rowVars
      BY <2>1 DEF rowVars, Log!logVars, RowsOf
    <2>2. QED
      BY <2>1, RowEffects, EnqueueRefines, TakeRefines, InsertRefines DEF RowsInv
  <1>2. QED
    BY <1>1, LogInitially, RowsCorrect, PTL DEF Spec, LogImplemented, Log!LogSpec

-------------------------------------------------------------------------------
(* Flush and Stop: what the worker has reached since a request was taken.      *)

Taken(t) == Len(accepted[t]) - Len(queue[t])

\* The worker's drain or flush has done table t.
Passed(t) == \E p \in 1..(worker.pos - 1) : FlushOrder[p] = t

\* The m[t] first rows of each table t are covered so far: the tables drained have
\* them out of the channel, and those flushed have them acknowledged if inserts
\* never fail.
Covers(m) ==
    \A t \in Tables :
        /\ worker.pc = "drain" /\ Passed(t) => m[t] <= Taken(t)
        /\ worker.pc \in {"flush", "exited"} => m[t] <= Taken(t)
        /\ /\ worker.pc \in {"flush", "exited"}
           /\ Passed(t)
           /\ Outcomes = {"ok"}
           => m[t] <= Acked(t)

MarksInv ==
    /\ \A f \in Flushers : flusher[f] # "idle" => \A t \in Tables : mark[f][t] <= Len(accepted[t])
    /\ stopped => \A t \in Tables : stopMark[t] <= Len(accepted[t])

ServingInv ==
    /\ worker.pc = "exited" => worker.after = "exit" /\ worker.pos = 4
    /\ worker.after = "ack" => /\ worker.ack \in Flushers
                               /\ flusher[worker.ack] # "idle"
                               /\ Covers(mark[worker.ack])
    /\ worker.after = "exit" => stopped /\ Covers(stopMark)

SyncInv == RowsInv /\ MarksInv /\ ServingInv /\ FlushCovers

\* No step takes back an acceptance, a drained row or an acknowledgement, and an
\* acknowledged slice leaves nothing but the channel.
LEMMA Progress ==
    ASSUME RowsInv, RowsInv', [Next]_vars, NEW t \in Tables
    PROVE  /\ Len(accepted[t]) \in Nat /\ Taken(t) \in Nat /\ Acked(t) \in Nat
           /\ Len(accepted[t])' \in Nat /\ Taken(t)' \in Nat /\ Acked(t)' \in Nat
           /\ Len(accepted[t]) <= Len(accepted[t])'
           /\ Taken(t) <= Taken(t)'
           /\ Acked(t) <= Acked(t)'
           /\ batch[t] = <<>> => Acked(t) = Taken(t)
           /\ (batch[t] = <<>>)' => Acked(t)' = Taken(t)'
           /\ queue[t] = <<>> => Taken(t) = Len(accepted[t])
  <1> DEFINE a == Len(accepted[t])   b == Len(batch[t])   q == Len(queue[t])
             a2 == Len(accepted'[t]) b2 == Len(batch'[t]) q2 == Len(queue'[t])
  <1>1. /\ a \in Nat /\ b \in Nat /\ q \in Nat /\ a - b - q \in Nat
        /\ a = (a - b - q) + b + q
    BY TableRows, EndsLengths DEF RowsInv, HeldInv
  <1>2. /\ a2 \in Nat /\ b2 \in Nat /\ q2 \in Nat /\ a2 - b2 - q2 \in Nat
        /\ a2 = (a2 - b2 - q2) + b2 + q2
    <2>1. /\ accepted'[t] \in Seq(Nat) /\ batch'[t] \in Seq(Nat) /\ queue'[t] \in Seq(Nat)
          /\ Ends(accepted'[t], batch'[t], queue'[t])
      BY DEF RowsInv, HeldInv, TypeOK
    <2>2. QED
      BY <2>1, EndsLengths
  <1>3. \/ a2 = a /\ b2 = b /\ q2 = q
        \/ a2 = a + 1 /\ b2 = b /\ q2 = q + 1
        \/ a2 = a /\ b2 = b + 1 /\ q2 = q - 1
        \/ a2 = a /\ b2 = 0 /\ q2 = q
    <2>0. /\ accepted[t] \in Seq(Nat) /\ batch[t] \in Seq(Nat) /\ queue[t] \in Seq(Nat)
          /\ offered[t] + 1 \in Nat
      BY TableRows DEF RowsInv
    <2>1. CASE UNCHANGED rowVars
      BY <2>1 DEF rowVars
    <2>2. ASSUME NEW u \in Tables, Enqueue(u)
          PROVE  \/ a2 = a /\ b2 = b /\ q2 = q
                 \/ a2 = a + 1 /\ b2 = b /\ q2 = q + 1
      <3>1. /\ batch' = batch
            /\ \/ accepted'[t] = accepted[t] /\ queue'[t] = queue[t]
               \/ /\ accepted'[t] = Append(accepted[t], offered[t] + 1)
                  /\ queue'[t] = Append(queue[t], offered[t] + 1)
        BY <2>2 DEF RowsInv, TypeOK, Enqueue
      <3>2. /\ Len(Append(accepted[t], offered[t] + 1)) = a + 1
            /\ Len(Append(queue[t], offered[t] + 1)) = q + 1
        BY <2>0, AppendRow
      <3>3. QED
        BY <3>1, <3>2
    <2>3. ASSUME NEW u \in Tables, TakeRow(u)
          PROVE  \/ a2 = a /\ b2 = b /\ q2 = q
                 \/ a2 = a /\ b2 = b + 1 /\ q2 = q - 1
      <3>1. /\ accepted' = accepted
            /\ \/ batch'[t] = batch[t] /\ queue'[t] = queue[t]
               \/ /\ queue[t] # <<>>
                  /\ batch'[t] = Append(batch[t], Head(queue[t]))
                  /\ queue'[t] = Tail(queue[t])
        BY <2>3 DEF RowsInv, TypeOK, TakeRow
      <3>2. queue[t] # <<>> => /\ Len(Append(batch[t], Head(queue[t]))) = b + 1
                               /\ Len(Tail(queue[t])) = q - 1
        BY <2>0, AppendRow, TailRow
      <3>3. QED
        BY <3>1, <3>2
    <2>4. ASSUME NEW u \in Tables, NEW outcome \in Outcomes, Insert(u, outcome)
          PROVE  \/ a2 = a /\ b2 = b /\ q2 = q
                 \/ a2 = a /\ b2 = 0 /\ q2 = q
      <3>1. /\ accepted' = accepted /\ queue' = queue
            /\ batch'[t] = batch[t] \/ batch'[t] = <<>>
        BY <2>4 DEF RowsInv, TypeOK, Insert, InsertRows
      <3>2. Len(<<>>) = 0
        OBVIOUS
      <3>3. QED
        BY <3>1, <3>2
    <2>5. QED
      BY <2>1, <2>2, <2>3, <2>4, RowEffects DEF RowsInv
  <1>4. /\ batch[t] = <<>> => b = 0
        /\ batch'[t] = <<>> => b2 = 0
        /\ queue[t] = <<>> => q = 0
    OBVIOUS
  <1>5. /\ Taken(t) = a - q /\ Taken(t)' = a2 - q2
        /\ Acked(t) = a - b - q /\ Acked(t)' = a2 - b2 - q2
    BY DEF Taken, Acked
  <1>6. Len(accepted[t]) = a /\ Len(accepted[t])' = a2
    OBVIOUS
  <1> HIDE DEF a, b, q, a2, b2, q2
  <1>7. /\ a - q \in Nat /\ a2 - q2 \in Nat
        /\ a <= a2 /\ a - q <= a2 - q2 /\ a - b - q <= a2 - b2 - q2
    BY <1>1, <1>2, <1>3
  <1>8. /\ b = 0 => a - b - q = a - q
        /\ b2 = 0 => a2 - b2 - q2 = a2 - q2
        /\ q = 0 => a - q = a
    BY <1>1, <1>2
  <1>9. QED
    BY <1>1, <1>2, <1>4, <1>5, <1>6, <1>7, <1>8

\* What the goroutines do with the marks: a call of Flush or Stop sets its own, to
\* what is accepted at that moment.
LEMMA MarkEffects ==
    ASSUME TypeOK, [Next]_vars
    PROVE  /\ \A f \in Flushers :
                 \/ /\ mark'[f] = mark[f]
                    /\ flusher'[f] # "idle" => flusher[f] # "idle"
                    /\ flusher[f] # "idle" => flusher'[f] # "idle"
                 \/ flusher[f] = "idle" /\ mark'[f] = AcceptedCounts /\ accepted' = accepted
           /\ \/ stopMark' = stopMark /\ stopped' = stopped
              \/ stopMark' = stopMark /\ stopped
              \/ stopMark' = AcceptedCounts /\ ~stopped /\ accepted' = accepted
           /\ stopped => stopped'
  <1> USE DEF rowVars, callerVars
  <1>1. CASE \/ \E t \in Tables : Enqueue(t) \/ Receive(t)
             \/ Tick \/ SeeStop \/ DrainRow \/ DrainNext \/ SkipTable \/ Loop \/ Exit
             \/ \E outcome \in Outcomes : FlushTable(outcome)
             \/ UNCHANGED vars
    BY <1>1 DEF Enqueue, Receive, Tick, SeeStop, DrainRow, DrainNext, SkipTable, Loop, Exit,
                FlushTable, vars
  <1>2. ASSUME NEW f \in Flushers, TakeRequest(f) \/ FlushSeesStop(f) \/ FlushCtxDone(f)
        PROVE  /\ mark' = mark /\ stopMark' = stopMark /\ stopped' = stopped
               /\ \A g \in Flushers : flusher'[g] # "idle" <=> flusher[g] # "idle"
    BY <1>2 DEF TypeOK, TakeRequest, FlushSeesStop, FlushCtxDone
  <1>3. CASE Ack
    BY <1>3 DEF TypeOK, Ack
  <1>4. ASSUME NEW f \in Flushers, CallFlush(f)
        PROVE  /\ stopMark' = stopMark /\ stopped' = stopped /\ accepted' = accepted
               /\ flusher[f] = "idle" /\ mark'[f] = AcceptedCounts
               /\ \A g \in Flushers : g # f => mark'[g] = mark[g] /\ flusher'[g] = flusher[g]
    BY <1>4 DEF TypeOK, CallFlush
  <1>5. ASSUME NEW s \in Stoppers, CallStop(s)
        PROVE  /\ mark' = mark /\ flusher' = flusher /\ stopped'
               /\ \/ stopMark' = stopMark /\ stopped
                  \/ stopMark' = AcceptedCounts /\ ~stopped /\ accepted' = accepted
    BY <1>5 DEF CallStop
  <1>6. ASSUME NEW s \in Stoppers, StopReturns(s)
        PROVE  /\ mark' = mark /\ flusher' = flusher
               /\ stopMark' = stopMark /\ stopped' = stopped
    BY <1>6 DEF StopReturns
  <1>7. QED
    BY <1>1, <1>2, <1>3, <1>4, <1>5, <1>6, NextCases

LEMMA MarksStep ==
    ASSUME RowsInv, RowsInv', MarksInv, [Next]_vars
    PROVE  MarksInv'
  <1>1. \A t \in Tables : /\ Len(accepted[t]) \in Nat /\ Len(accepted[t])' \in Nat
                          /\ Len(accepted[t]) <= Len(accepted[t])'
    BY Progress
  <1>2. ASSUME NEW f \in Flushers, flusher'[f] # "idle", NEW t \in Tables
        PROVE  mark'[f][t] <= Len(accepted'[t])
    <2>1. mark[f][t] \in Nat
      BY DEF RowsInv, TypeOK
    <2>2. CASE mark'[f] = mark[f] /\ flusher[f] # "idle"
      BY <1>1, <2>1, <2>2 DEF MarksInv
    <2>3. CASE mark'[f] = AcceptedCounts /\ accepted' = accepted
      BY <1>1, <2>3 DEF AcceptedCounts
    <2>4. QED
      BY <1>2, <2>2, <2>3, MarkEffects DEF RowsInv
  <1>3. ASSUME stopped', NEW t \in Tables
        PROVE  stopMark'[t] <= Len(accepted'[t])
    <2>1. stopMark[t] \in Nat
      BY DEF RowsInv, TypeOK
    <2>2. CASE stopMark' = stopMark /\ stopped
      BY <1>1, <2>1, <2>2 DEF MarksInv
    <2>3. CASE stopMark' = AcceptedCounts /\ accepted' = accepted
      BY <1>1, <2>3 DEF AcceptedCounts
    <2>4. QED
      BY <1>3, <2>2, <2>3, MarkEffects DEF RowsInv
  <1>4. QED
    BY <1>2, <1>3 DEF MarksInv

\* Where the worker is after a step: it stays, it starts a drain for a request, it
\* goes on by one table, or it is in a flush that answers nobody.
LEMMA WorkerEffects ==
    ASSUME TypeOK, [Next]_vars
    PROVE  \/ worker' = worker
           \/ worker'.after = "loop" /\ worker'.pc # "exited"
           \/ \E f \in Flushers : TakeRequest(f)
           \/ SeeStop
           \/ DrainNext
           \/ \E outcome \in Outcomes : FlushTable(outcome)
           \/ SkipTable
           \/ Exit
  <1> USE DEF rowVars, callerVars
  <1>1. ASSUME NEW t \in Tables, Receive(t)
        PROVE  worker' = worker \/ (worker'.after = "loop" /\ worker'.pc # "exited")
    BY <1>1 DEF Receive, Flushing
  <1>2. CASE Tick \/ Loop \/ Ack
    BY <1>2 DEF Tick, Loop, Ack, Flushing, Selecting
  <1>3. CASE \/ \E t \in Tables : Enqueue(t)
             \/ DrainRow
             \/ \E f \in Flushers : CallFlush(f) \/ FlushSeesStop(f) \/ FlushCtxDone(f)
             \/ \E s \in Stoppers : CallStop(s) \/ StopReturns(s)
             \/ UNCHANGED vars
    BY <1>3 DEF Enqueue, DrainRow, CallFlush, FlushSeesStop, FlushCtxDone, CallStop,
                StopReturns, vars
  <1>4. QED
    BY <1>1, <1>2, <1>3, NextCases

\* The tables the worker has passed, when it goes on by one and when it starts anew.
LEMMA PassedTables ==
    ASSUME TypeOK
    PROVE  /\ worker.pos = 1 => \A t \in Tables : ~Passed(t)
           /\ worker.pos = 4 => \A t \in Tables : Passed(t)
           /\ \A t \in Tables, p \in 1..worker.pos :
                 FlushOrder[p] = t => Passed(t) \/ t = FlushOrder[worker.pos]
  <1>1. worker.pos \in 1..4
    BY WorkerFields
  <1>2. QED
    BY <1>1, FlushOrderTables DEF Passed

\* What is covered stays covered while the worker drains and flushes: the table it
\* leaves has an empty channel (drain), or an empty slice (flush).
LEMMA CoversStep ==
    ASSUME RowsInv, RowsInv', [Next]_vars,
           NEW m \in [Tables -> Nat], \A t \in Tables : m[t] <= Len(accepted[t]),
           Covers(m),
           \/ worker' = worker \/ DrainNext \/ SkipTable \/ Exit
           \/ \E outcome \in Outcomes : FlushTable(outcome),
           NEW t \in Tables
    PROVE  /\ worker'.pc = "drain" /\ Passed(t)' => m[t] <= Taken(t)'
           /\ worker'.pc \in {"flush", "exited"} => m[t] <= Taken(t)'
           /\ /\ worker'.pc \in {"flush", "exited"}
              /\ Passed(t)'
              /\ Outcomes = {"ok"}
              => m[t] <= Acked(t)'
  <1>1. /\ m[t] \in Nat /\ Len(accepted[t]) \in Nat
        /\ Taken(t) \in Nat /\ Acked(t) \in Nat /\ Taken(t)' \in Nat /\ Acked(t)' \in Nat
        /\ Taken(t) <= Taken(t)' /\ Acked(t) <= Acked(t)'
        /\ queue[t] = <<>> => m[t] <= Taken(t)
        /\ batch[t] = <<>> => Acked(t) = Taken(t)
        /\ (batch[t] = <<>>)' => Acked(t)' = Taken(t)'
    BY Progress
  <1>2. /\ worker.pc = "drain" /\ Passed(t) => m[t] <= Taken(t)
        /\ worker.pc \in {"flush", "exited"} => m[t] <= Taken(t)
        /\ worker.pc \in {"flush", "exited"} /\ Passed(t) /\ Outcomes = {"ok"} => m[t] <= Acked(t)
    BY DEF Covers
  <1>3. CASE worker' = worker
    <2>1. Passed(t)' <=> Passed(t)
      BY <1>3 DEF Passed
    <2>2. QED
      BY <1>1, <1>2, <1>3, <2>1
  <1>4. CASE DrainNext
    <2>1. worker.pc = "drain" /\ worker.pos \in 1..3 /\ queue[FlushOrder[worker.pos]] = <<>>
      BY <1>4, WorkerFields DEF RowsInv, DrainNext
    <2>2. CASE worker.pos < Len(FlushOrder)
      <3>1. worker'.pc = "drain" /\ worker'.pos = worker.pos + 1
        BY <1>4, <2>1, <2>2, WorkerAdvance DEF RowsInv, DrainNext
      <3>2. Passed(t)' => Passed(t) \/ t = FlushOrder[worker.pos]
        BY <2>1, <3>1, PassedTables DEF RowsInv, Passed
      <3>3. QED
        BY <1>1, <1>2, <2>1, <3>1, <3>2
    <2>3. CASE ~(worker.pos < Len(FlushOrder))
      <3>1. worker'.pc = "flush" /\ worker'.pos = 1
        BY <1>4, <2>3 DEF DrainNext, Flushing
      <3>2. ~Passed(t)'
        BY <3>1 DEF Passed
      <3>3. worker.pos = 3
        BY <2>1, <2>3, FlushOrderTables
      <3>4. Passed(t) \/ t = FlushOrder[worker.pos]
        BY <3>3, FlushOrderTables, PassedTables DEF RowsInv
      <3>5. QED
        BY <1>1, <1>2, <2>1, <3>1, <3>2, <3>4
    <2>4. QED
      BY <2>2, <2>3
  <1>5. CASE SkipTable \/ \E outcome \in Outcomes : FlushTable(outcome)
    <2>1. /\ worker.pc = "flush" /\ worker.pos \in 1..3
          /\ worker'.pc = "flush" /\ worker'.pos = worker.pos + 1
      <3>1. worker.pc = "flush" /\ worker.pos <= 3 /\ worker' = [worker EXCEPT !.pos = @ + 1]
        BY <1>5, FlushOrderTables DEF SkipTable, FlushTable
      <3>2. worker.pos \in 1..3
        BY <3>1, WorkerFields DEF RowsInv
      <3>3. QED
        BY <3>1, <3>2, WorkerAdvance DEF RowsInv
    <2>2. Passed(t)' => Passed(t) \/ t = FlushOrder[worker.pos]
      BY <2>1, PassedTables DEF RowsInv, Passed
    <2>3. ASSUME Outcomes = {"ok"}, t = FlushOrder[worker.pos] PROVE Acked(t)' = Taken(t)'
      <3>1. CASE SkipTable
        <4>1. batch[t] = <<>> /\ batch' = batch
          BY <2>3, <3>1 DEF SkipTable, rowVars
        <4>2. QED
          BY <1>1, <4>1
      <3>2. CASE FlushTable("ok")
        BY <1>1, <2>3, <3>2 DEF RowsInv, TypeOK, FlushTable, InsertRows
      <3>3. QED
        BY <1>5, <2>3, <3>1, <3>2
    <2>4. QED
      BY <1>1, <1>2, <2>1, <2>2, <2>3
  <1>6. CASE Exit
    <2>1. worker.pc = "flush" /\ worker'.pc = "exited" /\ worker'.pos = worker.pos
      BY <1>6, WorkerFields DEF RowsInv, Exit, FlushEnds
    <2>2. Passed(t)' <=> Passed(t)
      BY <2>1 DEF Passed
    <2>3. QED
      BY <1>1, <1>2, <2>1, <2>2
  <1>7. QED
    BY <1>3, <1>4, <1>5, <1>6

\* The steps that carry a request on keep its kind and its caller.
LEMMA RequestCarried ==
    ASSUME TypeOK,
           \/ worker' = worker \/ DrainNext \/ SkipTable \/ Exit
           \/ \E outcome \in Outcomes : FlushTable(outcome)
    PROVE  worker'.after = worker.after /\ worker'.ack = worker.ack
  <1>1. CASE worker' = worker
    BY <1>1
  <1>2. CASE DrainNext
    BY <1>2, WorkerFields DEF DrainNext, Flushing
  <1>3. CASE SkipTable \/ Exit \/ \E outcome \in Outcomes : FlushTable(outcome)
    BY <1>3, WorkerFields DEF SkipTable, Exit, FlushTable
  <1>4. QED
    BY <1>1, <1>2, <1>3

LEMMA ServingStep ==
    ASSUME RowsInv, RowsInv', MarksInv, ServingInv, [Next]_vars
    PROVE  ServingInv'
  <1> DEFINE Carried == \/ worker' = worker \/ DrainNext \/ SkipTable \/ Exit
                        \/ \E outcome \in Outcomes : FlushTable(outcome)
  <1>1. TypeOK /\ TypeOK'
    BY DEF RowsInv
  <1>2. \/ Carried
        \/ worker'.after = "loop" /\ worker'.pc # "exited"
        \/ \E f \in Flushers : TakeRequest(f)
        \/ SeeStop
    BY <1>1, WorkerEffects
  <1>3. ASSUME worker'.pc = "exited" PROVE worker'.after = "exit" /\ worker'.pos = 4
    <2>1. CASE worker' = worker
      BY <1>3, <2>1 DEF ServingInv
    <2>2. CASE Exit
      <3>1. /\ worker.pos \in 1..4 /\ worker.pos > 3
            /\ worker'.pos = worker.pos /\ worker'.after = worker.after
        BY <1>1, <2>2, WorkerFields, FlushOrderTables DEF Exit, FlushEnds
      <3>2. QED
        BY <2>2, <3>1 DEF Exit
    <2>3. CASE DrainNext
      BY <1>1, <1>3, <2>3, WorkerFields DEF DrainNext, Flushing
    <2>4. CASE SkipTable \/ \E outcome \in Outcomes : FlushTable(outcome)
      BY <1>1, <1>3, <2>4, WorkerFields DEF SkipTable, FlushTable
    <2>5. CASE SeeStop \/ \E f \in Flushers : TakeRequest(f)
      BY <1>3, <2>5 DEF SeeStop, TakeRequest, Draining
    <2>6. QED
      BY <1>2, <1>3, <2>1, <2>2, <2>3, <2>4, <2>5
  <1>4. ASSUME worker'.after = "ack"
        PROVE  /\ worker'.ack \in Flushers
               /\ flusher'[worker'.ack] # "idle"
               /\ Covers(mark[worker.ack])'
    <2>1. CASE Carried
      <3>1. worker.after = "ack" /\ worker'.ack = worker.ack
        BY <1>1, <1>4, <2>1, RequestCarried
      <3>2. /\ worker.ack \in Flushers /\ flusher[worker.ack] # "idle"
            /\ Covers(mark[worker.ack])
        BY <3>1 DEF ServingInv
      <3>3. flusher'[worker.ack] # "idle" /\ mark'[worker.ack] = mark[worker.ack]
        BY <1>1, <3>2, MarkEffects
      <3>4. /\ mark[worker.ack] \in [Tables -> Nat]
            /\ \A t \in Tables : mark[worker.ack][t] <= Len(accepted[t])
        BY <1>1, <3>2 DEF TypeOK, MarksInv
      <3>5. PICK m \in [Tables -> Nat] : m = mark[worker.ack]
        BY <3>4
      <3>6. ASSUME NEW t \in Tables
            PROVE  /\ worker'.pc = "drain" /\ Passed(t)' => m[t] <= Taken(t)'
                   /\ worker'.pc \in {"flush", "exited"} => m[t] <= Taken(t)'
                   /\ /\ worker'.pc \in {"flush", "exited"}
                      /\ Passed(t)'
                      /\ Outcomes = {"ok"}
                      => m[t] <= Acked(t)'
        <4>1. Covers(m) /\ \A u \in Tables : m[u] <= Len(accepted[u])
          BY <3>2, <3>4, <3>5
        <4>2. QED
          BY <2>1, <4>1, CoversStep
      <3>7. mark'[worker'.ack] = m
        BY <3>1, <3>3, <3>5
      <3>8. Covers(mark[worker.ack])'
        BY <3>6, <3>7 DEF Covers
      <3>9. QED
        BY <3>1, <3>2, <3>3, <3>8
    <2>2. ASSUME NEW f \in Flushers, TakeRequest(f)
          PROVE  /\ worker'.ack \in Flushers
                 /\ flusher'[worker'.ack] # "idle"
                 /\ Covers(mark[worker.ack])'
      <3>1. worker'.ack = f /\ worker'.pc = "drain" /\ worker'.pos = 1 /\ flusher'[f] = "waiting"
        BY <1>1, <2>2 DEF TypeOK, TakeRequest, Draining
      <3>2. \A t \in Tables : ~Passed(t)'
        BY <3>1 DEF Passed
      <3>3. QED
        BY <3>1, <3>2 DEF Covers
    <2>3. CASE SeeStop
      BY <1>4, <2>3 DEF SeeStop, Draining
    <2>4. QED
      BY <1>2, <1>4, <2>1, <2>2, <2>3
  <1>5. ASSUME worker'.after = "exit" PROVE stopped' /\ Covers(stopMark)'
    <2>1. CASE Carried
      <3>1. worker.after = "exit"
        BY <1>1, <1>5, <2>1, RequestCarried
      <3>2. stopped /\ Covers(stopMark)
        BY <3>1 DEF ServingInv
      <3>3. stopped' /\ stopMark' = stopMark
        BY <1>1, <3>2, MarkEffects
      <3>4. /\ stopMark \in [Tables -> Nat]
            /\ \A t \in Tables : stopMark[t] <= Len(accepted[t])
        BY <1>1, <3>2 DEF TypeOK, MarksInv
      <3>5. PICK m \in [Tables -> Nat] : m = stopMark
        BY <3>4
      <3>6. ASSUME NEW t \in Tables
            PROVE  /\ worker'.pc = "drain" /\ Passed(t)' => m[t] <= Taken(t)'
                   /\ worker'.pc \in {"flush", "exited"} => m[t] <= Taken(t)'
                   /\ /\ worker'.pc \in {"flush", "exited"}
                      /\ Passed(t)'
                      /\ Outcomes = {"ok"}
                      => m[t] <= Acked(t)'
        <4>1. Covers(m) /\ \A u \in Tables : m[u] <= Len(accepted[u])
          BY <3>2, <3>4, <3>5
        <4>2. QED
          BY <2>1, <4>1, CoversStep
      <3>7. stopMark' = m
        BY <3>3, <3>5
      <3>8. Covers(stopMark)'
        BY <3>6, <3>7 DEF Covers
      <3>9. QED
        BY <3>3, <3>8
    <2>2. ASSUME NEW f \in Flushers, TakeRequest(f) PROVE FALSE
      BY <1>5, <2>2 DEF TakeRequest, Draining
    <2>3. CASE SeeStop
      <3>1. stopped' /\ worker'.pc = "drain" /\ worker'.pos = 1
        BY <2>3 DEF SeeStop, Draining, callerVars
      <3>2. \A t \in Tables : ~Passed(t)'
        BY <3>1 DEF Passed
      <3>3. QED
        BY <3>1, <3>2 DEF Covers
    <2>4. QED
      BY <1>2, <1>5, <2>1, <2>2, <2>3
  <1>6. QED
    BY <1>3, <1>4, <1>5 DEF ServingInv

\* A caller's ack channel is only closed when the worker has flushed every table.
LEMMA FlushCoversStep ==
    ASSUME RowsInv, RowsInv', MarksInv, ServingInv, FlushCovers, [Next]_vars
    PROVE  FlushCovers'
  <1>1. TypeOK /\ TypeOK'
    BY DEF RowsInv
  <1> SUFFICES ASSUME NEW f \in Flushers, flusher'[f] = "acked", NEW t \in Tables
               PROVE  /\ mark'[f][t] <= Taken(t)'
                      /\ Outcomes = {"ok"} => mark'[f][t] <= Acked(t)'
    BY DEF FlushCovers, Taken
  <1>2. /\ Taken(t) \in Nat /\ Acked(t) \in Nat /\ Taken(t)' \in Nat /\ Acked(t)' \in Nat
        /\ Taken(t) <= Taken(t)' /\ Acked(t) <= Acked(t)'
    BY Progress
  <1>3. ASSUME flusher[f] # "idle" PROVE mark'[f] = mark[f]
    BY <1>1, <1>3, MarkEffects
  <1>4. mark[f][t] \in Nat
    BY <1>1 DEF TypeOK
  <1>5. CASE flusher[f] = "acked"
    <2>1. mark'[f] = mark[f]
      BY <1>3, <1>5
    <2>2. /\ mark[f][t] <= Taken(t)
          /\ Outcomes = {"ok"} => mark[f][t] <= Acked(t)
      BY <1>5 DEF FlushCovers, Taken
    <2>3. QED
      BY <1>2, <1>4, <2>1, <2>2
  <1>6. CASE Ack /\ f = worker.ack /\ flusher[f] = "waiting"
    <2>1. worker.pc = "flush" /\ worker.pos = 4 /\ worker.after = "ack"
      BY <1>1, <1>6, WorkerFields, FlushOrderTables DEF Ack, FlushEnds
    <2>2. Covers(mark[f]) /\ Passed(t)
      BY <1>1, <1>6, <2>1, PassedTables DEF ServingInv
    <2>3. /\ mark[f][t] <= Taken(t)
          /\ Outcomes = {"ok"} => mark[f][t] <= Acked(t)
      BY <2>1, <2>2 DEF Covers
    <2>4. QED
      BY <1>2, <1>3, <1>4, <1>6, <2>3
  <1>7. flusher[f] = "acked" \/ (Ack /\ f = worker.ack /\ flusher[f] = "waiting")
    <2> USE DEF rowVars, callerVars
    <2>1. CASE \/ \E u \in Tables : Enqueue(u) \/ Receive(u)
               \/ Tick \/ SeeStop \/ DrainRow \/ DrainNext \/ SkipTable \/ Loop \/ Exit
               \/ \E outcome \in Outcomes : FlushTable(outcome)
               \/ \E s \in Stoppers : CallStop(s) \/ StopReturns(s)
               \/ UNCHANGED vars
      BY <2>1 DEF Enqueue, Receive, Tick, SeeStop, DrainRow, DrainNext, SkipTable, Loop, Exit,
                  FlushTable, CallStop, StopReturns, vars
    <2>2. ASSUME NEW g \in Flushers,
                 TakeRequest(g) \/ CallFlush(g) \/ FlushSeesStop(g) \/ FlushCtxDone(g)
          PROVE  flusher[f] = "acked"
      BY <1>1, <2>2 DEF TypeOK, TakeRequest, CallFlush, FlushSeesStop, FlushCtxDone
    <2>3. CASE Ack
      BY <1>1, <2>3 DEF TypeOK, Ack
    <2>4. QED
      BY <2>1, <2>2, <2>3, NextCases
  <1>8. QED
    BY <1>5, <1>6, <1>7

LEMMA SyncInit == Init => SyncInv
  <1> SUFFICES ASSUME Init PROVE SyncInv
    OBVIOUS
  <1>1. RowsInv
    BY RowsInit
  <1>2. MarksInv /\ ServingInv /\ FlushCovers
    BY DEF Init, MarksInv, ServingInv, FlushCovers, Selecting
  <1>3. QED
    BY <1>1, <1>2 DEF SyncInv

THEOREM SyncCorrect == Spec => []SyncInv
  <1>1. SyncInv /\ [Next]_vars => SyncInv'
    BY RowsStep, MarksStep, ServingStep, FlushCoversStep DEF SyncInv
  <1>2. QED
    BY <1>1, SyncInit, PTL DEF Spec

\* A Flush that is acknowledged has covered every row accepted before the call.
THEOREM FlushCoversCorrect == Spec => []FlushCovers
  <1>1. SyncInv => FlushCovers
    BY DEF SyncInv
  <1>2. QED
    BY <1>1, SyncCorrect, PTL

\* The invariant covers what was accepted before Stop.
LEMMA SyncCovers == SyncInv => StopCovers
  <1> SUFFICES ASSUME SyncInv, worker.pc = "exited", NEW t \in Tables
               PROVE  /\ stopMark[t] <= Taken(t)
                      /\ Outcomes = {"ok"} => stopMark[t] <= Acked(t)
    BY DEF StopCovers, Taken
  <1>1. Covers(stopMark) /\ worker.pos = 4
    BY DEF SyncInv, ServingInv
  <1>2. Passed(t)
    BY <1>1, PassedTables DEF SyncInv, RowsInv
  <1>3. QED
    BY <1>1, <1>2 DEF Covers

\* The worker does not exit before it has covered every row accepted before Stop.
THEOREM StopCoversCorrect == Spec => []StopCovers
  <1>1. QED
    BY SyncCovers, SyncCorrect, PTL
================================================================================

---------------------------- MODULE TrackerProofs ----------------------------
(* Theorems about Tracker, for every value of its constants: what is proved of *)
(* BatchBuffer for any callers carries over to the process around it.          *)
EXTENDS Tracker, BatchBufferProofs

\* What main and the polling loops do to the buffer.
LEMMA MainEffects ==
    ASSUME MainStep \/ Signal
    PROVE  \/ UNCHANGED vars
           \/ CallStop("main")
           \/ StopReturns("main")
  <1>1. CASE Connect \/ InitSchema \/ Return \/ Signal
    BY <1>1 DEF Connect, InitSchema, Return, Signal
  <1>2. CASE CloseStore \/ CloseConn
    BY <1>2 DEF CloseStore, CloseConn
  <1>3. QED
    BY <1>1, <1>2 DEF MainStep

LEMMA PollEffects ==
    ASSUME PollStep
    PROVE  /\ UNCHANGED mainVars
           /\ \/ UNCHANGED vars
              \/ \E p \in Loops : todo[p] # <<>> /\ Enqueue(Head(todo[p]))
  BY DEF PollStep, StartLoops, LocationsAnswered, BinsAnswered, NextMachine, RequestFails,
         EnqueueNext, PollEnds, TickFires, LoopSeesDone
-------------------------------------------------------------------------------
(* Types: with them, the head of what a loop has to enqueue is a table.  The    *)
(* two loops start together, and after main has started them.                  *)

TypeInv ==
    /\ TrackerTypeOK
    /\ todo \in [Loops -> Seq(Tables)]
    /\ \A p, q \in Loops : loop[p] \in {"off", "hydrating"} => loop[q] = loop[p]
    /\ main \in {"connecting", "schema"} => \A p \in Loops : loop[p] = "off"
    /\ main = "connecting" => attempt < MaxAttempts

\* The tail of a loop's rows, and its head.
LEMMA TodoTail ==
    ASSUME NEW S, NEW s \in Seq(S), s # <<>>
    PROVE  Head(s) \in S /\ Tail(s) \in Seq(S)
  OBVIOUS

\* A step of the process is a step of the buffer, or leaves it alone.
LEMMA StepOfBuffer ==
    ASSUME TypeInv, [TrackerNext]_trackerVars
    PROVE  [Next]_vars
  <1>1. CASE MainStep \/ Signal
    BY <1>1, MainEffects, TrackerAssumption DEF TrackerAssumption, Next, CallerStep
  <1>2. CASE PollStep
    <2>1. ASSUME NEW p \in Loops, todo[p] # <<>> PROVE Head(todo[p]) \in Tables
      BY <2>1, TodoTail DEF TypeInv
    <2>2. QED
      BY <1>2, <2>1, PollEffects DEF Next, CallerStep
  <1>3. CASE WorkerRuns \/ WorkerChooses
    BY <1>3 DEF WorkerRuns, WorkerChooses, Next
  <1>4. CASE UNCHANGED trackerVars
    BY <1>4 DEF trackerVars
  <1>5. QED
    BY <1>1, <1>2, <1>3, <1>4 DEF TrackerNext

\* The rows of an answer: machines and then their events, or the bins of a machine.
LEMMA AnswerRows ==
    ASSUME NEW n \in Nat
    PROVE  /\ [i \in 1..(2 * n) |-> IF i <= n THEN "rvm_current" ELSE "rvm_events"]
                 \in Seq({"rvm_current", "rvm_events"})
           /\ [i \in 1..n |-> "rvm_bin_snapshots"] \in Seq({"rvm_bin_snapshots"})
  <1>1. 2 * n \in Nat
    OBVIOUS
  <1>2. QED
    BY <1>1

\* The polling loops keep the types.
LEMMA TypeStepPoll ==
    ASSUME TypeInv, TypeOK', PollStep
    PROVE  TypeInv'
  <1> DEFINE TwoTables == {"rvm_current", "rvm_events"}
             OneTable == {"rvm_bin_snapshots"}
             Running == {"asking", "enqueuing", "waiting", "done"}
             Pcs == {"off", "hydrating"} \cup Running
             TodoOK == /\ todo \in [Loops -> Seq(Tables)]
                       /\ todo["locations"] \in Seq(TwoTables)
                       /\ todo["bins"] \in Seq(OneTable)
  <1>1. /\ main' = main /\ attempt' = attempt /\ sigMark' = sigMark
    BY PollEffects DEF mainVars
  <1>2. /\ "locations" \in Loops /\ "bins" \in Loops
        /\ \A p \in Loops : p = "locations" \/ p = "bins"
        /\ TwoTables \subseteq Tables /\ OneTable \subseteq Tables
    BY DEF Loops, Tables
  <1>4. /\ known \in BOOLEAN /\ loop \in [Loops -> Pcs] /\ TodoOK
        /\ \A p \in Loops : todo[p] # <<>> => loop[p] = "enqueuing"
        /\ \A p, q \in Loops : loop[p] \in {"off", "hydrating"} => loop[q] = loop[p]
        /\ main \in {"connecting", "schema"} => \A p \in Loops : loop[p] = "off"
    BY DEF TypeInv, TrackerTypeOK
  <1>3. SUFFICES /\ known' \in BOOLEAN
                 /\ \E p \in Loops : loop[p] # "off"
                 /\ loop' \in [Loops -> Running]
                 /\ TodoOK'
                 /\ \A p \in Loops : todo'[p] # <<>> => loop'[p] = "enqueuing"
    <2>1. main' \notin {"connecting", "schema"}
      BY <1>1, <1>3, <1>4
    <2>2. \A p \in Loops : loop'[p] \notin {"off", "hydrating"}
      BY <1>3
    <2>3. TrackerTypeOK'
      BY <1>1, <1>3 DEF TypeInv, TrackerTypeOK
    <2>4. QED
      BY <1>3, <2>1, <2>2, <2>3 DEF TypeInv
  <1>5. CASE StartLoops
    <2>1. loop["locations"] = "hydrating" /\ loop["bins"] = "hydrating"
      BY <1>2, <1>4, <1>5 DEF StartLoops
    <2>2. \A p \in Loops : todo[p] = <<>>
      BY <1>2, <1>4, <2>1
    <2>3. known' \in BOOLEAN /\ todo' = todo /\ loop' \in [Loops -> {"asking", "waiting"}]
      BY <1>5 DEF StartLoops, Begin, cancelled
    <2>4. QED
      BY <1>2, <1>4, <2>1, <2>2, <2>3
  <1>r. ASSUME NEW p \in Loops, loop[p] \in Running
        PROVE  /\ \E q \in Loops : loop[q] # "off"
               /\ \A q \in Loops : loop[q] \in Running
    BY <1>4, <1>r
  <1>6. CASE LocationsAnswered
    <2>1. PICK n \in 0..MaxRowsPerPoll :
             /\ known' \in (IF n = 0 THEN {known} ELSE BOOLEAN)
             /\ todo' = [todo EXCEPT !["locations"] =
                            [i \in 1..(2 * n) |-> IF i <= n THEN "rvm_current" ELSE "rvm_events"]]
      BY <1>6 DEF LocationsAnswered
    <2>2. n \in Nat
      BY <2>1, TrackerAssumption DEF TrackerAssumption
    <2>3. PICK rows \in Seq(TwoTables) : todo' = [todo EXCEPT !["locations"] = rows]
      BY <2>1, <2>2, AnswerRows
    <2>4. rows \in Seq(Tables)
      BY <1>2, <2>3
    <2>5. /\ loop["locations"] = "asking" /\ known' \in BOOLEAN
          /\ loop' = [loop EXCEPT !["locations"] = "enqueuing"]
      BY <1>4, <1>6, <2>1 DEF LocationsAnswered
    <2>6. QED
      BY <1>2, <1>4, <1>r, <2>3, <2>4, <2>5
  <1>7. CASE BinsAnswered
    <2>1. PICK n \in 0..MaxRowsPerPoll :
             todo' = [todo EXCEPT !["bins"] = [i \in 1..n |-> "rvm_bin_snapshots"]]
      BY <1>7 DEF BinsAnswered
    <2>2. n \in Nat
      BY <2>1, TrackerAssumption DEF TrackerAssumption
    <2>3. PICK rows \in Seq(OneTable) : todo' = [todo EXCEPT !["bins"] = rows]
      BY <2>1, <2>2, AnswerRows
    <2>4. rows \in Seq(Tables)
      BY <1>2, <2>3
    <2>5. /\ loop["bins"] = "asking" /\ known' = known
          /\ loop' = [loop EXCEPT !["bins"] = "enqueuing"]
      BY <1>7 DEF BinsAnswered
    <2>6. QED
      BY <1>2, <1>4, <1>r, <2>3, <2>4, <2>5
  <1>8. ASSUME NEW p \in Loops, EnqueueNext(p)
        PROVE  /\ known' = known /\ loop' = loop /\ loop[p] = "enqueuing"
               /\ todo[p] # <<>> /\ todo' = [todo EXCEPT ![p] = Tail(@)]
    BY <1>8 DEF EnqueueNext
  <1>9. CASE \E p \in Loops : EnqueueNext(p)
    <2>1. PICK p \in Loops : EnqueueNext(p)
      BY <1>9
    <2>2. Tail(todo[p]) \in Seq(Tables)
      BY <1>4, <1>8, <2>1, TodoTail
    <2>3. p = "locations" => Tail(todo[p]) \in Seq(TwoTables)
      BY <1>4, <1>8, <2>1, TodoTail
    <2>4. p = "bins" => Tail(todo[p]) \in Seq(OneTable)
      BY <1>4, <1>8, <2>1, TodoTail
    <2>5. TodoOK'
      <3>1. PICK rest : rest = Tail(todo[p])
        OBVIOUS
      <3>2. todo' = [todo EXCEPT ![p] = rest] /\ rest \in Seq(Tables)
        BY <1>8, <2>1, <2>2, <3>1
      <3>3. todo' \in [Loops -> Seq(Tables)]
        BY <1>4, <3>2
      <3>4. CASE p = "locations"
        BY <1>2, <1>4, <2>3, <3>1, <3>2, <3>3, <3>4
      <3>5. CASE p = "bins"
        BY <1>2, <1>4, <2>4, <3>1, <3>2, <3>3, <3>5
      <3>6. QED
        BY <1>2, <3>4, <3>5
    <2>6. \A q \in Loops : todo'[q] # <<>> => loop'[q] = "enqueuing"
      BY <1>4, <1>8, <2>1
    <2>7. loop' \in [Loops -> Running] /\ \E q \in Loops : loop[q] # "off"
      BY <1>4, <1>8, <1>r, <2>1
    <2>8. QED
      BY <1>4, <1>8, <2>1, <2>5, <2>6, <2>7
  <1>10. ASSUME NEW p \in Loops,
                \/ RequestFails(p) \/ PollEnds(p) \/ TickFires(p) \/ LoopSeesDone(p)
         PROVE  /\ known' = known /\ todo' = todo
                /\ todo[p] = <<>> /\ loop[p] \in Running
                /\ \E pc \in Running : loop' = [loop EXCEPT ![p] = pc]
    BY <1>4, <1>10 DEF RequestFails, PollEnds, TickFires, LoopSeesDone, Begin
  <1>11. CASE NextMachine
    BY <1>2, <1>4, <1>r, <1>11 DEF NextMachine
  <1>12. CASE \E p \in Loops : RequestFails(p) \/ PollEnds(p) \/ TickFires(p) \/ LoopSeesDone(p)
    BY <1>4, <1>r, <1>10, <1>12
  <1>13. QED
    BY <1>5, <1>6, <1>7, <1>9, <1>11, <1>12 DEF PollStep

\* main keeps the types, and the buffer's worker does.
LEMMA TypeStepMain ==
    ASSUME TypeInv, TypeOK', MainStep \/ Signal
    PROVE  TypeInv'
  <1>1. known' = known /\ todo' = todo
    BY DEF MainStep, Connect, InitSchema, Signal, CloseStore, CloseConn, Return, pollVars
  <1>2. CASE InitSchema
    <2>1. \A p \in Loops : loop[p] = "off"
      BY <1>2 DEF TypeInv, InitSchema
    <2>2. \A p \in Loops : todo[p] = <<>>
      BY <2>1 DEF TypeInv, TrackerTypeOK
    <2>3. CASE main' = "failed" /\ loop' = loop
      BY <1>1, <1>2, <2>1, <2>3 DEF TypeInv, TrackerTypeOK, InitSchema
    <2>4. CASE main' = "running" /\ loop' = [p \in Loops |-> "hydrating"]
      BY <1>1, <1>2, <2>2, <2>4 DEF TypeInv, TrackerTypeOK, InitSchema
    <2>5. QED
      BY <1>2, <2>3, <2>4 DEF InitSchema
  <1>3. CASE Connect
    <2>1. /\ main' \in {"connecting", "schema", "failed"} /\ attempt' \in 0..MaxAttempts
          /\ main' = "connecting" => attempt' < MaxAttempts
      <3>1. attempt \in Nat /\ attempt < MaxAttempts /\ MaxAttempts \in Nat
        BY <1>3, TrackerAssumption DEF Connect, TypeInv, TrackerTypeOK, TrackerAssumption
      <3>2. CASE main' = "schema" /\ attempt' = attempt
        BY <3>1, <3>2
      <3>3. CASE /\ attempt' = attempt + 1
                 /\ main' = IF attempt' = MaxAttempts THEN "failed" ELSE main
        BY <1>3, <3>1, <3>3 DEF Connect
      <3>4. QED
        BY <1>3, <3>2, <3>3 DEF Connect
    <2>2. loop' = loop /\ sigMark' = sigMark /\ main = "connecting"
      BY <1>3 DEF Connect, pollVars
    <2>3. QED
      BY <1>1, <2>1, <2>2 DEF TypeInv, TrackerTypeOK
  <1>4. CASE Signal
    <2>1. sigMark' \in [Tables -> Nat]
      BY <1>4, TableRows DEF Signal, AcceptedCounts, TypeInv, TrackerTypeOK
    <2>2. QED
      BY <1>1, <1>4, <2>1 DEF Signal, pollVars, TypeInv, TrackerTypeOK
  <1>5. CASE CloseStore \/ CloseConn \/ Return
    BY <1>1, <1>5 DEF CloseStore, CloseConn, Return, pollVars, TypeInv, TrackerTypeOK
  <1>6. QED
    BY <1>2, <1>3, <1>4, <1>5 DEF MainStep

LEMMA TrackerTypeStep == TypeInv /\ [TrackerNext]_trackerVars => TypeInv'
  <1> SUFFICES ASSUME TypeInv, [TrackerNext]_trackerVars PROVE TypeInv'
    OBVIOUS
  <1>1. TypeOK'
    BY StepOfBuffer, TypeStep DEF TypeInv, TrackerTypeOK
  <1>2. CASE WorkerRuns \/ WorkerChooses \/ UNCHANGED trackerVars
    BY <1>1, <1>2 DEF WorkerRuns, WorkerChooses, trackerVars, mainVars, pollVars, TypeInv,
                      TrackerTypeOK
  <1>3. QED
    BY <1>1, <1>2, TypeStepMain, TypeStepPoll DEF TrackerNext

LEMMA TrackerTypeInit == TrackerInit => TypeInv
  <1> SUFFICES ASSUME TrackerInit PROVE TypeInv
    OBVIOUS
  <1>1. /\ <<>> \in Seq(Tables) /\ <<>> \in Seq({"rvm_bin_snapshots"})
        /\ <<>> \in Seq({"rvm_current", "rvm_events"})
    OBVIOUS
  <1>2. todo["locations"] = <<>> /\ todo["bins"] = <<>>
    BY DEF TrackerInit, Loops
  <1>3. todo \in [Loops -> Seq(Tables)] /\ \A p \in Loops : todo[p] = <<>>
    BY <1>1 DEF TrackerInit
  <1>4. /\ main = "connecting" /\ known = FALSE /\ attempt = 0
        /\ 0 \in 0..MaxAttempts /\ 0 < MaxAttempts
        /\ loop \in [Loops -> {"off"}]
    BY TrackerAssumption DEF TrackerInit, TrackerAssumption
  <1>5. sigMark \in [Tables -> Nat]
    BY DEF TrackerInit
  <1>6. TypeOK
    BY TypeInit DEF TrackerInit
  <1>7. TrackerTypeOK
    BY <1>1, <1>2, <1>3, <1>4, <1>5, <1>6 DEF TrackerTypeOK
  <1>8. QED
    BY <1>3, <1>4, <1>7 DEF TypeInv

\* Type correctness of the process, with any number of attempts, rows and capacities.
THEOREM TrackerTypeCorrect == TrackerSpec => []TrackerTypeOK
  <1>1. TypeInv => TrackerTypeOK
    BY DEF TypeInv
  <1>2. QED
    BY <1>1, TrackerTypeInit, TrackerTypeStep, PTL DEF TrackerSpec

\* The buffer in the process behaves as BatchBuffer: main and the polling loops are
\* only some of the callers it is proved for.
THEOREM TrackerUsesBuffer == TrackerSpec => Spec
  <1>1. TrackerInit => Init
    BY DEF TrackerInit
  <1>2. QED
    BY <1>1, TrackerTypeInit, TrackerTypeStep, StepOfBuffer, PTL DEF TrackerSpec, Spec
-------------------------------------------------------------------------------
(* Shutdown: an inductive invariant.  Stop is called after the signal, so that *)
(* what Stop covers (StopCovers of BatchBuffer) was accepted before it.        *)

ShutdownInv ==
    /\ main \in {"connecting", "schema", "running", "shutdown"} => ~stopped
    /\ main = "shutdown" => \A t \in Tables : sigMark[t] <= Len(accepted[t])
    /\ main \in {"closing", "closed", "exited"} =>
          stopped /\ \A t \in Tables : sigMark[t] <= stopMark[t]
    /\ main \in {"closed", "exited"} => worker.pc = "exited"

\* The worker's goroutine has returned: nothing moves it any more.
LEMMA ExitedStays ==
    ASSUME TypeOK, worker.pc = "exited", [Next]_vars
    PROVE  worker' = worker
  <1>1. CASE \/ \E t \in Tables : Receive(t)
             \/ Tick \/ SeeStop \/ DrainRow \/ DrainNext \/ SkipTable \/ Loop \/ Ack \/ Exit
             \/ \E f \in Flushers : TakeRequest(f)
             \/ \E outcome \in Outcomes : FlushTable(outcome)
    BY <1>1 DEF Receive, Tick, SeeStop, DrainRow, DrainNext, SkipTable, Loop, Ack, Exit,
                TakeRequest, FlushTable, FlushEnds
  <1>2. CASE \/ \E t \in Tables : Enqueue(t)
             \/ \E f \in Flushers : CallFlush(f) \/ FlushSeesStop(f) \/ FlushCtxDone(f)
             \/ \E s \in Stoppers : CallStop(s) \/ StopReturns(s)
             \/ UNCHANGED vars
    BY <1>2 DEF Enqueue, CallFlush, FlushSeesStop, FlushCtxDone, CallStop, StopReturns, vars
  <1>3. QED
    BY <1>1, <1>2, NextCases

\* Only main stops the buffer.
LEMMA StoppedByMain ==
    ASSUME TypeInv, [TrackerNext]_trackerVars, ~CloseStore
    PROVE  stopped' = stopped /\ stopMark' = stopMark
  <1>1. CASE MainStep \/ Signal
    <2>1. CASE CloseConn
      BY <2>1 DEF CloseConn, StopReturns
    <2>2. CASE Connect \/ InitSchema \/ Return \/ Signal
      BY <2>2 DEF Connect, InitSchema, Return, Signal, vars, callerVars
    <2>3. QED
      BY <1>1, <2>1, <2>2 DEF MainStep
  <1>2. CASE PollStep
    BY <1>2, PollEffects DEF Enqueue, vars, callerVars
  <1>3. CASE WorkerRuns \/ WorkerChooses
    BY <1>3 DEF WorkerRuns, WorkerChooses, WorkerStep, WorkerSelect, DrainRow, DrainNext,
                SkipTable, Loop, Ack, Exit, FlushTable, Receive, Tick, TakeRequest, SeeStop,
                callerVars
  <1>4. CASE UNCHANGED trackerVars
    BY <1>4 DEF trackerVars, vars, callerVars
  <1>5. QED
    BY <1>1, <1>2, <1>3, <1>4 DEF TrackerNext

LEMMA AtMost ==
    ASSUME NEW a \in Nat, NEW b \in Nat, NEW c \in Int, a <= b, b <= c
    PROVE  a <= c
  OBVIOUS

\* Each step keeps the order of the signal, Stop and the last flush.
LEMMA ShutdownStep ==
    ASSUME TypeInv, TypeInv', RowsInv, RowsInv', ShutdownInv, [TrackerNext]_trackerVars
    PROVE  ShutdownInv'
  <1>1. [Next]_vars
    BY StepOfBuffer
  <1>2. ASSUME NEW t \in Tables
        PROVE  /\ Len(accepted[t]) \in Nat /\ Len(accepted'[t]) \in Nat
               /\ Len(accepted[t]) <= Len(accepted'[t])
               /\ sigMark[t] \in Nat
    BY <1>1, <1>2, Progress DEF TypeInv, TrackerTypeOK
  <1>3. worker.pc = "exited" => worker'.pc = "exited"
    BY <1>1, ExitedStays DEF RowsInv
  <1>4. CASE CloseStore
    <2>1. /\ main = "shutdown" /\ main' = "closing" /\ sigMark' = sigMark
          /\ ~stopped /\ stopped' /\ stopMark' = AcceptedCounts
      BY <1>4 DEF CloseStore, CallStop, ShutdownInv
    <2>2. QED
      BY <2>1 DEF ShutdownInv, AcceptedCounts
  <1>5. CASE ~CloseStore
    <2>1. stopped' = stopped /\ stopMark' = stopMark
      BY <1>5, StoppedByMain
    <2>2. CASE Signal
      BY <2>1, <2>2, <1>2 DEF Signal, ShutdownInv, AcceptedCounts, vars, rowVars
    <2>3. CASE CloseConn
      BY <2>1, <2>3 DEF CloseConn, StopReturns, ShutdownInv
    <2>4. CASE Connect \/ InitSchema \/ Return
      BY <1>3, <2>1, <2>4 DEF Connect, InitSchema, Return, ShutdownInv
    <2>5. CASE PollStep \/ WorkerRuns \/ WorkerChooses \/ UNCHANGED trackerVars
      <3>1. main' = main /\ sigMark' = sigMark
        BY <2>5, PollEffects DEF WorkerRuns, WorkerChooses, mainVars, trackerVars
      <3>2. \A t \in Tables : sigMark[t] <= Len(accepted[t]) => sigMark[t] <= Len(accepted'[t])
        BY <1>2
      <3>3. QED
        BY <1>3, <2>1, <3>1, <3>2 DEF ShutdownInv
    <2>6. QED
      BY <1>5, <2>2, <2>3, <2>4, <2>5 DEF TrackerNext, MainStep
  <1>6. QED
    BY <1>4, <1>5

\* What was accepted before the signal is covered when the connection is closed,
\* however many rows the polls go on enqueuing meanwhile.
THEOREM SignalDrainedCorrect == TrackerSpec => []SignalDrained
  <1>1. TrackerInit => ShutdownInv
    BY DEF TrackerInit, Init, ShutdownInv
  <1>2. TypeInv /\ SyncInv /\ ShutdownInv => SignalDrained
    <2> SUFFICES ASSUME TypeInv, SyncInv, ShutdownInv, main \in {"closed", "exited"}
                 PROVE  /\ worker.pc = "exited"
                        /\ \A t \in Tables :
                              /\ sigMark[t] <= Len(accepted[t]) - Len(queue[t])
                              /\ Outcomes = {"ok"} => sigMark[t] <= Acked(t)
      BY DEF SignalDrained
    <2>1. worker.pc = "exited" /\ \A t \in Tables : sigMark[t] <= stopMark[t]
      BY DEF ShutdownInv
    <2>2. StopCovers
      BY SyncCovers
    <2>3. ASSUME NEW t \in Tables
          PROVE  /\ sigMark[t] <= Len(accepted[t]) - Len(queue[t])
                 /\ Outcomes = {"ok"} => sigMark[t] <= Acked(t)
      <3>1. /\ sigMark[t] \in Nat /\ stopMark[t] \in Nat
            /\ Len(accepted[t]) \in Nat /\ Len(queue[t]) \in Nat /\ Len(batch[t]) \in Nat
        BY TableRows DEF TypeInv, TrackerTypeOK, TypeOK
      <3>2. /\ stopMark[t] <= Len(accepted[t]) - Len(queue[t])
            /\ Outcomes = {"ok"} => stopMark[t] <= Len(accepted[t]) - Len(batch[t]) - Len(queue[t])
        BY <2>1, <2>2 DEF StopCovers, Acked
      <3>3. sigMark[t] <= stopMark[t]
        BY <2>1
      <3>4. Acked(t) = Len(accepted[t]) - Len(batch[t]) - Len(queue[t])
        BY DEF Acked
      <3>5. /\ Len(accepted[t]) - Len(queue[t]) \in Int
            /\ Len(accepted[t]) - Len(batch[t]) - Len(queue[t]) \in Int
        BY <3>1
      <3>6. sigMark[t] <= Len(accepted[t]) - Len(queue[t])
        BY <3>1, <3>2, <3>3, <3>5, AtMost
      <3>7. ASSUME Outcomes = {"ok"} PROVE sigMark[t] <= Acked(t)
        BY <3>1, <3>2, <3>3, <3>4, <3>5, <3>7, AtMost
      <3>8. QED
        BY <3>6, <3>7
    <2>4. QED
      BY <2>1, <2>3
  <1>3. TrackerSpec => []TypeInv
    BY TrackerTypeInit, TrackerTypeStep, PTL DEF TrackerSpec
  <1>4. TrackerSpec => []SyncInv
    BY TrackerUsesBuffer, SyncCorrect, PTL
  <1>5. SyncInv => RowsInv
    BY DEF SyncInv
  <1>6. QED
    BY <1>1, <1>2, <1>3, <1>4, <1>5, ShutdownStep, PTL DEF TrackerSpec
-------------------------------------------------------------------------------
(* The configuration, for any environment: SettingsValid looks at those with at *)
(* most two variables set.                                                      *)

Texts == {Unset, Garbage, NaN} \cup Int

LEMMA DefaultsPositive == \A name \in Variables : Default[name] \in Nat \ {0}
  BY DEF Variables, Default

LEMMA TextKinds == NaN \notin Int /\ Unset \notin Int /\ Garbage \notin Int
  BY SettingsAssumption

LEMMA AboveIsPositive ==
    ASSUME NEW x \in Int
    PROVE  (Above(x) <=> x > 0) /\ (NotAbove(x) <=> x <= 0)
  BY TextKinds DEF Above, NotAbove

\* What a component makes of its own variable.
LEMMA OneSetting ==
    ASSUME NEW env \in [Variables -> Texts], NEW name \in Variables
    PROVE  /\ Effective(env)[name] \in Nat \ {0}
           /\ env[name] \in Int /\ env[name] > 0 => Effective(env)[name] = env[name]
           /\ NotAbove(Config(env)[name]) <=> env[name] \in Int /\ env[name] <= 0
  <1> DEFINE x == Config(env)[name]
  <1>1. env[name] \in Texts /\ Default[name] \in Nat \ {0}
    BY DefaultsPositive
  <1>2. x = IF Parses(name, env[name]) THEN env[name] ELSE Default[name]
    BY DEF Config
  <1>3. Effective(env)[name] = OrDefault(name, x)
    BY DEF Effective
  <1>4. CASE env[name] \in Int
    <2>1. x = env[name]
      BY <1>2, <1>4, TextKinds DEF Parses
    <2>2. QED
      BY <1>1, <1>3, <1>4, <2>1, AboveIsPositive DEF OrDefault
  <1>5. CASE env[name] \notin Int
    <2>1. x = NaN \/ x = Default[name]
      BY <1>1, <1>2, <1>5 DEF Parses, Texts
    <2>2. ~NotAbove(x) /\ Effective(env)[name] = Default[name]
      BY <1>1, <1>3, <2>1, AboveIsPositive DEF OrDefault, Above, NotAbove
    <2>3. QED
      BY <1>1, <1>5, <2>2
  <1>6. QED
    BY <1>4, <1>5

\* Whatever the environment holds, in every variable at once: what the components are
\* made with is what the modules assume of BatchSize and Workers and of every ticker, a
\* positive number that was set is the one in use, and Load refuses a number of workers
\* or a rate that is not positive, and nothing else.
THEOREM AnyEnvironmentRuns ==
    ASSUME NEW env \in [Variables -> Texts]
    PROVE  /\ Loads(env) <=> \A name \in {"BIN_WORKER_CONCURRENCY", "RATE_LIMIT_RPS"} :
                                ~(env[name] \in Int /\ env[name] <= 0)
           /\ \A name \in Variables :
                 /\ Effective(env)[name] \in Nat \ {0}
                 /\ env[name] \in Int /\ env[name] > 0 => Effective(env)[name] = env[name]
  <1>1. {"BIN_WORKER_CONCURRENCY", "RATE_LIMIT_RPS"} \subseteq Variables
    BY DEF Variables, Default
  <1>2. QED
    BY <1>1, OneSetting DEF Loads

\* The environments that SettingsValid looks at are some of them.
THEOREM SettingsValidCorrect == TrackerSpec => []SettingsValid
  <1>1. ASSUME NEW env \in Environments
        PROVE  /\ env \in [Variables -> Texts]
               /\ \A name \in Variables : env[name] \in Int => env[name] \in Numbers
    <2>1. PICK set \in SUBSET Variables : \E text \in [set -> {Garbage, NaN} \cup Numbers] :
             env = [name \in Variables |-> IF name \in set THEN text[name] ELSE Unset]
      BY <1>1 DEF Environments
    <2>2. PICK text \in [set -> {Garbage, NaN} \cup Numbers] :
             env = [name \in Variables |-> IF name \in set THEN text[name] ELSE Unset]
      BY <2>1
    <2>3. \A name \in Variables : env[name] \in {Unset, Garbage, NaN} \cup Numbers
      BY <2>2
    <2>4. QED
      BY <2>2, <2>3, SettingsAssumption DEF Texts
  <1>2. ASSUME NEW env \in Environments,
               NEW positive, positive = {name \in Variables : env[name] \in {n \in Numbers : n > 0}},
               NEW negative, negative = {name \in Variables : env[name] \in {n \in Numbers : n <= 0}}
        PROVE  /\ Loads(env) <=> negative \cap {"BIN_WORKER_CONCURRENCY", "RATE_LIMIT_RPS"} = {}
               /\ \A name \in Variables : Above(Effective(env)[name])
               /\ \A name \in positive : Effective(env)[name] = env[name]
    <2>1. \A name \in Variables :
             /\ name \in positive <=> env[name] \in Int /\ env[name] > 0
             /\ name \in negative <=> env[name] \in Int /\ env[name] <= 0
      BY <1>1, <1>2, SettingsAssumption
    <2>2. {"BIN_WORKER_CONCURRENCY", "RATE_LIMIT_RPS"} \subseteq Variables
      BY DEF Variables, Default
    <2>3. positive \subseteq Variables
      BY <1>2
    <2>4. \A name \in Variables : Effective(env)[name] \in Nat \ {0}
      BY <1>1, AnyEnvironmentRuns
    <2>5. \A name \in Variables : Above(Effective(env)[name])
      BY <2>4, AboveIsPositive
    <2>6. QED
      BY <1>1, <2>1, <2>2, <2>3, <2>5, AnyEnvironmentRuns
  <1>3. EffectiveSettings
    BY <1>2 DEF EffectiveSettings
  <1>4. SettingsValid
    BY <1>3 DEF SettingsValid
  <1>5. QED
    BY <1>4, PTL

===============================================================================

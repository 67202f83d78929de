------------------------------- MODULE Tracker -------------------------------
(***************************************************************************)
(* cmd/tracker/main.go: the life of the process.  main connects to         *)
(* ClickHouse, starts the poller, waits for a signal, cancels the context  *)
(* and closes the storage, which stops the batch buffer; the two polling   *)
(* loops of Poller.Start enqueue rows meanwhile.  When main returns, every *)
(* goroutine ends where it is.                                             *)
(*                                                                         *)
(* The buffer is the one of module BatchBuffer, whose steps are taken as   *)
(* they are; a poll is reduced to the rows it enqueues, and the bin pool   *)
(* (module BinPoll) to one worker.  The configuration main loads first, of *)
(* which BatchSize comes, is module Settings.                              *)
(*                                                                         *)
(* A definition marked "Variant" is the one after it with a plausible      *)
(* mistake; no specification uses it.                                      *)
(***************************************************************************)
EXTENDS BatchBuffer, Settings

CONSTANTS
    MaxAttempts,   \* attempts to connect to ClickHouse (10)
    MaxRowsPerPoll \* bound: rows per table from one answer of the API

\* Nobody calls Flush in the running program, and only main calls Stop.
ASSUME TrackerAssumption ==
    /\ Flushers = {}
    /\ Stoppers = {"main"}
    /\ MaxAttempts \in Nat \ {0}
    /\ MaxRowsPerPoll \in Nat

Loops == {"locations", "bins"}

VARIABLES
    main,      \* where main is
    attempt,   \* failed attempts to connect
    sigMark,   \* sigMark[t]: rows accepted when the signal was received (history)
    known,     \* activeRVMs holds a machine
    loop,      \* loop[p]: where a polling loop is
    todo       \* todo[p]: the tables of the rows it has still to enqueue, in order

mainVars    == <<main, attempt, sigMark>>
pollVars    == <<known, loop, todo>>
trackerVars == <<vars, mainVars, pollVars>>

TrackerInit ==
    /\ Init
    /\ main = "connecting"
    /\ attempt = 0
    /\ sigMark = [t \in Tables |-> 0]
    /\ known = FALSE
    /\ loop = [p \in Loops |-> "off"]
    /\ todo = [p \in Loops |-> <<>>]

\* The process has a storage, hence a buffer whose worker runs, and has not ended.
Up == main \in {"schema", "running", "shutdown", "closing", "closed"}

cancelled == main \in {"shutdown", "closing", "closed"}
-------------------------------------------------------------------------------
(* main: start                                                              *)

\* storage.New is tried again after 3 s, MaxAttempts times in all.
Connect ==
    /\ main = "connecting"
    /\ \/ main' = "schema" /\ UNCHANGED attempt
       \/ /\ attempt' = attempt + 1
          /\ main' = IF attempt' = MaxAttempts THEN "failed" ELSE main
    /\ UNCHANGED <<vars, sigMark, pollVars>>

\* InitSchema; a failure ends the process, otherwise the poller's goroutine starts.
InitSchema ==
    /\ main = "schema"
    /\ \/ main' = "failed" /\ UNCHANGED loop
       \/ main' = "running" /\ loop' = [p \in Loops |-> "hydrating"]
    /\ UNCHANGED <<vars, attempt, sigMark, known, todo>>
-------------------------------------------------------------------------------
(* main: shutdown                                                           *)

\* SIGINT or SIGTERM: cancel().  main does not wait for the poller.
Signal ==
    /\ main = "running"
    /\ main' = "shutdown"
    /\ sigMark' = AcceptedCounts
    /\ UNCHANGED <<vars, attempt, pollVars>>

\* The metrics server has shut down, or 15 s are over; the deferred store.Close
\* stops the buffer ...
CloseStore ==
    /\ main = "shutdown"
    /\ main' = "closing"
    /\ CallStop("main")
    /\ UNCHANGED <<attempt, sigMark, pollVars>>

\* Variant: Stop does not wait for the worker.
CloseConnEarly ==
    /\ main = "closing"
    /\ main' = "closed"
    /\ UNCHANGED <<vars, attempt, sigMark, pollVars>>

\* ... and, when the worker has exited, closes the connection.
CloseConn ==
    /\ main = "closing"
    /\ main' = "closed"
    /\ StopReturns("main")
    /\ UNCHANGED <<attempt, sigMark, pollVars>>

Return ==
    /\ main = "closed"
    /\ main' = "exited"
    /\ UNCHANGED <<vars, attempt, sigMark, pollVars>>
-------------------------------------------------------------------------------
(* Poller.Start and its loops                                               *)

\* PollBins finds nothing to do, and asks nothing, while no machine is known.
Begin(p, machinesKnown) ==
    IF p = "bins" /\ ~machinesKnown THEN "waiting" ELSE "asking"

\* HydrateFromStorage, which a cancelled context makes fail, and the first polls.
\* Both loops start with a poll, before they look at the context.
StartLoops ==
    /\ Up
    /\ loop["locations"] = "hydrating"
    /\ known' \in {FALSE, ~cancelled}
    /\ loop' = [p \in Loops |-> Begin(p, known')]
    /\ UNCHANGED <<vars, mainVars, todo>>

\* An answer was read before the context ended.  A diff has one event per changed
\* machine, which are enqueued after all the machines.
LocationsAnswered ==
    /\ Up /\ ~cancelled
    /\ loop["locations"] = "asking"
    /\ \E n \in 0..MaxRowsPerPoll :
          /\ \A t \in {"rvm_current", "rvm_events"} : offered[t] + n <= MaxRows[t]
          /\ known' \in (IF n = 0 THEN {known} ELSE BOOLEAN)
          /\ todo' = [todo EXCEPT !["locations"] =
                         [i \in 1..(2 * n) |-> IF i <= n THEN "rvm_current" ELSE "rvm_events"]]
    /\ loop' = [loop EXCEPT !["locations"] = "enqueuing"]
    /\ UNCHANGED <<vars, mainVars>>

\* The bins of one machine.
BinsAnswered ==
    /\ Up /\ ~cancelled
    /\ loop["bins"] = "asking"
    /\ \E n \in 0..MaxRowsPerPoll :
          /\ offered["rvm_bin_snapshots"] + n <= MaxRows["rvm_bin_snapshots"]
          /\ todo' = [todo EXCEPT !["bins"] = [i \in 1..n |-> "rvm_bin_snapshots"]]
    /\ loop' = [loop EXCEPT !["bins"] = "enqueuing"]
    /\ UNCHANGED <<vars, mainVars, known>>

\* The API or the context fails the request: the locations are not touched, and the
\* bins of this machine are skipped.
RequestFails(p) ==
    /\ Up
    /\ loop[p] = "asking"
    /\ loop' = [loop EXCEPT ![p] = IF p = "bins" THEN "enqueuing" ELSE "waiting"]
    /\ UNCHANGED <<vars, mainVars, known, todo>>

\* A poll goes on enqueuing after the context has ended and after the buffer has stopped.
EnqueueNext(p) ==
    /\ Up
    /\ loop[p] = "enqueuing"
    /\ todo[p] # <<>>
    /\ Enqueue(Head(todo[p]))
    /\ todo' = [todo EXCEPT ![p] = Tail(@)]
    /\ UNCHANGED <<mainVars, known, loop>>

\* A bin worker looks at the context before it asks for the next machine.
NextMachine ==
    /\ Up /\ ~cancelled
    /\ loop["bins"] = "enqueuing"
    /\ todo["bins"] = <<>>
    /\ loop' = [loop EXCEPT !["bins"] = "asking"]
    /\ UNCHANGED <<vars, mainVars, known, todo>>

\* Variant: a poll breaks off when the context has ended.
PollEndsAbruptly(p) ==
    /\ Up
    /\ loop[p] = "enqueuing"
    /\ todo[p] = <<>> \/ cancelled
    /\ loop' = [loop EXCEPT ![p] = "waiting"]
    /\ UNCHANGED <<vars, mainVars, known, todo>>

PollEnds(p) ==
    /\ Up
    /\ loop[p] = "enqueuing"
    /\ todo[p] = <<>>
    /\ loop' = [loop EXCEPT ![p] = "waiting"]
    /\ UNCHANGED <<vars, mainVars, known, todo>>

\* The loop's select: the ticker, which may win over a context that has ended ...
TickFires(p) ==
    /\ Up
    /\ loop[p] = "waiting"
    /\ loop' = [loop EXCEPT ![p] = Begin(p, known)]
    /\ UNCHANGED <<vars, mainVars, known, todo>>

\* ... and the context.
LoopSeesDone(p) ==
    /\ Up /\ cancelled
    /\ loop[p] = "waiting"
    /\ loop' = [loop EXCEPT ![p] = "done"]
    /\ UNCHANGED <<vars, mainVars, known, todo>>
-------------------------------------------------------------------------------
(* The buffer's worker, while the process runs                              *)

WorkerRuns == Up /\ WorkerStep /\ UNCHANGED <<mainVars, pollVars>>

WorkerChooses == Up /\ WorkerSelect /\ UNCHANGED <<mainVars, pollVars>>

WorkerSeesStop == Up /\ SeeStop /\ UNCHANGED <<mainVars, pollVars>>

MainStep == Connect \/ InitSchema \/ CloseStore \/ CloseConn \/ Return

PollStep ==
    \/ StartLoops \/ LocationsAnswered \/ BinsAnswered \/ NextMachine
    \/ \E p \in Loops :
          RequestFails(p) \/ EnqueueNext(p) \/ PollEnds(p) \/ TickFires(p) \/ LoopSeesDone(p)

TrackerNext ==
    \/ MainStep \/ Signal
    \/ PollStep
    \/ WorkerRuns \/ WorkerChooses

TrackerSpec == TrackerInit /\ [][TrackerNext]_trackerVars

\* main goes on, the worker as in BatchBuffer (an insert ends within its 10 s, the
\* select takes a case that stays ready).  Nothing is assumed of the poller, of the API
\* or of signals.
FairTracker ==
    /\ TrackerSpec
    /\ WF_trackerVars(MainStep)
    /\ WF_trackerVars(WorkerRuns)
    /\ SF_trackerVars(WorkerSeesStop)
-------------------------------------------------------------------------------
(* Properties.                                                              *)

\* The buffer's type invariant, and the types of the rest; only a poll that is under
\* way has rows to enqueue, and each loop has rows for its own tables.
TrackerTypeOK ==
    /\ TypeOK
    /\ main \in {"connecting", "schema", "running", "shutdown", "closing", "closed",
                 "exited", "failed"}
    /\ attempt \in 0..MaxAttempts
    /\ sigMark \in [Tables -> Nat]
    /\ known \in BOOLEAN
    /\ loop \in [Loops -> {"off", "hydrating", "asking", "enqueuing", "waiting", "done"}]
    /\ todo["locations"] \in Seq({"rvm_current", "rvm_events"})
    /\ todo["bins"] \in Seq({"rvm_bin_snapshots"})
    /\ \A p \in Loops : todo[p] # <<>> => loop[p] = "enqueuing"

\* What shutdown does promise: the connection is closed when no insert can follow, and
\* every row that was accepted before the signal has been handed to an insert by then;
\* if no insert fails it is in its table, however the polls race with the last flush.
SignalDrained ==
    main \in {"closed", "exited"} =>
        /\ worker.pc = "exited"
        /\ \A t \in Tables :
              /\ sigMark[t] <= Len(accepted[t]) - Len(queue[t])
              /\ Outcomes = {"ok"} => sigMark[t] <= Acked(t)

\* A signal ends the process: neither polls that are still running, nor failing inserts,
\* nor a busy select keep it from closing the storage and returning.
ShutdownEnds == main = "shutdown" ~> main = "exited"

\* Said by the README ("with graceful shutdown draining"): when no insert fails, every
\* row that was accepted is in its table when the process ends.
GracefulDrain ==
    main = "exited" /\ Outcomes = {"ok"} =>
        \A t \in Tables : Acked(t) = Len(accepted[t])

\* EffectiveSettings of Settings, which says nothing of a state, at the start: whatever
\* the environment holds, a configuration that main goes on with can run.
SettingsValid == TrackerInit => EffectiveSettings
===============================================================================

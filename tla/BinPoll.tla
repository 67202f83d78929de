------------------------------- MODULE BinPoll -------------------------------
(***************************************************************************)
(* internal/poller/poller.go, PollBins up to its delta section: the        *)
(* machines that memory knows go through a jobs channel to a pool of       *)
(* workers, which ask for the bins of a machine, hand each bin to the      *)
(* batch buffer and send it on a bounded channel to one collector.         *)
(*                                                                         *)
(* A bin is a pair of its machine and its position in the answer.          *)
(*                                                                         *)
(* A definition marked "Variant" is the one after it with a plausible      *)
(* mistake; no specification uses it.                                      *)
(***************************************************************************)
EXTENDS Naturals, Sequences, FiniteSets, Functions

CONSTANTS
    Machines,      \* RVM IDs
    Workers,       \* the worker goroutines (BIN_WORKER_CONCURRENCY)
    NoMachine,     \* not a machine
    MaxBins,       \* bound: bins in an answer
    ScrapedCap     \* the capacity of scrapedCh (1000)

ASSUME PollAssumption ==
    /\ IsFiniteSet(Machines) /\ NoMachine \notin Machines
    /\ Workers # {}
    /\ MaxBins \in Nat /\ ScrapedCap \in Nat \ {0}

Bins == Machines \X (1..MaxBins)

VARIABLES
    main,       \* where PollBins is
    cancelled,  \* ctx is done
    active,     \* p.activeRVMs, as PollLocations leaves it
    rvmList,    \* the machines of this cycle
    jobs,       \* the jobs channel, which is filled and closed before the workers start
    worker,     \* worker[w]: its machine, and the bins of the answer from the next one on
    scraped,    \* scrapedCh
    closed,     \* scrapedCh is closed
    collector,  \* the collector is still receiving
    allBins,    \* what the collector has received
    offered,    \* bins handed to the batch buffer in this cycle (history)
    answers,    \* answers[m]: whether GetBinStatus has answered for m (history)
    count,      \* count[m]: number of bins in m's answer
    result      \* what RecordPollCycle said of the last cycle

envVars  == <<cancelled, active>>
poolVars == <<jobs, worker, scraped, closed, collector, allBins, offered, answers, count>>
vars == <<main, envVars, rvmList, poolVars, result>>

\* A worker is about to take a job, waits for an answer, hands out bins or has returned.
Idle == [pc |-> "next", machine |-> NoMachine, bin |-> 0]
Done == [pc |-> "done", machine |-> NoMachine, bin |-> 0]

Init ==
    /\ main = "idle"
    /\ cancelled = FALSE
    /\ active \in SUBSET Machines
    /\ rvmList = {}
    /\ jobs = <<>>
    /\ worker = [w \in Workers |-> Done]
    /\ scraped = <<>>
    /\ closed = TRUE
    /\ collector = FALSE
    /\ allBins = <<>>
    /\ offered = {}
    /\ answers = [m \in Machines |-> "none"]
    /\ count = [m \in Machines |-> 0]
    /\ result = "none"
-------------------------------------------------------------------------------
(* The goroutine of PollBins                                                *)

\* The enumerations of a set: Go iterates over a map in any order.
Orders(S) == {s \in [1..Cardinality(S) -> S] : Range(s) = S}

\* Variant: the first list of machines is kept.
CycleMachinesOnce == IF rvmList = {} THEN active ELSE rvmList

\* The machines of a cycle are those that memory holds when it begins.
CycleMachines == active

\* Without machines PollBins returns at once and records nothing.  Neither the ticker's
\* select nor PollBins looks at the context first.
Begin ==
    /\ main = "idle"
    /\ main' = "scraping"
    /\ active # {}
    /\ rvmList' = CycleMachines
    /\ jobs' \in Orders(rvmList')
    /\ worker' = [w \in Workers |-> Idle]
    /\ scraped' = <<>>
    /\ closed' = FALSE
    /\ collector' = TRUE
    /\ allBins' = <<>>
    /\ offered' = {}
    /\ answers' = [m \in Machines |-> "none"]
    /\ count' = [m \in Machines |-> 0]
    /\ UNCHANGED <<envVars, result>>

\* Variant: the jobs have run out.
NoJobsLeft == jobs = <<>>

AllReturned == \A w \in Workers : worker[w].pc = "done"

\* wg.Wait() and close(scrapedCh).
Close ==
    /\ main = "scraping"
    /\ AllReturned
    /\ closed' = TRUE
    /\ main' = "collecting"
    /\ UNCHANGED <<envVars, rvmList, jobs, worker, scraped, collector, allBins, offered,
                   answers, count, result>>

\* Variant: does not wait for the collector.
ChannelClosed == closed

Collected == ~collector

\* collectorWg.Wait(): the delta section reads allBins from here on.
Finish ==
    /\ main = "collecting"
    /\ Collected
    /\ main' = "deltas"
    /\ UNCHANGED <<envVars, rvmList, poolVars, result>>

\* The delta section (module BinDelta), and RecordPollCycle with the context's error.
Record ==
    /\ main = "deltas"
    /\ main' = "idle"
    /\ result' = IF cancelled THEN "error" ELSE "success"
    /\ UNCHANGED <<envVars, rvmList, poolVars>>

\* PollLocations replaces the map, whatever PollBins is doing.
Relocate ==
    /\ active' \in SUBSET Machines
    /\ UNCHANGED <<main, cancelled, rvmList, poolVars, result>>

Cancel ==
    /\ ~cancelled
    /\ cancelled' = TRUE
    /\ UNCHANGED <<main, active, rvmList, poolVars, result>>
-------------------------------------------------------------------------------
(* The workers                                                              *)

Move(w, to) == worker' = [worker EXCEPT ![w] = to]

\* jobs is closed: a worker that finds it empty returns; one that receives a job looks
\* at the context before it asks for the bins, and returns without the job's machine.
TakeJob(w) ==
    /\ worker[w].pc = "next"
    /\ jobs # <<>>
    /\ jobs' = Tail(jobs)
    /\ \/ cancelled /\ Move(w, Done)
       \/ ~cancelled /\ Move(w, [pc |-> "asking", machine |-> Head(jobs), bin |-> 0])
    /\ UNCHANGED <<main, envVars, rvmList, scraped, closed, collector, allBins, offered,
                   answers, count, result>>

NoJob(w) ==
    /\ worker[w].pc = "next"
    /\ jobs = <<>>
    /\ Move(w, Done)
    /\ UNCHANGED <<main, envVars, rvmList, jobs, scraped, closed, collector, allBins,
                   offered, answers, count, result>>

\* After bin i of machine m: the next bin of the answer, or the next job.
After(m, i) ==
    IF i < count'[m] THEN [pc |-> "offering", machine |-> m, bin |-> i + 1] ELSE Idle

\* GetBinStatus returns bins, or an error, which is only logged.
Answer(w) ==
    /\ worker[w].pc = "asking"
    /\ \/ /\ answers' = [answers EXCEPT ![worker[w].machine] = "ok"]
          /\ \E n \in 0..MaxBins : count' = [count EXCEPT ![worker[w].machine] = n]
          /\ Move(w, After(worker[w].machine, 0))
       \/ /\ answers' = [answers EXCEPT ![worker[w].machine] = "failed"]
          /\ Move(w, Idle)
          /\ UNCHANGED count
    /\ UNCHANGED <<main, envVars, rvmList, jobs, scraped, closed, collector, allBins,
                   offered, result>>

Bin(w) == <<worker[w].machine, worker[w].bin>>

\* EnqueueBin, which never blocks.
Offer(w) ==
    /\ worker[w].pc = "offering"
    /\ offered' = offered \cup {Bin(w)}
    /\ Move(w, [worker[w] EXCEPT !.pc = "sending"])
    /\ UNCHANGED <<main, envVars, rvmList, jobs, scraped, closed, collector, allBins,
                   answers, count, result>>

\* Variant: one bin too many.
RoomForOneMore == Len(scraped) <= ScrapedCap

Room == Len(scraped) < ScrapedCap

\* The send on scrapedCh blocks while the channel is full, and watches no context.
Send(w) ==
    /\ worker[w].pc = "sending"
    /\ Room
    /\ scraped' = Append(scraped, Bin(w))
    /\ UNCHANGED <<answers, count>>
    /\ Move(w, After(worker[w].machine, worker[w].bin))
    /\ UNCHANGED <<main, envVars, rvmList, jobs, closed, collector, allBins, offered,
                   result>>
-------------------------------------------------------------------------------
(* The collector                                                            *)

Collect ==
    /\ collector
    /\ scraped # <<>>
    /\ allBins' = Append(allBins, Head(scraped))
    /\ scraped' = Tail(scraped)
    /\ UNCHANGED <<main, envVars, rvmList, jobs, worker, closed, collector, offered,
                   answers, count, result>>

\* Variant: the collector also watches the context.
CollectorStops == cancelled \/ (closed /\ scraped = <<>>)

\* The range over scrapedCh ends when it is closed and empty.
CollectorEnds == closed /\ scraped = <<>>

CollectorReturns ==
    /\ collector
    /\ CollectorEnds
    /\ collector' = FALSE
    /\ UNCHANGED <<main, envVars, rvmList, jobs, worker, scraped, closed, allBins,
                   offered, answers, count, result>>
-------------------------------------------------------------------------------
WorkerStep(w) == TakeJob(w) \/ NoJob(w) \/ Answer(w) \/ Offer(w) \/ Send(w)
CollectorStep == Collect \/ CollectorReturns
MainStep == Close \/ Finish \/ Record

Next ==
    \/ Begin \/ MainStep
    \/ Relocate \/ Cancel
    \/ \E w \in Workers : WorkerStep(w)
    \/ CollectorStep

Spec == Init /\ [][Next]_vars

\* Every goroutine that can go on does; a request ends, by its retries and the HTTP
\* client's timeout; the ticker fires again and again.  Nothing is assumed of the
\* context and of the location directory.
FairSpec ==
    /\ Spec
    /\ \A w \in Workers : WF_vars(WorkerStep(w))
    /\ WF_vars(CollectorStep)
    /\ WF_vars(MainStep)
    /\ WF_vars(Begin /\ ~cancelled)
-------------------------------------------------------------------------------
(* Properties.                                                              *)

\* Every variable has its type; scrapedCh never holds more than its capacity.
TypeOK ==
    /\ main \in {"idle", "scraping", "collecting", "deltas"}
    /\ cancelled \in BOOLEAN
    /\ active \subseteq Machines /\ rvmList \subseteq Machines
    /\ jobs \in Seq(Machines)
    /\ worker \in [Workers -> [pc : {"next", "asking", "offering", "sending", "done"},
                               machine : Machines \cup {NoMachine}, bin : 0..MaxBins]]
    /\ scraped \in Seq(Bins) /\ Len(scraped) <= ScrapedCap
    /\ closed \in BOOLEAN /\ collector \in BOOLEAN
    /\ allBins \in Seq(Bins)
    /\ offered \subseteq Bins
    /\ answers \in [Machines -> {"none", "ok", "failed"}]
    /\ count \in [Machines -> 0..MaxBins]
    /\ result \in {"none", "success", "error"}

\* The delta section starts when nobody sends any more, and then holds each bin that
\* was answered exactly once, in an order that keeps the bins of a machine in the
\* order of its answer; each of them was handed to storage.  Without a cancellation
\* no machine of the cycle was left out.
CycleComplete ==
    main = "deltas" =>
        /\ AllReturned /\ scraped = <<>>
        /\ Range(allBins) = {b \in Bins : b[2] <= count[b[1]]}
        /\ \A i, j \in DOMAIN allBins :
              i < j /\ allBins[i][1] = allBins[j][1] => allBins[i][2] < allBins[j][2]
        /\ offered = Range(allBins)
        /\ \A m \in Machines \ rvmList : answers[m] = "none"
        /\ ~cancelled => \A m \in rvmList : answers[m] # "none"

\* No worker ever sends on the closed channel, which would panic and end the process.
NoSendOnClosed == closed => \A w \in Workers : worker[w].pc \notin {"offering", "sending"}

\* Nobody waits on everybody: during a cycle a worker, the collector or PollBins can go
\* on.  When each worker that has not returned waits at the full channel, the collector
\* receives, whether or not the context has ended.
PoolMoves ==
    main # "idle" =>
        \/ main = "scraping" /\ AllReturned
        \/ main = "collecting" /\ Collected
        \/ main = "deltas"
        \/ \E w \in Workers : \/ worker[w].pc \in {"next", "asking", "offering"}
                              \/ worker[w].pc = "sending" /\ Room
        \/ collector /\ (scraped # <<>> \/ CollectorEnds)

\* A cycle that has begun ends, with a full channel, failing requests and a context
\* that ends at any time: no worker stays behind at its send, and the next tick finds
\* the poller ready.
CycleEnds == main = "scraping" ~> main = "idle"

\* A machine that stays in memory is asked for its bins again and again, however often
\* the directory changes during a cycle and whatever other requests return, until the
\* context ends.
EveryMachineAsked ==
    \A m \in Machines :
        []<>(m \notin active \/ cancelled \/ (main = "deltas" /\ answers[m] # "none"))

\* Said of the metrics by the README: the time since the last successful bin scrape.
\* A cycle that is recorded as a success scraped at least one machine.
SuccessMeansScraped ==
    main = "idle" /\ result = "success" => \E m \in rvmList : answers[m] = "ok"
===============================================================================

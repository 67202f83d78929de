---------------------------- MODULE BinPollProofs ----------------------------
(* Theorems about BinPoll, for any number of workers, machines and bins and any *)
(* capacity of scrapedCh.                                                      *)
EXTENDS BinPoll, FiniteSetTheorems, TLAPS

\* The rest of a sequence, and a sequence with one more element.
LEMMA TailElements ==
    ASSUME NEW S, NEW s \in Seq(S), s # <<>>
    PROVE  /\ Head(s) \in S /\ Head(s) = s[1]
           /\ Tail(s) \in Seq(S)
           /\ Len(s) \in Nat \ {0} /\ Len(Tail(s)) = Len(s) - 1
           /\ \A i \in 1..Len(Tail(s)) : Tail(s)[i] = s[i + 1]
  OBVIOUS

LEMMA AppendElements ==
    ASSUME NEW S, NEW s \in Seq(S), NEW e \in S
    PROVE  /\ Append(s, e) \in Seq(S)
           /\ Len(Append(s, e)) = Len(s) + 1
           /\ \A i \in 1..Len(s) : Append(s, e)[i] = s[i]
           /\ Append(s, e)[Len(s) + 1] = e
  OBVIOUS

LEMMA RangeElements ==
    ASSUME NEW S, NEW s \in Seq(S)
    PROVE  Range(s) = {s[i] : i \in 1..Len(s)}
  BY DEF Range

LEMMA RangeType ==
    ASSUME NEW S, NEW s \in Seq(S)
    PROVE  Range(s) \subseteq S
  BY DEF Range

LEMMA AppendRange ==
    ASSUME NEW S, NEW s \in Seq(S), NEW e \in S
    PROVE  Range(Append(s, e)) = Range(s) \cup {e}
  <1> DEFINE a == Append(s, e)
  <1>1. /\ Len(s) \in Nat /\ a \in Seq(S) /\ Len(a) = Len(s) + 1
        /\ \A i \in 1..Len(s) : a[i] = s[i]
        /\ a[Len(s) + 1] = e
    BY AppendElements
  <1>2. Range(a) = {a[i] : i \in 1..(Len(s) + 1)} /\ Range(s) = {s[i] : i \in 1..Len(s)}
    BY <1>1, RangeElements
  <1> HIDE DEF a
  <1>3. 1..(Len(s) + 1) = 1..Len(s) \cup {Len(s) + 1}
    BY <1>1
  <1>4. Range(a) = Range(s) \cup {e}
    BY <1>1, <1>2, <1>3
  <1>5. QED
    BY <1>4 DEF a

LEMMA TailRange ==
    ASSUME NEW S, NEW s \in Seq(S), s # <<>>
    PROVE  /\ Range(s) = Range(Tail(s)) \cup {Head(s)}
           /\ (\A i, j \in 1..Len(s) : i # j => s[i] # s[j]) => Head(s) \notin Range(Tail(s))
  <1>1. Len(s) \in Nat \ {0}
    BY TailElements
  <1>3. \A i \in 1..(Len(s) - 1) : i + 1 \in 1..Len(s) /\ i + 1 # 1
    BY <1>1
  <1>4. Range(Tail(s)) = {Tail(s)[i] : i \in 1..(Len(s) - 1)}
    <2>1. Tail(s) \in Seq(S) /\ Len(Tail(s)) = Len(s) - 1
      BY TailElements
    <2>2. Range(Tail(s)) = {Tail(s)[i] : i \in 1..Len(Tail(s))}
      BY <2>1, RangeElements
    <2>3. QED
      BY <2>1, <2>2
  <1>5. Range(Tail(s)) = {s[i + 1] : i \in 1..(Len(s) - 1)}
    BY <1>4, TailElements
  <1>6. ASSUME NEW x \in Range(s) PROVE x \in Range(Tail(s)) \cup {Head(s)}
    <2>1. PICK i \in 1..Len(s) : x = s[i]
      BY RangeElements
    <2>2. CASE i = 1
      BY <2>1, <2>2, TailElements
    <2>3. CASE i # 1
      <3>1. i - 1 \in 1..(Len(s) - 1) /\ (i - 1) + 1 = i
        BY <1>1, <2>3
      <3>2. QED
        BY <1>5, <2>1, <3>1
    <2>4. QED
      BY <2>2, <2>3
  <1>7. Range(Tail(s)) \cup {Head(s)} \subseteq Range(s)
    BY <1>1, <1>3, <1>5, TailElements, RangeElements
  <1>8. ASSUME \A i, j \in 1..Len(s) : i # j => s[i] # s[j]
        PROVE  Head(s) \notin Range(Tail(s))
    BY <1>1, <1>3, <1>5, <1>8, TailElements
  <1>9. QED
    BY <1>6, <1>7, <1>8

\* An element that moves from the front of t to the end of s.
LEMMA MoveElement ==
    ASSUME NEW S, NEW s \in Seq(S), NEW t \in Seq(S), t # <<>>
    PROVE  Append(s, Head(t)) \o Tail(t) = s \o t
  <1>1. /\ Append(s, Head(t)) \in Seq(S) /\ Tail(t) \in Seq(S)
        /\ Len(Append(s, Head(t))) = Len(s) + 1 /\ Len(Tail(t)) = Len(t) - 1
        /\ Len(s) \in Nat /\ Len(t) \in Nat \ {0}
    BY TailElements, AppendElements
  <1> DEFINE u == Append(s, Head(t)) \o Tail(t)
  <1>2. /\ u \in Seq(S) /\ s \o t \in Seq(S)
        /\ Len(u) = Len(s) + Len(t) /\ Len(s \o t) = Len(s) + Len(t)
    BY <1>1
  <1>3. ASSUME NEW i \in 1..(Len(s) + Len(t)) PROVE u[i] = (s \o t)[i]
    BY <1>1, <1>3
  <1>4. QED
    BY <1>2, <1>3

\* An element at the end of t is at the end of s \o t.
LEMMA AppendBehind ==
    ASSUME NEW S, NEW s \in Seq(S), NEW t \in Seq(S), NEW e \in S
    PROVE  s \o Append(t, e) = Append(s \o t, e)
  <1>1. /\ Len(s) \in Nat /\ Len(t) \in Nat
        /\ s \o t \in Seq(S) /\ Len(s \o t) = Len(s) + Len(t)
        /\ Append(t, e) \in Seq(S) /\ Len(Append(t, e)) = Len(t) + 1
    OBVIOUS
  <1>2. /\ s \o Append(t, e) \in Seq(S) /\ Len(s \o Append(t, e)) = Len(s) + Len(t) + 1
        /\ Append(s \o t, e) \in Seq(S) /\ Len(Append(s \o t, e)) = Len(s) + Len(t) + 1
    BY <1>1
  <1>3. ASSUME NEW i \in 1..(Len(s) + Len(t) + 1)
        PROVE  (s \o Append(t, e))[i] = Append(s \o t, e)[i]
    BY <1>1, <1>3
  <1>4. QED
    BY <1>2, <1>3

\* An enumeration of a finite set names each member once.
LEMMA OrdersEnumerate ==
    ASSUME NEW S, IsFiniteSet(S), NEW s \in Orders(S)
    PROVE  /\ s \in Seq(S) /\ Range(s) = S
           /\ \A i, j \in 1..Len(s) : i # j => s[i] # s[j]
  <1>1. Cardinality(S) \in Nat /\ s \in [1..Cardinality(S) -> S] /\ Range(s) = S
    BY FS_CardinalityType DEF Orders
  <1>2. s \in Seq(S) /\ Len(s) = Cardinality(S)
    BY <1>1
  <1>3. IsFiniteSet(1..Cardinality(S)) /\ Cardinality(1..Cardinality(S)) = Cardinality(S)
    BY <1>1, FS_Interval
  <1>4. s \in Surjection(1..Cardinality(S), S)
    BY <1>1 DEF Surjection, Range
  <1>5. s \in Injection(1..Cardinality(S), S)
    BY <1>3, <1>4, FS_SurjSameCardinalityImpliesInj
  <1>6. QED
    BY <1>1, <1>2, <1>5 DEF Injection, IsInjective
-------------------------------------------------------------------------------
(* The inductive invariant.                                                  *)

Handing(w) == worker[w].pc \in {"offering", "sending"}
Asking(w)  == worker[w].pc = "asking"
Busy(w)    == Handing(w) \/ Asking(w)

\* What has been sent, received or not, in the order of sending.
Sent == allBins \o scraped

\* scrapedCh is closed when the workers have returned, and the collector returns later.
PhaseInv ==
    /\ closed <=> main # "scraping"
    /\ closed => AllReturned
    /\ collector \/ (closed /\ scraped = <<>>)
    /\ main \in {"deltas", "idle"} => ~collector

\* A machine of the cycle is in the channel once, or with one worker, or answered for,
\* or was dropped because the context has ended.
JobsInv ==
    /\ \A i, j \in 1..Len(jobs) : i # j => jobs[i] # jobs[j]
    /\ \A m \in Range(jobs) : m \in rvmList /\ answers[m] = "none"
    /\ \A w \in Workers : Busy(w) => worker[w].machine \in rvmList \ Range(jobs)
    /\ \A v, w \in Workers :
          v # w /\ Busy(v) /\ Busy(w) => worker[v].machine # worker[w].machine
    /\ \A w \in Workers : Asking(w) => answers[worker[w].machine] = "none"
    /\ \A w \in Workers : worker[w].pc = "done" => jobs = <<>> \/ cancelled

AnswersInv ==
    /\ \A m \in Machines : answers[m] # "ok" => count[m] = 0
    /\ \A m \in Machines \ rvmList : answers[m] = "none"
    /\ \A m \in rvmList : \/ answers[m] # "none" \/ cancelled \/ m \in Range(jobs)
                          \/ \E w \in Workers : Asking(w) /\ worker[w].machine = m
    /\ \A w \in Workers : Handing(w) =>
          /\ answers[worker[w].machine] = "ok"
          /\ worker[w].bin \in 1..count[worker[w].machine]

\* The bins of an answer are offered and sent one after the other.
BinsInv ==
    \A b \in Bins :
        /\ b \in Range(Sent) <=>
              /\ b[2] <= count[b[1]]
              /\ \A w \in Workers : Handing(w) /\ worker[w].machine = b[1] => b[2] < worker[w].bin
        /\ b \in offered <=>
              /\ b[2] <= count[b[1]]
              /\ \A w \in Workers : Handing(w) /\ worker[w].machine = b[1] =>
                    b[2] < worker[w].bin \/ (worker[w].pc = "sending" /\ b[2] = worker[w].bin)

OrderInv ==
    \A i, j \in 1..Len(Sent) : i < j /\ Sent[i][1] = Sent[j][1] => Sent[i][2] < Sent[j][2]

IInv == TypeOK /\ PhaseInv /\ JobsInv /\ AnswersInv /\ BinsInv /\ OrderInv

\* The records a worker is set to.
LEMMA WorkerType ==
    ASSUME TypeOK, NEW w \in Workers
    PROVE  /\ worker[w] = [pc |-> worker[w].pc, machine |-> worker[w].machine, bin |-> worker[w].bin]
           /\ worker[w].pc \in {"next", "asking", "offering", "sending", "done"}
           /\ worker[w].machine \in Machines \cup {NoMachine}
           /\ worker[w].bin \in 0..MaxBins
  BY DEF TypeOK

\* A bin is a pair.
LEMMA BinFields ==
    /\ \A b \in Bins : /\ b = <<b[1], b[2]>> /\ b[1] \in Machines
                       /\ b[2] \in Nat /\ 1 <= b[2] /\ b[2] <= MaxBins
    /\ \A m \in Machines, i \in 1..MaxBins : <<m, i>> \in Bins
  BY PollAssumption DEF Bins, PollAssumption

LEMMA SentType == ASSUME TypeOK PROVE Sent \in Seq(Bins)
  BY DEF TypeOK, Sent

LEMMA InvInit == Init => IInv
  <1> SUFFICES ASSUME Init PROVE IInv
    OBVIOUS
  <1>1. <<>> \in Seq(Machines) /\ <<>> \in Seq(Bins) /\ Len(<<>>) = 0
    OBVIOUS
  <1>2. TypeOK
    <2>1. Len(scraped) <= ScrapedCap /\ 0 \in 0..MaxBins
      BY <1>1, PollAssumption DEF Init, PollAssumption
    <2>2. worker \in [Workers -> [pc : {"done"}, machine : {NoMachine}, bin : {0}]]
      BY DEF Init, Done
    <2>3. count \in [Machines -> 0..MaxBins]
      BY <2>1 DEF Init
    <2>4. QED
      BY <1>1, <2>1, <2>2, <2>3 DEF Init, TypeOK
  <1>3. PhaseInv
    BY DEF Init, PhaseInv, AllReturned, Done
  <1>4. /\ jobs = <<>> /\ rvmList = {}
        /\ \A w \in Workers : worker[w].pc = "done"
        /\ \A m \in Machines : answers[m] = "none" /\ count[m] = 0
    BY DEF Init, Done
  <1>5. Range(jobs) = {}
    BY <1>1, <1>4 DEF Range
  <1>6. JobsInv /\ AnswersInv
    BY <1>1, <1>4, <1>5 DEF JobsInv, AnswersInv, Busy, Handing, Asking
  <1>7. Sent = <<>>
    BY DEF Init, Sent
  <1>8. Range(Sent) = {} /\ offered = {}
    BY <1>1, <1>7 DEF Range, Init
  <1>9. \A b \in Bins : ~(b[2] <= count[b[1]])
    BY <1>4, BinFields
  <1>10. BinsInv
    BY <1>8, <1>9 DEF BinsInv
  <1>11. OrderInv
    BY <1>1, <1>7 DEF OrderInv
  <1>12. QED
    BY <1>2, <1>3, <1>6, <1>10, <1>11 DEF IInv
-------------------------------------------------------------------------------
(* What the invariant needs to know of a step.                               *)

\* Steps that move no job, no answer and no bin: those of main after the start, those of
\* the environment and those of the collector.
LEMMA OthersKeepBins ==
    ASSUME IInv, UNCHANGED <<rvmList, jobs, worker, Sent, offered, answers, count>>,
           cancelled => cancelled'
    PROVE  JobsInv' /\ AnswersInv' /\ BinsInv' /\ OrderInv'
  <1>1. \A w \in Workers : /\ Handing(w)' <=> Handing(w)
                           /\ Asking(w)' <=> Asking(w)
                           /\ Busy(w)' <=> Busy(w)
    BY DEF Handing, Asking, Busy
  <1>2. JobsInv'
    BY <1>1 DEF IInv, JobsInv
  <1>3. AnswersInv'
    BY <1>1 DEF IInv, AnswersInv
  <1>4. BinsInv'
    BY <1>1 DEF IInv, BinsInv
  <1>5. OrderInv'
    BY DEF IInv, OrderInv
  <1>6. QED
    BY <1>2, <1>3, <1>4, <1>5

\* Steps of a worker that has no bin before and after.
LEMMA NoBinMoves ==
    ASSUME IInv, UNCHANGED <<allBins, scraped, offered, count>>,
           \A v \in Workers : /\ Handing(v)' <=> Handing(v)
                              /\ Handing(v) => worker'[v] = worker[v]
    PROVE  BinsInv' /\ OrderInv'
  <1>1. Sent' = Sent
    BY DEF Sent
  <1>2. BinsInv'
    BY <1>1 DEF IInv, BinsInv
  <1>3. OrderInv'
    BY <1>1 DEF IInv, OrderInv
  <1>4. QED
    BY <1>2, <1>3

\* No two workers have the same machine.
LEMMA OneWorker ==
    ASSUME JobsInv, NEW v \in Workers, NEW w \in Workers, Busy(v), Busy(w),
           worker[v].machine = worker[w].machine
    PROVE  v = w
  BY DEF JobsInv

\* While a worker runs, the channel is open; its own step leaves the phase as it is.
LEMMA WorkerKeepsPhase ==
    ASSUME IInv, NEW w \in Workers, worker[w].pc # "done",
           UNCHANGED <<main, closed, collector>>
    PROVE  PhaseInv'
  <1>1. ~closed
    BY DEF IInv, PhaseInv, AllReturned
  <1>2. QED
    BY <1>1 DEF IInv, PhaseInv

\* A worker's move.
LEMMA Moved ==
    ASSUME TypeOK, NEW w \in Workers,
           NEW to \in [pc : {"next", "asking", "offering", "sending", "done"},
                       machine : Machines \cup {NoMachine}, bin : 0..MaxBins],
           Move(w, to)
    PROVE  /\ worker' \in [Workers -> [pc : {"next", "asking", "offering", "sending", "done"},
                                       machine : Machines \cup {NoMachine}, bin : 0..MaxBins]]
           /\ worker'[w] = to
           /\ \A v \in Workers : v # w => worker'[v] = worker[v]
  BY DEF TypeOK, Move

LEMMA IdleType ==
    {Idle, Done} \subseteq [pc : {"next", "asking", "offering", "sending", "done"},
                            machine : Machines \cup {NoMachine}, bin : 0..MaxBins]
  <1>1. 0 \in 0..MaxBins
    BY PollAssumption DEF PollAssumption
  <1>2. QED
    BY <1>1 DEF Idle, Done
-------------------------------------------------------------------------------
(* One lemma per action.                                                     *)

LEMMA BeginStep ==
    ASSUME IInv, Begin
    PROVE  IInv'
  <1>1. /\ rvmList' = active /\ active \subseteq Machines
        /\ jobs' \in Orders(active)
    BY DEF IInv, TypeOK, Begin, CycleMachines
  <1>2. IsFiniteSet(active)
    BY <1>1, PollAssumption, FS_Subset DEF PollAssumption
  <1>3. /\ jobs' \in Seq(active) /\ Range(jobs') = active
        /\ \A i, j \in 1..Len(jobs') : i # j => jobs'[i] # jobs'[j]
    BY <1>1, <1>2, OrdersEnumerate
  <1>4. /\ jobs' \in Seq(Machines) /\ <<>> \in Seq(Bins) /\ Len(<<>>) = 0
        /\ 0 \in 0..MaxBins /\ 0 <= ScrapedCap
    BY <1>1, <1>3, PollAssumption DEF PollAssumption
  <1>5. /\ main' = "scraping" /\ closed' = FALSE /\ collector' = TRUE
        /\ scraped' = <<>> /\ allBins' = <<>> /\ offered' = {}
        /\ answers' = [m \in Machines |-> "none"] /\ count' = [m \in Machines |-> 0]
        /\ cancelled' = cancelled /\ active' = active /\ result' = result
        /\ worker' = [w \in Workers |-> Idle]
    BY DEF Begin, envVars
  <1>6. TypeOK'
    <2>1. worker' \in [Workers -> [pc : {"next", "asking", "offering", "sending", "done"},
                                   machine : Machines \cup {NoMachine}, bin : 0..MaxBins]]
      BY <1>5, IdleType
    <2>2. count' \in [Machines -> 0..MaxBins] /\ answers' \in [Machines -> {"none", "ok", "failed"}]
      BY <1>4, <1>5
    <2>3. QED
      BY <1>1, <1>4, <1>5, <2>1, <2>2 DEF IInv, TypeOK
  <1>7. PhaseInv'
    BY <1>5 DEF PhaseInv
  <1>8. \A w \in Workers : ~Busy(w)' /\ ~Handing(w)' /\ ~Asking(w)' /\ worker'[w].pc # "done"
    BY <1>5 DEF Busy, Handing, Asking, Idle
  <1>9. \A m \in Machines : answers'[m] = "none" /\ count'[m] = 0
    BY <1>5
  <1>10. JobsInv'
    BY <1>1, <1>3, <1>8, <1>9 DEF JobsInv
  <1>11. AnswersInv'
    BY <1>1, <1>3, <1>8, <1>9 DEF AnswersInv
  <1>12. Sent' = <<>>
    BY <1>5 DEF Sent
  <1>13. Range(Sent)' = {} /\ offered' = {}
    BY <1>4, <1>5, <1>12 DEF Range
  <1>14. \A b \in Bins : ~(b[2] <= count'[b[1]])
    BY <1>9, BinFields
  <1>15. BinsInv'
    BY <1>13, <1>14 DEF BinsInv
  <1>16. OrderInv'
    BY <1>4, <1>12 DEF OrderInv
  <1>17. QED
    BY <1>6, <1>7, <1>10, <1>11, <1>15, <1>16 DEF IInv

LEMMA OtherSteps ==
    ASSUME IInv, \/ MainStep \/ Relocate \/ Cancel \/ CollectorReturns \/ UNCHANGED vars
    PROVE  IInv'
  <1>1. /\ UNCHANGED <<rvmList, jobs, worker, allBins, scraped, offered, answers, count>>
        /\ cancelled => cancelled'
    BY DEF MainStep, Close, Finish, Record, Relocate, Cancel, CollectorReturns, vars, envVars,
           poolVars
  <1>2. Sent' = Sent
    BY <1>1 DEF Sent
  <1>3. TypeOK'
    BY <1>1 DEF IInv, TypeOK, MainStep, Close, Finish, Record, Relocate, Cancel,
                CollectorReturns, vars, envVars, poolVars
  <1>4. PhaseInv'
    BY <1>1 DEF IInv, PhaseInv, MainStep, Close, Finish, Record, Relocate, Cancel, AllReturned,
                Collected, CollectorReturns, CollectorEnds, vars, envVars, poolVars
  <1>5. QED
    BY <1>1, <1>2, <1>3, <1>4, OthersKeepBins DEF IInv

LEMMA CollectStep ==
    ASSUME IInv, Collect
    PROVE  IInv'
  <1>1. /\ scraped \in Seq(Bins) /\ allBins \in Seq(Bins) /\ scraped # <<>>
        /\ allBins' = Append(allBins, Head(scraped)) /\ scraped' = Tail(scraped)
        /\ UNCHANGED <<main, envVars, rvmList, jobs, worker, closed, collector, offered,
                       answers, count, result>>
    BY DEF Collect, IInv, TypeOK
  <1>2. Sent' = Sent
    BY <1>1, MoveElement DEF Sent
  <1>3. /\ allBins' \in Seq(Bins) /\ scraped' \in Seq(Bins)
        /\ Len(scraped') = Len(scraped) - 1 /\ Len(scraped) \in Nat
    BY <1>1, TailElements, AppendElements
  <1>4. Len(scraped') <= ScrapedCap
    BY <1>3, PollAssumption DEF IInv, TypeOK, PollAssumption
  <1>5. TypeOK'
    BY <1>1, <1>3, <1>4 DEF IInv, TypeOK, envVars
  <1>6. PhaseInv'
    BY <1>1 DEF IInv, PhaseInv, AllReturned, Collect
  <1>7. QED
    BY <1>1, <1>2, <1>5, <1>6, OthersKeepBins DEF IInv, envVars

LEMMA TakeJobStep ==
    ASSUME IInv, NEW w \in Workers, TakeJob(w)
    PROVE  IInv'
  <1> DEFINE m == Head(jobs)
  <1>1. /\ worker[w].pc = "next" /\ jobs # <<>> /\ jobs \in Seq(Machines)
        /\ jobs' = Tail(jobs) /\ cancelled' = cancelled
        /\ UNCHANGED <<main, active, rvmList, scraped, closed, collector, allBins, offered,
                       answers, count, result>>
    BY DEF TakeJob, envVars, IInv, TypeOK
  <1>2. /\ m \in Machines /\ jobs' \in Seq(Machines)
        /\ Range(jobs) = Range(jobs') \cup {m} /\ m \notin Range(jobs')
        /\ \A i, j \in 1..Len(jobs') : i # j => jobs'[i] # jobs'[j]
    <2>1. \A i, j \in 1..Len(jobs) : i # j => jobs[i] # jobs[j]
      BY DEF IInv, JobsInv
    <2>2. /\ m \in Machines /\ Tail(jobs) \in Seq(Machines)
          /\ Range(jobs) = Range(Tail(jobs)) \cup {m} /\ m \notin Range(Tail(jobs))
      BY <1>1, <2>1, TailElements, TailRange
    <2>3. ASSUME NEW i \in 1..Len(Tail(jobs)), NEW j \in 1..Len(Tail(jobs)), i # j
          PROVE  Tail(jobs)[i] # Tail(jobs)[j]
      <3>1. /\ i + 1 \in 1..Len(jobs) /\ j + 1 \in 1..Len(jobs) /\ i + 1 # j + 1
            /\ Tail(jobs)[i] = jobs[i + 1] /\ Tail(jobs)[j] = jobs[j + 1]
        BY <1>1, <2>3, TailElements
      <3>2. QED
        BY <2>1, <3>1
    <2>4. QED
      BY <1>1, <2>2, <2>3
  <1>3. m \in rvmList /\ answers[m] = "none" /\ m \in Range(jobs)
    BY <1>2 DEF IInv, JobsInv
  <1>4. PICK to : /\ Move(w, to)
                  /\ \/ cancelled /\ to = Done
                     \/ ~cancelled /\ to = [pc |-> "asking", machine |-> m, bin |-> 0]
    BY DEF TakeJob
  <1>5. to \in [pc : {"next", "asking", "offering", "sending", "done"},
                machine : Machines \cup {NoMachine}, bin : 0..MaxBins]
    BY <1>2, <1>4, IdleType, PollAssumption DEF PollAssumption
  <1> HIDE DEF m
  <1>6. /\ worker' \in [Workers -> [pc : {"next", "asking", "offering", "sending", "done"},
                                    machine : Machines \cup {NoMachine}, bin : 0..MaxBins]]
        /\ worker'[w] = to
        /\ \A v \in Workers : v # w => worker'[v] = worker[v]
    BY <1>4, <1>5, Moved DEF IInv
  <1>7. TypeOK'
    BY <1>1, <1>2, <1>6 DEF IInv, TypeOK
  <1>8. PhaseInv'
    BY <1>1, WorkerKeepsPhase
  <1>9. /\ ~Handing(w) /\ ~Asking(w) /\ ~Handing(w)'
        /\ \A v \in Workers : v # w => /\ Handing(v)' <=> Handing(v)
                                       /\ Asking(v)' <=> Asking(v)
                                       /\ Busy(v)' <=> Busy(v)
    BY <1>1, <1>4, <1>6 DEF Handing, Asking, Busy, Done
  <1>10. BinsInv' /\ OrderInv'
    BY <1>1, <1>6, <1>9, NoBinMoves
  <1>11. \A v \in Workers : Busy(v) => worker[v].machine # m
    BY <1>3 DEF IInv, JobsInv
  <1>12. Busy(w)' => ~cancelled /\ worker'[w].machine = m
    BY <1>4, <1>6 DEF Busy, Handing, Asking, Done
  <1>13. JobsInv'
    <2>1. \A n \in Range(jobs') : n \in rvmList' /\ answers'[n] = "none"
      BY <1>1, <1>2 DEF IInv, JobsInv
    <2>2. \A v \in Workers : Busy(v)' => worker'[v].machine \in rvmList' \ Range(jobs')
      BY <1>1, <1>2, <1>3, <1>6, <1>9, <1>12 DEF IInv, JobsInv
    <2>3. \A u, v \in Workers :
             u # v /\ Busy(u)' /\ Busy(v)' => worker'[u].machine # worker'[v].machine
      BY <1>6, <1>9, <1>11, <1>12 DEF IInv, JobsInv
    <2>4. \A v \in Workers : Asking(v)' => answers'[worker'[v].machine] = "none"
      BY <1>1, <1>3, <1>6, <1>9, <1>12 DEF IInv, JobsInv, Busy
    <2>5. \A v \in Workers : worker'[v].pc = "done" => jobs' = <<>> \/ cancelled'
      BY <1>1, <1>4, <1>6 DEF IInv, JobsInv
    <2>6. QED
      BY <1>2, <2>1, <2>2, <2>3, <2>4, <2>5 DEF JobsInv
  <1>14. AnswersInv'
    <2>1. \A n \in rvmList' : \/ answers'[n] # "none" \/ cancelled' \/ n \in Range(jobs')
                              \/ \E v \in Workers : Asking(v)' /\ worker'[v].machine = n
      <3>1. SUFFICES ASSUME ~cancelled, NEW n \in rvmList, answers[n] = "none",
                            n \notin Range(jobs')
                     PROVE  \E v \in Workers : Asking(v)' /\ worker'[v].machine = n
        BY <1>1
      <3>2. CASE n = m
        BY <1>4, <1>6, <3>1, <3>2 DEF Asking
      <3>3. CASE n # m
        <4>1. PICK v \in Workers : Asking(v) /\ worker[v].machine = n
          BY <1>2, <3>1, <3>3 DEF IInv, AnswersInv
        <4>2. QED
          BY <1>6, <1>9, <4>1
      <3>4. QED
        BY <3>2, <3>3
    <2>2. \A v \in Workers : Handing(v)' =>
             /\ answers'[worker'[v].machine] = "ok"
             /\ worker'[v].bin \in 1..count'[worker'[v].machine]
      BY <1>1, <1>6, <1>9 DEF IInv, AnswersInv
    <2>3. QED
      BY <1>1, <2>1, <2>2 DEF IInv, AnswersInv
  <1>15. QED
    BY <1>7, <1>8, <1>10, <1>13, <1>14 DEF IInv

\* A worker that has nothing to do before and after, and moves no job.
LEMMA NoJobStep ==
    ASSUME IInv, NEW w \in Workers, NoJob(w)
    PROVE  IInv'
  <1>1. /\ worker[w].pc = "next" /\ jobs = <<>> /\ Move(w, Done)
        /\ UNCHANGED <<main, cancelled, active, rvmList, jobs, scraped, closed, collector,
                       allBins, offered, answers, count, result>>
    BY DEF NoJob, envVars
  <1>2. /\ worker' \in [Workers -> [pc : {"next", "asking", "offering", "sending", "done"},
                                    machine : Machines \cup {NoMachine}, bin : 0..MaxBins]]
        /\ worker'[w] = Done
        /\ \A v \in Workers : v # w => worker'[v] = worker[v]
    BY <1>1, Moved, IdleType DEF IInv
  <1>3. TypeOK'
    BY <1>1, <1>2 DEF IInv, TypeOK
  <1>4. PhaseInv'
    BY <1>1, WorkerKeepsPhase
  <1>5. \A v \in Workers : /\ Handing(v)' <=> Handing(v)
                           /\ Asking(v)' <=> Asking(v)
                           /\ Busy(v)' <=> Busy(v)
                           /\ Busy(v) => worker'[v] = worker[v]
    BY <1>1, <1>2 DEF Handing, Asking, Busy, Done
  <1>6. BinsInv' /\ OrderInv'
    BY <1>1, <1>5, NoBinMoves DEF Busy
  <1>7. JobsInv'
    BY <1>1, <1>2, <1>5 DEF IInv, JobsInv, Busy
  <1>8. AnswersInv'
    BY <1>1, <1>2, <1>5 DEF IInv, AnswersInv, Busy
  <1>9. QED
    BY <1>3, <1>4, <1>6, <1>7, <1>8 DEF IInv

\* The machine of a worker that asks or hands out bins is its own.
LEMMA OwnMachine ==
    ASSUME IInv, NEW w \in Workers, Busy(w)
    PROVE  /\ worker[w].machine \in Machines /\ worker[w].machine \in rvmList
           /\ worker[w].machine \notin Range(jobs)
           /\ \A v \in Workers : v # w /\ Busy(v) => worker[v].machine # worker[w].machine
  BY OneWorker DEF IInv, TypeOK, JobsInv

LEMMA AfterType ==
    ASSUME NEW m \in Machines, NEW i \in 0..MaxBins, count' \in [Machines -> 0..MaxBins]
    PROVE  After(m, i) \in [pc : {"next", "asking", "offering", "sending", "done"},
                            machine : Machines \cup {NoMachine}, bin : 0..MaxBins]
  <1>1. CASE i < count'[m]
    <2>1. i + 1 \in 0..MaxBins
      BY <1>1, PollAssumption DEF PollAssumption
    <2>2. QED
      BY <1>1, <2>1 DEF After
  <1>2. CASE ~(i < count'[m])
    BY <1>2, IdleType DEF After
  <1>3. QED
    BY <1>1, <1>2

LEMMA AnswerFails ==
    ASSUME IInv, NEW w \in Workers, Asking(w),
           answers' = [answers EXCEPT ![worker[w].machine] = "failed"],
           Move(w, Idle),
           UNCHANGED <<main, envVars, rvmList, jobs, scraped, closed, collector, allBins,
                       offered, count, result>>
    PROVE  IInv'
  <1>1. PICK m \in Machines : m = worker[w].machine
    BY OwnMachine DEF Busy
  <1>2. /\ m \in rvmList /\ m \notin Range(jobs) /\ answers[m] = "none"
        /\ \A v \in Workers : v # w /\ Busy(v) => worker[v].machine # m
    BY <1>1, OwnMachine DEF Busy, IInv, JobsInv
  <1>3. /\ worker' \in [Workers -> [pc : {"next", "asking", "offering", "sending", "done"},
                                    machine : Machines \cup {NoMachine}, bin : 0..MaxBins]]
        /\ worker'[w] = Idle
        /\ \A v \in Workers : v # w => worker'[v] = worker[v]
    BY Moved, IdleType DEF IInv
  <1>4. /\ answers'[m] = "failed" /\ answers' \in [Machines -> {"none", "ok", "failed"}]
        /\ \A n \in Machines : n # m => answers'[n] = answers[n]
    BY <1>1 DEF IInv, TypeOK
  <1>5. TypeOK'
    BY <1>3, <1>4 DEF IInv, TypeOK, envVars
  <1>6. PhaseInv'
    BY WorkerKeepsPhase DEF Asking
  <1>7. /\ ~Handing(w) /\ ~Busy(w)' /\ ~Handing(w)' /\ ~Asking(w)'
        /\ \A v \in Workers : v # w => /\ Handing(v)' <=> Handing(v)
                                       /\ Asking(v)' <=> Asking(v)
                                       /\ Busy(v)' <=> Busy(v)
    BY <1>3 DEF Handing, Asking, Busy, Idle
  <1>8. BinsInv' /\ OrderInv'
    BY <1>3, <1>7, NoBinMoves
  <1>9. JobsInv'
    <2>1. \A n \in Range(jobs') : n \in rvmList' /\ answers'[n] = "none"
      BY <1>2, <1>4 DEF IInv, JobsInv, TypeOK
    <2>2. \A v \in Workers : Busy(v)' => worker'[v].machine \in rvmList' \ Range(jobs')
      BY <1>3, <1>7 DEF IInv, JobsInv
    <2>3. \A v \in Workers : Asking(v)' => answers'[worker'[v].machine] = "none"
      BY <1>2, <1>3, <1>4, <1>7, OwnMachine DEF IInv, JobsInv, Busy
    <2>4. \A v \in Workers : worker'[v].pc = "done" => jobs' = <<>> \/ cancelled'
      BY <1>3 DEF IInv, JobsInv, Idle, envVars
    <2>5. \A u, v \in Workers :
             u # v /\ Busy(u)' /\ Busy(v)' => worker'[u].machine # worker'[v].machine
      BY <1>3, <1>7 DEF IInv, JobsInv
    <2>6. QED
      BY <2>1, <2>2, <2>3, <2>4, <2>5 DEF IInv, JobsInv
  <1>10. AnswersInv'
    <2>1. \A n \in Machines : answers'[n] # "ok" => count'[n] = 0
      BY <1>2, <1>4 DEF IInv, AnswersInv
    <2>2. \A n \in Machines \ rvmList' : answers'[n] = "none"
      BY <1>2, <1>4 DEF IInv, AnswersInv
    <2>3. \A n \in rvmList' : \/ answers'[n] # "none" \/ cancelled' \/ n \in Range(jobs')
                              \/ \E v \in Workers : Asking(v)' /\ worker'[v].machine = n
      BY <1>1, <1>3, <1>4, <1>7 DEF IInv, AnswersInv, TypeOK, envVars
    <2>4. \A v \in Workers : Handing(v)' =>
             /\ answers'[worker'[v].machine] = "ok"
             /\ worker'[v].bin \in 1..count'[worker'[v].machine]
      BY <1>2, <1>3, <1>4, <1>7, OwnMachine DEF IInv, AnswersInv, Busy
    <2>5. QED
      BY <2>1, <2>2, <2>3, <2>4 DEF AnswersInv
  <1>11. QED
    BY <1>5, <1>6, <1>8, <1>9, <1>10 DEF IInv

LEMMA AnswerOk ==
    ASSUME IInv, NEW w \in Workers, Asking(w), NEW n \in 0..MaxBins,
           answers' = [answers EXCEPT ![worker[w].machine] = "ok"],
           count' = [count EXCEPT ![worker[w].machine] = n],
           Move(w, After(worker[w].machine, 0)),
           UNCHANGED <<main, envVars, rvmList, jobs, scraped, closed, collector, allBins,
                       offered, result>>
    PROVE  IInv'
  <1>1. PICK m \in Machines : m = worker[w].machine
    BY OwnMachine DEF Busy
  <1>2. /\ m \in rvmList /\ m \notin Range(jobs) /\ answers[m] = "none" /\ count[m] = 0
        /\ \A v \in Workers : v # w /\ Busy(v) => worker[v].machine # m
    BY <1>1, OwnMachine DEF Busy, IInv, JobsInv, AnswersInv
  <1>3. /\ answers'[m] = "ok" /\ answers' \in [Machines -> {"none", "ok", "failed"}]
        /\ \A k \in Machines : k # m => answers'[k] = answers[k]
        /\ count'[m] = n /\ count' \in [Machines -> 0..MaxBins]
        /\ \A k \in Machines : k # m => count'[k] = count[k]
    BY <1>1 DEF IInv, TypeOK
  <1>4. PICK to : to = After(m, 0)
    OBVIOUS
  <1>5. /\ 0 < n => to = [pc |-> "offering", machine |-> m, bin |-> 1]
        /\ ~(0 < n) => to = Idle
    BY <1>3, <1>4 DEF After
  <1>6. /\ worker' \in [Workers -> [pc : {"next", "asking", "offering", "sending", "done"},
                                    machine : Machines \cup {NoMachine}, bin : 0..MaxBins]]
        /\ worker'[w] = to
        /\ \A v \in Workers : v # w => worker'[v] = worker[v]
    <2>1. 0 \in 0..MaxBins
      BY PollAssumption DEF PollAssumption
    <2>2. to \in [pc : {"next", "asking", "offering", "sending", "done"},
                  machine : Machines \cup {NoMachine}, bin : 0..MaxBins]
      BY <1>3, <1>4, <2>1, AfterType
    <2>3. QED
      BY <1>1, <1>4, <2>2, Moved DEF IInv
  <1>7. TypeOK'
    BY <1>3, <1>6 DEF IInv, TypeOK, envVars
  <1>8. PhaseInv'
    BY WorkerKeepsPhase DEF Asking
  <1>9. /\ ~Handing(w) /\ ~Asking(w)'
        /\ Busy(w)' => 0 < n
        /\ Handing(w)' <=> 0 < n
        /\ 0 < n => worker'[w].machine = m /\ worker'[w].bin = 1 /\ worker'[w].pc = "offering"
        /\ worker'[w].pc # "done"
        /\ \A v \in Workers : v # w => /\ Handing(v)' <=> Handing(v)
                                       /\ Asking(v)' <=> Asking(v)
                                       /\ Busy(v)' <=> Busy(v)
    BY <1>5, <1>6 DEF Handing, Asking, Busy, Idle
  <1>10. JobsInv'
    <2>1. \A k \in Range(jobs') : k \in rvmList' /\ answers'[k] = "none"
      BY <1>2, <1>3 DEF IInv, JobsInv, TypeOK
    <2>2. \A v \in Workers : Busy(v)' => worker'[v].machine \in rvmList' \ Range(jobs')
      BY <1>2, <1>6, <1>9 DEF IInv, JobsInv
    <2>3. \A v \in Workers : Asking(v)' => answers'[worker'[v].machine] = "none"
      BY <1>2, <1>3, <1>6, <1>9, OwnMachine DEF IInv, JobsInv, Busy
    <2>4. \A v \in Workers : worker'[v].pc = "done" => jobs' = <<>> \/ cancelled'
      BY <1>6, <1>9 DEF IInv, JobsInv, envVars
    <2>5. \A u, v \in Workers :
             u # v /\ Busy(u)' /\ Busy(v)' => worker'[u].machine # worker'[v].machine
      BY <1>2, <1>6, <1>9 DEF IInv, JobsInv
    <2>6. QED
      BY <2>1, <2>2, <2>3, <2>4, <2>5 DEF IInv, JobsInv
  <1>11. AnswersInv'
    <2>1. \A k \in Machines : answers'[k] # "ok" => count'[k] = 0
      BY <1>3 DEF IInv, AnswersInv
    <2>2. \A k \in Machines \ rvmList' : answers'[k] = "none"
      BY <1>2, <1>3 DEF IInv, AnswersInv
    <2>3. \A k \in rvmList' : \/ answers'[k] # "none" \/ cancelled' \/ k \in Range(jobs')
                              \/ \E v \in Workers : Asking(v)' /\ worker'[v].machine = k
      <3>1. SUFFICES ASSUME ~cancelled, NEW k \in rvmList, k # m, answers[k] = "none",
                            k \notin Range(jobs)
                     PROVE  \E v \in Workers : Asking(v)' /\ worker'[v].machine = k
        BY <1>3 DEF IInv, TypeOK, envVars
      <3>2. PICK v \in Workers : Asking(v) /\ worker[v].machine = k
        BY <3>1 DEF IInv, AnswersInv
      <3>3. v # w
        BY <1>1, <3>1, <3>2
      <3>4. QED
        BY <1>6, <1>9, <3>2, <3>3
    <2>4. ASSUME NEW v \in Workers, Handing(v)'
          PROVE  /\ answers'[worker'[v].machine] = "ok"
                 /\ worker'[v].bin \in 1..count'[worker'[v].machine]
      <3>1. CASE v = w
        BY <1>3, <1>9, <2>4, <3>1
      <3>2. CASE v # w
        BY <1>2, <1>3, <1>6, <1>9, <2>4, <3>2, OwnMachine DEF IInv, AnswersInv, Busy
      <3>3. QED
        BY <3>1, <3>2
    <2>5. QED
      BY <2>1, <2>2, <2>3, <2>4 DEF AnswersInv
  <1>12. Sent' = Sent /\ offered' = offered
    BY DEF Sent
  <1>13. BinsInv'
    <2>1. SUFFICES ASSUME NEW b \in Bins
          PROVE  /\ b \in Range(Sent) <=>
                      /\ b[2] <= count'[b[1]]
                      /\ \A v \in Workers : Handing(v)' /\ worker'[v].machine = b[1] =>
                            b[2] < worker'[v].bin
                 /\ b \in offered <=>
                      /\ b[2] <= count'[b[1]]
                      /\ \A v \in Workers : Handing(v)' /\ worker'[v].machine = b[1] =>
                            \/ b[2] < worker'[v].bin
                            \/ worker'[v].pc = "sending" /\ b[2] = worker'[v].bin
      BY <1>12 DEF BinsInv
    <2>2. CASE b[1] = m
      <3>1. b[2] \in Nat /\ 1 <= b[2]
        BY BinFields
      <3>2. b \notin Range(Sent) /\ b \notin offered
        BY <1>2, <2>2, <3>1 DEF IInv, BinsInv
      <3>3. ~(b[2] <= count'[b[1]]) \/ (Handing(w)' /\ 0 < n)
        BY <1>3, <1>9, <2>2, <3>1
      <3>4. 0 < n => ~(b[2] < worker'[w].bin) /\ worker'[w].pc # "sending"
        BY <1>9, <3>1
      <3>5. QED
        BY <1>9, <2>2, <3>2, <3>3, <3>4
    <2>3. CASE b[1] # m
      <3>1. count'[b[1]] = count[b[1]]
        BY <1>3, <2>3, BinFields
      <3>2. \A v \in Workers : Handing(v)' /\ worker'[v].machine = b[1] <=>
                                  Handing(v) /\ worker[v].machine = b[1]
        BY <1>6, <1>9, <2>3
      <3>3. \A v \in Workers : Handing(v) /\ worker[v].machine = b[1] => worker'[v] = worker[v]
        BY <1>6, <1>9
      <3>4. QED
        BY <3>1, <3>2, <3>3 DEF IInv, BinsInv
    <2>4. QED
      BY <2>2, <2>3
  <1>14. OrderInv'
    BY <1>12 DEF IInv, OrderInv
  <1>15. QED
    BY <1>7, <1>8, <1>10, <1>11, <1>13, <1>14 DEF IInv

LEMMA AnswerStep ==
    ASSUME IInv, NEW w \in Workers, Answer(w)
    PROVE  IInv'
  <1>1. Asking(w)
    BY DEF Answer, Asking
  <1>2. \/ \E n \in 0..MaxBins :
              /\ answers' = [answers EXCEPT ![worker[w].machine] = "ok"]
              /\ count' = [count EXCEPT ![worker[w].machine] = n]
              /\ Move(w, After(worker[w].machine, 0))
        \/ /\ answers' = [answers EXCEPT ![worker[w].machine] = "failed"]
           /\ Move(w, Idle)
           /\ UNCHANGED count
    BY DEF Answer
  <1>3. UNCHANGED <<main, envVars, rvmList, jobs, scraped, closed, collector, allBins,
                    offered, result>>
    BY DEF Answer
  <1>4. QED
    BY <1>1, <1>2, <1>3, AnswerOk, AnswerFails

\* A worker goes on with its own machine, or has finished it: nothing else about the
\* machines changes.
LEMMA HandingKeepsJobs ==
    ASSUME IInv, NEW w \in Workers, Handing(w),
           UNCHANGED <<envVars, rvmList, jobs, answers, count>>,
           \A v \in Workers : v # w => worker'[v] = worker[v],
           worker'[w] = Idle \/ (/\ Handing(w)' /\ worker'[w].machine = worker[w].machine
                                 /\ worker'[w].bin \in 1..count[worker[w].machine])
    PROVE  JobsInv' /\ AnswersInv'
  <1>1. /\ ~Asking(w) /\ ~Asking(w)' /\ worker'[w].pc # "done" /\ Busy(w)
        /\ Busy(w)' => Handing(w)' /\ worker'[w].machine = worker[w].machine
        /\ \A v \in Workers : v # w => /\ Handing(v)' <=> Handing(v)
                                       /\ Asking(v)' <=> Asking(v)
                                       /\ Busy(v)' <=> Busy(v)
    BY DEF Handing, Asking, Busy, Idle
  <1>2. \A v \in Workers : Busy(v)' => Busy(v) /\ worker'[v].machine = worker[v].machine
    BY <1>1
  <1>3. \A v \in Workers : Asking(v)' <=> Asking(v) /\ worker'[v] = worker[v]
    BY <1>1
  <1>4. JobsInv'
    BY <1>1, <1>2, <1>3 DEF IInv, JobsInv, envVars
  <1>5. ASSUME NEW v \in Workers, Handing(v)'
        PROVE  /\ answers'[worker'[v].machine] = "ok"
               /\ worker'[v].bin \in 1..count'[worker'[v].machine]
    <2>1. CASE v = w
      BY <1>5, <2>1 DEF IInv, AnswersInv, Handing, Idle
    <2>2. CASE v # w
      BY <1>1, <1>5, <2>2 DEF IInv, AnswersInv
    <2>3. QED
      BY <2>1, <2>2
  <1>6. AnswersInv'
    BY <1>3, <1>5 DEF IInv, AnswersInv, envVars
  <1>7. QED
    BY <1>4, <1>6

\* The bins of a worker's machine: those before its own have been sent, and its own is
\* offered once it is being sent.
LEMMA OwnBins ==
    ASSUME IInv, NEW w \in Workers, Handing(w), NEW b \in Bins, b[1] = worker[w].machine
    PROVE  /\ b \in Range(Sent) <=> b[2] < worker[w].bin
           /\ b \in offered <=> \/ b[2] < worker[w].bin
                                \/ worker[w].pc = "sending" /\ b[2] = worker[w].bin
  <1>1. /\ b[2] \in Nat /\ worker[w].bin \in 1..count[b[1]] /\ count[b[1]] \in Nat
    BY BinFields, PollAssumption DEF IInv, AnswersInv, TypeOK, PollAssumption
  <1>2. \A v \in Workers : Handing(v) /\ worker[v].machine = b[1] => v = w
    BY OneWorker DEF IInv, Busy
  <1>3. /\ b[2] < worker[w].bin => b[2] <= count[b[1]]
        /\ b[2] = worker[w].bin => b[2] <= count[b[1]]
    BY <1>1
  <1>4. QED
    BY <1>2, <1>3 DEF IInv, BinsInv

LEMMA OfferStep ==
    ASSUME IInv, NEW w \in Workers, Offer(w)
    PROVE  IInv'
  <1>1. /\ worker[w].pc = "offering" /\ offered' = offered \cup {Bin(w)}
        /\ Move(w, [worker[w] EXCEPT !.pc = "sending"])
        /\ UNCHANGED <<main, envVars, rvmList, jobs, scraped, closed, collector, allBins,
                       answers, count, result>>
    BY DEF Offer
  <1>2. Handing(w)
    BY <1>1 DEF Handing
  <1>3. PICK m \in Machines, i \in 1..MaxBins :
           /\ m = worker[w].machine /\ i = worker[w].bin
           /\ i \in 1..count[m] /\ Bin(w) = <<m, i>>
    <2>1. worker[w].machine \in Machines /\ worker[w].bin \in 1..count[worker[w].machine]
      BY <1>2, OwnMachine DEF IInv, AnswersInv, Busy
    <2>2. worker[w].bin \in 1..MaxBins
      BY <2>1, PollAssumption DEF IInv, TypeOK, PollAssumption
    <2>3. QED
      BY <2>1, <2>2 DEF Bin
  <1>4. PICK to : to = [pc |-> "sending", machine |-> m, bin |-> i]
    OBVIOUS
  <1>5. /\ worker' \in [Workers -> [pc : {"next", "asking", "offering", "sending", "done"},
                                    machine : Machines \cup {NoMachine}, bin : 0..MaxBins]]
        /\ worker'[w] = to
        /\ \A v \in Workers : v # w => worker'[v] = worker[v]
    <2>1. i \in 0..MaxBins
      BY PollAssumption DEF PollAssumption
    <2>2. [worker[w] EXCEPT !.pc = "sending"] = to
      <3>1. PICK r \in [pc : {"next", "asking", "offering", "sending", "done"},
                        machine : Machines \cup {NoMachine}, bin : 0..MaxBins] : r = worker[w]
        BY DEF IInv, TypeOK
      <3>2. [r EXCEPT !.pc = "sending"]
               = [pc |-> "sending", machine |-> r.machine, bin |-> r.bin]
        BY <3>1
      <3>3. QED
        BY <1>3, <1>4, <3>1, <3>2
    <2>3. Move(w, to)
      BY <1>1, <2>2
    <2>4. to \in [pc : {"next", "asking", "offering", "sending", "done"},
                  machine : Machines \cup {NoMachine}, bin : 0..MaxBins]
      BY <1>4, <2>1
    <2>5. QED
      BY <2>3, <2>4, Moved DEF IInv
  <1>6. /\ Handing(w)' /\ worker'[w].machine = m /\ worker'[w].bin = i /\ worker'[w].pc = "sending"
        /\ \A v \in Workers : v # w => (Handing(v)' <=> Handing(v))
    BY <1>4, <1>5 DEF Handing
  <1>7. TypeOK'
    BY <1>1, <1>3, <1>5, BinFields DEF IInv, TypeOK, envVars
  <1>8. PhaseInv'
    BY <1>1, WorkerKeepsPhase
  <1>9. JobsInv' /\ AnswersInv'
    BY <1>1, <1>2, <1>3, <1>5, <1>6, HandingKeepsJobs
  <1>10. Sent' = Sent
    BY <1>1 DEF Sent
  <1>11. BinsInv'
    <2>1. SUFFICES ASSUME NEW b \in Bins
          PROVE  /\ b \in Range(Sent) <=>
                      /\ b[2] <= count[b[1]]
                      /\ \A v \in Workers : Handing(v)' /\ worker'[v].machine = b[1] =>
                            b[2] < worker'[v].bin
                 /\ b \in offered' <=>
                      /\ b[2] <= count[b[1]]
                      /\ \A v \in Workers : Handing(v)' /\ worker'[v].machine = b[1] =>
                            \/ b[2] < worker'[v].bin
                            \/ worker'[v].pc = "sending" /\ b[2] = worker'[v].bin
      BY <1>1, <1>10 DEF BinsInv
    <2>2. b[2] \in Nat /\ b = <<b[1], b[2]>>
      BY BinFields
    <2>3. CASE b[1] = m
      <3>1. /\ b \in Range(Sent) <=> b[2] < i
            /\ b \in offered <=> b[2] < i
        BY <1>1, <1>2, <1>3, <2>3, OwnBins
      <3>2. b \in offered' <=> b[2] < i \/ b[2] = i
        BY <1>1, <1>3, <2>2, <2>3, <3>1
      <3>3. \A v \in Workers : Handing(v)' /\ worker'[v].machine = b[1] => v = w
        BY <1>2, <1>3, <1>5, <1>6, <2>3, OneWorker DEF IInv, Busy
      <3>4. b[2] < i \/ b[2] = i => b[2] <= count[b[1]]
        BY <1>3, <2>2, <2>3 DEF IInv, TypeOK
      <3>5. QED
        BY <1>6, <2>3, <3>1, <3>2, <3>3, <3>4
    <2>4. CASE b[1] # m
      <3>1. b \in offered' <=> b \in offered
        BY <1>1, <1>3, <2>2, <2>4
      <3>2. \A v \in Workers : /\ Handing(v)' /\ worker'[v].machine = b[1] <=>
                                     Handing(v) /\ worker[v].machine = b[1]
                               /\ Handing(v) /\ worker[v].machine = b[1] => worker'[v] = worker[v]
        BY <1>3, <1>5, <1>6, <2>4
      <3>3. QED
        BY <3>1, <3>2 DEF IInv, BinsInv
    <2>5. QED
      BY <2>3, <2>4
  <1>12. OrderInv'
    BY <1>10 DEF IInv, OrderInv
  <1>13. QED
    BY <1>7, <1>8, <1>9, <1>11, <1>12 DEF IInv

\* A bin sent last keeps the order when those of its machine sent before are the ones
\* before it in the answer.
LEMMA AppendKeepsOrder ==
    ASSUME NEW s \in Seq(Bins), NEW e \in Bins,
           \A i, j \in 1..Len(s) : i < j /\ s[i][1] = s[j][1] => s[i][2] < s[j][2],
           \A b \in Range(s) : b[1] = e[1] => b[2] < e[2],
           NEW t, t = Append(s, e)
    PROVE  \A i, j \in 1..Len(t) : i < j /\ t[i][1] = t[j][1] => t[i][2] < t[j][2]
  <1>1. /\ Len(s) \in Nat /\ Len(t) = Len(s) + 1
        /\ \A i \in 1..Len(s) : t[i] = s[i] /\ s[i] \in Range(s)
        /\ t[Len(s) + 1] = e
    BY AppendElements, RangeElements
  <1>2. SUFFICES ASSUME NEW i \in 1..Len(t), NEW j \in 1..Len(t), i < j, t[i][1] = t[j][1]
                 PROVE  t[i][2] < t[j][2]
    OBVIOUS
  <1>3. i \in 1..Len(s) /\ (j \in 1..Len(s) \/ j = Len(s) + 1)
    BY <1>1, <1>2
  <1>4. CASE j \in 1..Len(s)
    BY <1>1, <1>2, <1>3, <1>4
  <1>5. CASE j = Len(s) + 1
    BY <1>1, <1>2, <1>3, <1>5
  <1>6. QED
    BY <1>3, <1>4, <1>5

LEMMA SendStep ==
    ASSUME IInv, NEW w \in Workers, Send(w)
    PROVE  IInv'
  <1>1. /\ worker[w].pc = "sending" /\ Len(scraped) < ScrapedCap
        /\ scraped' = Append(scraped, Bin(w))
        /\ Move(w, After(worker[w].machine, worker[w].bin))
        /\ UNCHANGED <<main, envVars, rvmList, jobs, closed, collector, allBins, offered,
                       answers, count, result>>
    BY DEF Send, Room
  <1>2. Handing(w)
    BY <1>1 DEF Handing
  <1>3. PICK m \in Machines, i \in 1..MaxBins :
           /\ m = worker[w].machine /\ i = worker[w].bin
           /\ i \in 1..count[m] /\ Bin(w) = <<m, i>>
    <2>1. worker[w].machine \in Machines /\ worker[w].bin \in 1..count[worker[w].machine]
      BY <1>2, OwnMachine DEF IInv, AnswersInv, Busy
    <2>2. worker[w].bin \in 1..MaxBins
      BY <2>1, PollAssumption DEF IInv, TypeOK, PollAssumption
    <2>3. QED
      BY <2>1, <2>2 DEF Bin
  <1>4. count[m] \in 0..MaxBins /\ MaxBins \in Nat /\ i \in Nat \ {0} /\ i <= count[m]
    BY <1>3, PollAssumption DEF IInv, TypeOK, PollAssumption
  <1>5. PICK to : to = After(m, i)
    OBVIOUS
  <1>6. /\ i < count[m] => to = [pc |-> "offering", machine |-> m, bin |-> i + 1]
        /\ ~(i < count[m]) => to = Idle
    BY <1>1, <1>5 DEF After
  <1>7. /\ worker' \in [Workers -> [pc : {"next", "asking", "offering", "sending", "done"},
                                    machine : Machines \cup {NoMachine}, bin : 0..MaxBins]]
        /\ worker'[w] = to
        /\ \A v \in Workers : v # w => worker'[v] = worker[v]
    <2>1. i \in 0..MaxBins /\ count' \in [Machines -> 0..MaxBins]
      BY <1>1, <1>4 DEF IInv, TypeOK
    <2>2. to \in [pc : {"next", "asking", "offering", "sending", "done"},
                  machine : Machines \cup {NoMachine}, bin : 0..MaxBins]
      BY <1>5, <2>1, AfterType
    <2>3. QED
      BY <1>1, <1>3, <1>5, <2>2, Moved DEF IInv
  <1>8. <<m, i>> \in Bins /\ scraped \in Seq(Bins) /\ allBins \in Seq(Bins)
    BY BinFields DEF IInv, TypeOK
  <1>9. scraped' \in Seq(Bins) /\ Len(scraped') <= ScrapedCap
    <2>1. Len(scraped) \in Nat /\ ScrapedCap \in Nat
          /\ scraped' \in Seq(Bins) /\ Len(scraped') = Len(scraped) + 1
      BY <1>1, <1>3, <1>8, AppendElements, PollAssumption DEF PollAssumption
    <2>2. QED
      BY <1>1, <2>1
  <1>10. TypeOK'
    BY <1>1, <1>7, <1>9 DEF IInv, TypeOK, envVars
  <1>11. PhaseInv'
    BY <1>1, WorkerKeepsPhase
  <1>12. /\ Handing(w)' <=> i < count[m]
         /\ i < count[m] => /\ worker'[w].machine = m /\ worker'[w].bin = i + 1
                            /\ worker'[w].pc = "offering"
         /\ \A v \in Workers : v # w => (Handing(v)' <=> Handing(v))
    BY <1>6, <1>7 DEF Handing, Idle
  <1>13. JobsInv' /\ AnswersInv'
    <2>1. i < count[m] => i + 1 \in 1..count[m]
      BY <1>4
    <2>2. worker'[w] = Idle \/ (/\ Handing(w)' /\ worker'[w].machine = worker[w].machine
                                /\ worker'[w].bin \in 1..count[worker[w].machine])
      BY <1>3, <1>6, <1>7, <1>12, <2>1
    <2>3. QED
      BY <1>1, <1>2, <1>7, <2>2, HandingKeepsJobs
  <1>14. Sent' = Append(Sent, <<m, i>>) /\ Sent \in Seq(Bins)
    BY <1>1, <1>3, <1>8, AppendBehind DEF Sent
  <1>15. Range(Sent') = Range(Sent) \cup {<<m, i>>}
    <2>1. \A s \in Seq(Bins), b \in Bins : Range(Append(s, b)) = Range(s) \cup {b}
      BY AppendRange
    <2>2. QED
      BY <1>8, <1>14, <2>1
  <1>16. BinsInv'
    <2>1. SUFFICES ASSUME NEW b \in Bins
          PROVE  /\ b \in Range(Sent') <=>
                      /\ b[2] <= count[b[1]]
                      /\ \A v \in Workers : Handing(v)' /\ worker'[v].machine = b[1] =>
                            b[2] < worker'[v].bin
                 /\ b \in offered <=>
                      /\ b[2] <= count[b[1]]
                      /\ \A v \in Workers : Handing(v)' /\ worker'[v].machine = b[1] =>
                            \/ b[2] < worker'[v].bin
                            \/ worker'[v].pc = "sending" /\ b[2] = worker'[v].bin
      BY <1>1 DEF BinsInv
    <2>2. b[2] \in Nat /\ b = <<b[1], b[2]>>
      BY BinFields
    <2>3. CASE b[1] = m
      <3>1. /\ b \in Range(Sent) <=> b[2] < i
            /\ b \in offered <=> b[2] < i \/ b[2] = i
        BY <1>1, <1>2, <1>3, <2>3, OwnBins
      <3>2. b \in Range(Sent') <=> b[2] < i \/ b[2] = i
        BY <1>15, <2>2, <2>3, <3>1
      <3>3. \A v \in Workers : Handing(v)' /\ worker'[v].machine = b[1] => v = w
        BY <1>2, <1>3, <1>7, <1>12, <2>3, OneWorker DEF IInv, Busy
      <3>4. CASE i < count[m]
        <4>1. /\ b[2] < i \/ b[2] = i <=> b[2] < i + 1
              /\ b[2] < i + 1 => b[2] <= count[m]
          BY <1>4, <2>2, <3>4
        <4>2. QED
          BY <1>12, <2>3, <3>1, <3>2, <3>3, <3>4, <4>1
      <3>5. CASE ~(i < count[m])
        <4>1. b[2] < i \/ b[2] = i <=> b[2] <= count[m]
          BY <1>4, <2>2, <3>5
        <4>2. ~Handing(w)'
          BY <1>12, <3>5
        <4>3. QED
          BY <2>3, <3>1, <3>2, <3>3, <4>1, <4>2
      <3>6. QED
        BY <3>4, <3>5
    <2>4. CASE b[1] # m
      <3>1. b \in Range(Sent') <=> b \in Range(Sent)
        BY <1>15, <2>2, <2>4
      <3>2. \A v \in Workers : /\ Handing(v)' /\ worker'[v].machine = b[1] <=>
                                     Handing(v) /\ worker[v].machine = b[1]
                               /\ Handing(v) /\ worker[v].machine = b[1] => worker'[v] = worker[v]
        BY <1>3, <1>7, <1>12, <2>4
      <3>3. QED
        BY <3>1, <3>2 DEF IInv, BinsInv
    <2>5. QED
      BY <2>3, <2>4
  <1>17. OrderInv'
    <2>1. \A b \in Range(Sent) : b \in Bins
      BY <1>14, RangeElements
    <2>2. \A b \in Range(Sent) : b[1] = <<m, i>>[1] => b[2] < <<m, i>>[2]
      BY <1>2, <1>3, <2>1, OwnBins
    <2>3. QED
      BY <1>8, <1>14, <2>2, AppendKeepsOrder DEF IInv, OrderInv
  <1>18. QED
    BY <1>10, <1>11, <1>13, <1>16, <1>17 DEF IInv
-------------------------------------------------------------------------------
(* The theorems.                                                             *)

LEMMA InvStep == IInv /\ [Next]_vars => IInv'
  <1> SUFFICES ASSUME IInv, [Next]_vars PROVE IInv'
    OBVIOUS
  <1>1. CASE Begin
    BY <1>1, BeginStep
  <1>2. CASE MainStep \/ Relocate \/ Cancel \/ CollectorReturns \/ UNCHANGED vars
    BY <1>2, OtherSteps
  <1>3. CASE Collect
    BY <1>3, CollectStep
  <1>4. ASSUME NEW w \in Workers, WorkerStep(w) PROVE IInv'
    BY <1>4, TakeJobStep, NoJobStep, AnswerStep, OfferStep, SendStep DEF WorkerStep
  <1>5. QED
    BY <1>1, <1>2, <1>3, <1>4 DEF Next, CollectorStep

LEMMA SpecInv == Spec => []IInv
  BY InvInit, InvStep, PTL DEF Spec

\* Every variable keeps its type; scrapedCh never holds more than its capacity.
THEOREM TypeCorrect == Spec => []TypeOK
  <1>1. IInv => TypeOK
    BY DEF IInv
  <1>2. QED
    BY <1>1, SpecInv, PTL

\* However many workers there are, none is at its send, or will get there, once
\* scrapedCh is closed.
THEOREM NoSendOnClosedCorrect == Spec => []NoSendOnClosed
  <1>1. IInv => NoSendOnClosed
    BY DEF IInv, PhaseInv, AllReturned, NoSendOnClosed
  <1>2. QED
    BY <1>1, SpecInv, PTL

\* With any number of workers, any capacity of scrapedCh and a context that ends at any
\* time, a cycle never comes to where everybody waits: the safety half of CycleEnds.
THEOREM PoolMovesCorrect == Spec => []PoolMoves
  <1>1. ASSUME IInv, main # "idle"
        PROVE  \/ main = "scraping" /\ AllReturned
               \/ main = "collecting" /\ Collected
               \/ main = "deltas"
               \/ \E w \in Workers : \/ worker[w].pc \in {"next", "asking", "offering"}
                                     \/ worker[w].pc = "sending" /\ Room
               \/ collector /\ (scraped # <<>> \/ CollectorEnds)
    <2>1. main \in {"scraping", "collecting", "deltas"}
      BY <1>1 DEF IInv, TypeOK
    <2>2. CASE main = "collecting"
      BY <1>1, <2>2 DEF IInv, PhaseInv, Collected, CollectorEnds
    <2>3. CASE main = "scraping" /\ ~AllReturned
      <3>1. PICK w \in Workers : worker[w].pc # "done"
        BY <2>3 DEF AllReturned
      <3>2. worker[w].pc \in {"next", "asking", "offering", "sending"}
        BY <1>1, <3>1 DEF IInv, TypeOK
      <3>3. collector
        BY <1>1, <2>3 DEF IInv, PhaseInv
      <3>4. scraped # <<>> \/ Room
        <4>1. scraped = <<>> => Len(scraped) = 0
          OBVIOUS
        <4>2. QED
          BY <4>1, PollAssumption DEF Room
      <3>5. QED
        BY <3>2, <3>3, <3>4
    <2>4. QED
      BY <2>1, <2>2, <2>3
  <1>2. IInv => PoolMoves
    BY <1>1 DEF PoolMoves
  <1>3. QED
    BY <1>2, SpecInv, PTL

\* The invariant says of the delta section what a complete cycle is: the workers have
\* returned, so that no bound on a worker's place in its answer is left.
LEMMA InvCompletes == IInv => CycleComplete
  <1> SUFFICES ASSUME IInv, main = "deltas" PROVE CycleComplete
    BY DEF CycleComplete
  <1>1. AllReturned /\ scraped = <<>> /\ \A w \in Workers : worker[w].pc = "done"
    BY DEF IInv, PhaseInv, AllReturned
  <1>2. \A w \in Workers : ~Handing(w) /\ ~Asking(w)
    BY <1>1 DEF Handing, Asking
  <1>3. allBins \in Seq(Bins) /\ Sent = allBins /\ DOMAIN allBins = 1..Len(allBins)
    BY <1>1 DEF IInv, TypeOK, Sent
  <1>4. \A b \in Bins : /\ b \in Range(allBins) <=> b[2] <= count[b[1]]
                        /\ b \in offered <=> b[2] <= count[b[1]]
    BY <1>2, <1>3 DEF IInv, BinsInv
  <1>5. Range(allBins) \subseteq Bins /\ offered \subseteq Bins
    BY <1>3, RangeType DEF IInv, TypeOK
  <1>6. Range(allBins) = {b \in Bins : b[2] <= count[b[1]]} /\ offered = Range(allBins)
    BY <1>4, <1>5
  <1>7. \A i, j \in DOMAIN allBins :
           i < j /\ allBins[i][1] = allBins[j][1] => allBins[i][2] < allBins[j][2]
    BY <1>3 DEF IInv, OrderInv
  <1>8. \A m \in Machines \ rvmList : answers[m] = "none"
    BY DEF IInv, AnswersInv
  <1>9. ASSUME ~cancelled, NEW m \in rvmList PROVE answers[m] # "none"
    <2>1. PICK w \in Workers : worker[w].pc = "done"
      BY <1>1, PollAssumption DEF PollAssumption
    <2>2. jobs = <<>> /\ <<>> \in Seq(Machines) /\ Len(<<>>) = 0
      BY <1>9, <2>1 DEF IInv, JobsInv
    <2>3. Range(jobs) = {}
      BY <2>2 DEF Range
    <2>4. QED
      BY <1>2, <1>9, <2>3 DEF IInv, AnswersInv
  <1>10. QED
    BY <1>1, <1>6, <1>7, <1>8, <1>9 DEF CycleComplete

\* However many workers share the jobs and however small the channel is, the delta
\* section sees each answered bin once, in the order of its machine's answer, after it
\* was handed to storage, and misses no machine of the cycle unless the context ended.
THEOREM CycleCompleteCorrect == Spec => []CycleComplete
  BY InvCompletes, SpecInv, PTL

===============================================================================

------------------------------ MODULE BinDelta ------------------------------
(***************************************************************************)
(* internal/poller/poller.go: the delta section of PollBins turns the      *)
(* counts that bins report into a number of returned containers, from the  *)
(* last count it knows of each bin; HydrateFromStorage loads those counts  *)
(* from rvm_bin_snapshots when the process starts again.                   *)
(*                                                                         *)
(* The code knows a bin by its machine and compartment type (binKey), and  *)
(* a machine is assumed to have one bin of a type.  A bin is a physical    *)
(* object here, so that what is counted can be compared with what          *)
(* happened.                                                               *)
(*                                                                         *)
(* A definition marked "Variant" is the one after it with a plausible      *)
(* mistake; no specification uses it.                                      *)
(***************************************************************************)
EXTENDS Integers, Sequences

CONSTANTS
    Bins,          \* the bins, by machine and compartment type
    MaxDelta,      \* the sanity cap: 200
    MinEmptied,    \* the smallest count from which an emptying is believed: 50
    Width,         \* the counts are unsigned: 2^32
    None,          \* no sample of a bin
    MaxTotal,      \* bound: containers inserted in a bin
    MaxEmptied,    \* bound: how often a bin is emptied
    MaxError,      \* bound: by how much a sensor may be wrong
    MaxMisreads,   \* bound: wrong readings
    MaxWaiting,    \* bound: snapshots of a bin in the batch buffer
    MaxCrashes     \* bound: crashes

ASSUME DeltaAssumption ==
    /\ MaxDelta \in Nat /\ MinEmptied \in Nat /\ Width \in Nat \ {0}
    /\ MaxTotal \in Nat /\ MaxError \in Nat /\ MaxTotal + MaxError < Width
    /\ MaxEmptied \in Nat /\ MaxMisreads \in Nat /\ MaxWaiting \in Nat /\ MaxCrashes \in Nat

VARIABLES
    odometers,  \* the bins that report a lifetime count and Capacity 0 (TOMRA)
    inserted,   \* inserted[b]: containers inserted so far
    inBin,      \* inBin[b]: containers in the bin
    emptied,    \* emptied[b]: how often it was emptied
    misreads,   \* readings that were wrong so far
    running,    \* the process is up and hydrated
    scraped,    \* scraped[b]: what allBins holds of b in this cycle
    last,       \* last[b]: p.lastBinCounts
    ingested,   \* ingested[b]: what the process has added to the counter for b
    base,       \* base[b]: inserted when the process's first count of b was taken (history)
    excused,    \* excused[b]: the process left out containers of b on purpose, or a
                \* reading was wrong (history)
    noise,      \* noise[b]: by how much the readings it compared were wrong (history)
    counted,    \* counted[b]: what earlier processes added to the counter (history)
    again,      \* again[b]: of these, what the database did not know when they crashed,
                \* and what wrong readings may have added (history)
    waiting,    \* waiting[b]: snapshots of b in the batch buffer
    table,      \* table[b]: the snapshot of b with the last polled_at in the database
    crashes     \* crashes so far

worldVars == <<odometers, inserted, inBin, emptied>>
memVars == <<running, scraped, last, ingested, base, excused, noise>>
totalVars == <<counted, again>>
vars == <<worldVars, misreads, memVars, totalVars, waiting, table, crashes>>

Init ==
    /\ odometers \in SUBSET Bins
    /\ inserted = [b \in Bins |-> 0]
    /\ inBin = [b \in Bins |-> 0]
    /\ emptied = [b \in Bins |-> 0]
    /\ misreads = 0
    /\ running = TRUE
    /\ scraped = [b \in Bins |-> None]
    /\ last = [b \in Bins |-> None]
    /\ ingested = [b \in Bins |-> 0]
    /\ base = [b \in Bins |-> 0]
    /\ excused = [b \in Bins |-> FALSE]
    /\ noise = [b \in Bins |-> 0]
    /\ counted = [b \in Bins |-> 0]
    /\ again = [b \in Bins |-> 0]
    /\ waiting = [b \in Bins |-> <<>>]
    /\ table = [b \in Bins |-> None]
    /\ crashes = 0
-------------------------------------------------------------------------------
(* The machines                                                             *)

Insert(b) ==
    /\ inserted[b] < MaxTotal
    /\ inserted' = [inserted EXCEPT ![b] = @ + 1]
    /\ inBin' = [inBin EXCEPT ![b] = @ + 1]
    /\ UNCHANGED <<odometers, emptied, misreads, memVars, totalVars, waiting, table, crashes>>

Empty(b) ==
    /\ emptied[b] < MaxEmptied
    /\ inBin[b] > 0
    /\ inBin' = [inBin EXCEPT ![b] = 0]
    /\ emptied' = [emptied EXCEPT ![b] = @ + 1]
    /\ UNCHANGED <<odometers, inserted, misreads, memVars, totalVars, waiting, table, crashes>>
-------------------------------------------------------------------------------
(* The algorithm                                                            *)

\* uint32 subtraction.
Minus(a, b) == (a - b) % Width

\* Variant: a difference at the cap is left out.
CappedBelow(n) == IF n < MaxDelta THEN n ELSE 0

\* The sanity cap.
Capped(n) == IF n <= MaxDelta THEN n ELSE 0

\* An odometer only goes up; from 0 it is taken not to have reported yet.
OdometerDelta(prev, cur) ==
    IF prev > 0 /\ cur >= prev THEN Capped(Minus(cur, prev)) ELSE 0

\* Variant: an emptied bin counts what it held before.
InBinDeltaBefore(prev, cur) ==
    CASE cur > prev -> Capped(Minus(cur, prev))
      [] cur < prev /\ prev >= MinEmptied /\ cur <= prev \div 2 -> Capped(prev)
      [] OTHER -> 0

\* An in-bin count goes up with the containers and down when the bin is emptied, after
\* which it holds new ones only.
InBinDelta(prev, cur) ==
    CASE cur > prev -> Capped(Minus(cur, prev))
      [] cur < prev /\ prev >= MinEmptied /\ cur <= prev \div 2 -> Capped(cur)
      [] OTHER -> 0

\* Variant: a bin that is not in the map is taken to have had a count of zero.
DeltaFromZero(b, prev, cur) ==
    LET before == IF prev = None THEN 0 ELSE prev.count
    IN  IF b \in odometers THEN OdometerDelta(before, cur) ELSE InBinDelta(before, cur)

\* The first count of a bin only starts the series.
Delta(b, prev, cur) ==
    IF prev = None THEN 0
    ELSE IF b \in odometers THEN OdometerDelta(prev.count, cur) ELSE InBinDelta(prev.count, cur)
-------------------------------------------------------------------------------
(* PollBins                                                                 *)

\* What a sensor without errors says.
Holds(b) == IF b \in odometers THEN inserted[b] ELSE inBin[b]

\* What the bin's sensor may say, and how wrong that is.
Readings(b) ==
    {[count |-> Holds(b) + e, error |-> e] : e \in 0..MaxError}
        \cup {[count |-> Holds(b) - e, error |-> e] : e \in {x \in 0..MaxError : x <= Holds(b)}}

\* A worker got b's bin: it is handed to storage, unless a full channel drops it, and
\* sent to the collector.  A cycle asks once for a bin, and not all requests succeed.
\* A sample remembers what had happened to the bin when it was taken.
Scrape(b) ==
    /\ running
    /\ scraped[b] = None
    /\ \E reading \in Readings(b) :
          LET sample == [count |-> reading.count, error |-> reading.error,
                         inserted |-> inserted[b], emptied |-> emptied[b]]
          IN  /\ misreads' = IF reading.error = 0 THEN misreads ELSE misreads + 1
              /\ misreads' <= MaxMisreads
              /\ scraped' = [scraped EXCEPT ![b] = sample]
              /\ waiting' = IF Len(waiting[b]) < MaxWaiting
                            THEN [waiting EXCEPT ![b] = Append(@, sample)]
                            ELSE waiting
    /\ UNCHANGED <<worldVars, running, last, ingested, base, excused, noise, totalVars,
                   table, crashes>>

Scraped == {b \in Bins : scraped[b] # None}

\* What the algorithm leaves out by design: a jump above the cap, an odometer that
\* started at 0, and what an emptying hides.
LeavesOut(b) ==
    /\ last[b] # None
    /\ \/ scraped[b].inserted - last[b].inserted > MaxDelta
       \/ b \in odometers /\ last[b].count = 0
       \/ b \notin odometers /\ scraped[b].emptied # last[b].emptied

\* By how much the two readings that are compared are wrong together.
Misread(b) == IF last[b] = None THEN 0 ELSE last[b].error + scraped[b].error

\* Variant: the last count is only kept when there was none.
KeptSample(b) == IF b \in Scraped /\ last[b] = None THEN scraped[b] ELSE last[b]

\* The last count that the next cycle compares with.
LastSample(b) == IF b \in Scraped THEN scraped[b] ELSE last[b]

\* The delta section, which holds the lock: each bin of allBins in turn.
CountDeltas ==
    /\ running
    /\ Scraped # {}
    /\ ingested' = [b \in Bins |->
                       IF b \in Scraped THEN ingested[b] + Delta(b, last[b], scraped[b].count)
                       ELSE ingested[b]]
    /\ last' = [b \in Bins |-> LastSample(b)]
    /\ base' = [b \in Bins |-> IF b \in Scraped /\ last[b] = None THEN scraped[b].inserted
                               ELSE base[b]]
    /\ excused' = [b \in Bins |->
                      excused[b] \/ (b \in Scraped /\ (LeavesOut(b) \/ Misread(b) > 0))]
    /\ noise' = [b \in Bins |-> IF b \in Scraped THEN noise[b] + Misread(b) ELSE noise[b]]
    /\ scraped' = [b \in Bins |-> None]
    /\ UNCHANGED <<worldVars, misreads, running, totalVars, waiting, table, crashes>>
-------------------------------------------------------------------------------
(* Storage, crash and restart                                               *)

\* A flush inserts a first part of the snapshots that wait.  One that is committed
\* without an answer only lets them be inserted twice, which the newest one of the
\* table does not show.
InsertBins(b) ==
    /\ \E k \in 1..Len(waiting[b]) :
          /\ table' = [table EXCEPT ![b] = waiting[b][k]]
          /\ waiting' = [waiting EXCEPT ![b] = SubSeq(@, k + 1, Len(@))]
    /\ UNCHANGED <<worldVars, misreads, memVars, totalVars, crashes>>

\* The containers of b that the process has counted since the snapshot of b that the
\* database has: the next process starts from that one.
Unsaved(b) ==
    IF last[b] = None \/ table[b] = None THEN 0
    ELSE LET from == IF table[b].inserted > base[b] THEN table[b].inserted ELSE base[b]
         IN  IF last[b].inserted > from THEN last[b].inserted - from ELSE 0

Crash ==
    /\ running
    /\ crashes < MaxCrashes
    /\ crashes' = crashes + 1
    /\ running' = FALSE
    /\ scraped' = [b \in Bins |-> None]
    /\ last' = [b \in Bins |-> None]
    /\ ingested' = [b \in Bins |-> 0]
    /\ base' = [b \in Bins |-> 0]
    /\ excused' = [b \in Bins |-> FALSE]
    /\ noise' = [b \in Bins |-> 0]
    /\ counted' = [b \in Bins |-> counted[b] + ingested[b]]
    /\ again' = [b \in Bins |-> again[b] + Unsaved(b) + noise[b]]
    /\ waiting' = [b \in Bins |-> <<>>]
    /\ UNCHANGED <<worldVars, misreads, table>>

\* LoadLatestBinSnapshots and applyHydratedBinSnapshots; after an error the counts
\* start from nothing.
Hydrate ==
    /\ ~running
    /\ running' = TRUE
    /\ \/ /\ last' = table
          /\ base' = [b \in Bins |-> IF table[b] = None THEN 0 ELSE table[b].inserted]
       \/ UNCHANGED <<last, base>>
    /\ UNCHANGED <<worldVars, misreads, scraped, ingested, excused, noise, totalVars, waiting,
                   table, crashes>>
-------------------------------------------------------------------------------
Next ==
    \/ \E b \in Bins : Insert(b) \/ Empty(b) \/ Scrape(b) \/ InsertBins(b)
    \/ CountDeltas
    \/ Crash \/ Hydrate

Spec == Init /\ [][Next]_vars
-------------------------------------------------------------------------------
(* Properties.                                                              *)

Samples == [count : 0..(Width - 1), error : Nat, inserted : Nat, emptied : Nat]

\* Every variable has its type; a count fits its width, and so does a counter that no
\* wrong reading has touched.
TypeOK ==
    /\ \A f \in {inserted, inBin, emptied, ingested, base, noise, counted, again} :
          f \in [Bins -> Nat]
    /\ odometers \subseteq Bins
    /\ misreads \in 0..MaxMisreads
    /\ running \in BOOLEAN
    /\ excused \in [Bins -> BOOLEAN]
    /\ \A f \in {scraped, last, table} : f \in [Bins -> Samples \cup {None}]
    /\ waiting \in [Bins -> Seq(Samples)]
    /\ \A b \in Bins : noise[b] = 0 => ingested[b] < Width
    /\ crashes \in 0..MaxCrashes

\* A process never counts a container twice, and none that was inserted before the count
\* it started from: not when a bin is emptied between two polls, not when polls of a bin
\* fail, not with the counts that were loaded after a crash.  A wrong reading, as when a
\* count dips and returns, adds no more than it and the readings next to it are wrong.
NeverOvercounts ==
    \A b \in Bins :
        ingested[b] <= IF last[b] = None THEN 0 ELSE last[b].inserted - base[b] + noise[b]

\* All processes together, whose counters increase() adds up, count a container twice only
\* if a process counted it and crashed before the snapshot was stored, or for a wrong
\* reading: snapshots are lost, dropped or late, and loading them may fail.
NeverRecounts ==
    \A b \in Bins :
        counted[b] + ingested[b] <= again[b] + noise[b] + (IF last[b] = None THEN inserted[b]
                                                           ELSE last[b].inserted)

\* A process counts every container, except where the algorithm means to leave some out
\* or a reading was wrong.
CountsAll ==
    \A b \in Bins :
        last[b] # None /\ ~excused[b] => ingested[b] = last[b].inserted - base[b]
===============================================================================

---------------------------- MODULE BinDeltaProofs ----------------------------
(* Theorems about BinDelta, for any number of bins, any caps and any width of   *)
(* the counts.                                                                 *)
EXTENDS BinDelta, TLAPS

(* The inductive invariant, bin by bin: the samples of a bin are ordered by what *)
(* had happened to it, and every sample is earlier than what the bin holds now.  *)
(* NeverOvercounts alone says nothing of a sample that is still on its way, to   *)
(* the delta section or through the database to the next process; NeverRecounts  *)
(* nothing of the snapshot from which the next process will start.               *)

\* What a sensor without errors would report now.
Now(b) == [count |-> Holds(b), error |-> 0, inserted |-> inserted[b], emptied |-> emptied[b]]

\* s was taken before t: the counts differ by what was inserted, and after an emptying t
\* holds no more than that, up to the errors of the two.
Earlier(odometer, s, t) ==
    LET grown == t.inserted - s.inserted
        off   == s.error + t.error
    IN  /\ s.inserted <= t.inserted /\ s.emptied <= t.emptied
        /\ odometer \/ s.emptied = t.emptied =>
              t.count <= s.count + grown + off /\ s.count + grown <= t.count + off
        /\ ~odometer /\ s.emptied # t.emptied => t.count <= grown + t.error

\* A process may start from s: earlier ones have counted no more than was inserted before
\* it, but for what again excuses.
Known(b, s) ==
    /\ Earlier(b \in odometers, s, Now(b))
    /\ counted[b] <= s.inserted + again[b]

\* What the counter may have counted, and has counted, of a bin.
NotOver(b) ==
    ingested[b] <= IF last[b] = None THEN 0 ELSE last[b].inserted - base[b] + noise[b]
Exact(b)   == last[b] # None /\ ~excused[b] => ingested[b] = last[b].inserted - base[b]

Types ==
    /\ \A f \in {inserted, inBin, emptied, ingested, base, noise, counted, again} :
          f \in [Bins -> Nat]
    /\ \A b \in Bins : inBin[b] <= inserted[b] /\ inserted[b] <= MaxTotal
    /\ odometers \subseteq Bins
    /\ misreads \in 0..MaxMisreads
    /\ running \in BOOLEAN
    /\ excused \in [Bins -> BOOLEAN]
    /\ \A f \in {scraped, last, table} : f \in [Bins -> Samples \cup {None}]
    /\ waiting \in [Bins -> Seq(Samples)]
    /\ crashes \in 0..MaxCrashes

BinInv(b) ==
    /\ scraped[b] # None => Known(b, scraped[b])
    /\ table[b] # None => Known(b, table[b])
    /\ \A i \in 1..Len(waiting[b]) : Known(b, waiting[b][i])
    /\ counted[b] <= inserted[b] + again[b]
    /\ last[b] # None => /\ Earlier(b \in odometers, last[b], Now(b))
                         /\ base[b] <= last[b].inserted
                         /\ counted[b] <= base[b] + again[b]
    /\ last[b] # None /\ scraped[b] # None =>
          Earlier(b \in odometers, last[b], scraped[b])
    /\ ~running => last[b] = None /\ scraped[b] = None
    /\ NotOver(b) /\ Exact(b)

IInv == Types /\ \A b \in Bins : BinInv(b)

\* What Types says of one bin.
LEMMA BinTypes ==
    ASSUME Types, NEW b \in Bins
    PROVE  /\ inserted[b] \in Nat /\ inBin[b] \in Nat /\ emptied[b] \in Nat
           /\ ingested[b] \in Nat /\ base[b] \in Nat /\ excused[b] \in BOOLEAN
           /\ noise[b] \in Nat /\ counted[b] \in Nat /\ again[b] \in Nat
           /\ inBin[b] <= inserted[b] /\ inserted[b] <= MaxTotal
           /\ scraped[b] # None => scraped[b] \in Samples
           /\ last[b] # None => last[b] \in Samples
           /\ table[b] # None => table[b] \in Samples
           /\ waiting[b] \in Seq(Samples)
           /\ Now(b) \in Samples
           /\ Now(b).inserted = inserted[b] /\ Now(b).emptied = emptied[b] /\ Now(b).error = 0
           /\ Now(b).count = IF b \in odometers THEN inserted[b] ELSE inBin[b]
  <1>1. /\ inserted[b] \in Nat /\ inBin[b] \in Nat /\ emptied[b] \in Nat
        /\ ingested[b] \in Nat /\ base[b] \in Nat /\ excused[b] \in BOOLEAN
        /\ noise[b] \in Nat /\ counted[b] \in Nat /\ again[b] \in Nat
        /\ inBin[b] <= inserted[b] /\ inserted[b] <= MaxTotal
    BY DEF Types
  <1>2. /\ scraped[b] # None => scraped[b] \in Samples
        /\ last[b] # None => last[b] \in Samples
        /\ table[b] # None => table[b] \in Samples
        /\ waiting[b] \in Seq(Samples)
    BY DEF Types
  <1>3. Holds(b) = IF b \in odometers THEN inserted[b] ELSE inBin[b]
    BY DEF Holds
  <1>4. Holds(b) \in 0..(Width - 1)
    BY <1>1, <1>3, DeltaAssumption DEF DeltaAssumption
  <1>5. QED
    BY <1>1, <1>2, <1>3, <1>4 DEF Now, Samples

LEMMA SampleFields ==
    ASSUME NEW s \in Samples
    PROVE  /\ s.count \in Nat /\ s.count \in 0..(Width - 1)
           /\ s.error \in Nat /\ s.inserted \in Nat /\ s.emptied \in Nat
  BY DeltaAssumption DEF Samples, DeltaAssumption

LEMMA InvInit == Init => IInv
  <1> SUFFICES ASSUME Init PROVE IInv
    OBVIOUS
  <1>1. /\ 0 \in 0..MaxCrashes /\ 0 \in 0..MaxMisreads /\ 0 <= MaxTotal
        /\ <<>> \in Seq(Samples) /\ Len(<<>>) = 0
    BY DeltaAssumption DEF DeltaAssumption
  <1>2. Types
    BY <1>1 DEF Init, Types
  <1>3. ASSUME NEW b \in Bins PROVE BinInv(b)
    BY <1>1 DEF Init, BinInv, NotOver, Exact
  <1>4. QED
    BY <1>2, <1>3 DEF IInv
-------------------------------------------------------------------------------
(* The differences.                                                          *)

\* A difference of two counts on the right side of their comparison is not wrapped.
LEMMA NoWrap ==
    ASSUME NEW a \in 0..(Width - 1), NEW b \in 0..(Width - 1), b <= a
    PROVE  Minus(a, b) = a - b
  <1>1. a - b \in 0..(Width - 1) /\ Width \in Nat \ {0}
    BY DeltaAssumption DEF DeltaAssumption
  <1>2. \A n \in 0..(Width - 1) : n % Width = n
    BY <1>1
  <1>3. QED
    BY <1>1, <1>2 DEF Minus

LEMMA CappedBounds ==
    ASSUME NEW n \in Nat
    PROVE  /\ Capped(n) \in Nat /\ Capped(n) <= n
           /\ n <= MaxDelta => Capped(n) = n
  BY DEF Capped

LEMMA InBinCases ==
    ASSUME NEW p \in Nat, NEW c \in Nat
    PROVE  /\ c > p => InBinDelta(p, c) = Capped(Minus(c, p))
           /\ ~(c > p) => \/ InBinDelta(p, c) = 0
                          \/ InBinDelta(p, c) = Capped(c) /\ c + c <= p
           /\ c = p => InBinDelta(p, c) = 0
  <1>1. CASE c > p
    <2>1. ~(c < p)
      BY <1>1
    <2>2. InBinDelta(p, c) = Capped(Minus(c, p))
      BY <1>1, <2>1, Zenon DEF InBinDelta
    <2>3. QED
      BY <1>1, <2>2
  <1>2. CASE ~(c > p)
    <2>1. CASE c < p /\ p >= MinEmptied /\ c <= p \div 2
      <3>1. c + c <= p
        BY <2>1
      <3>2. InBinDelta(p, c) = Capped(c)
        BY <1>2, <2>1, Zenon DEF InBinDelta
      <3>3. QED
        BY <1>2, <2>1, <3>1, <3>2
    <2>2. CASE ~(c < p /\ p >= MinEmptied /\ c <= p \div 2)
      BY <1>2, <2>2 DEF InBinDelta
    <2>3. QED
      BY <2>1, <2>2
  <1>3. QED
    BY <1>1, <1>2

\* Between two samples of a bin, no more is counted than was inserted and the two are wrong;
\* all of it, unless the algorithm leaves it out by design or one of them is wrong.
LEMMA DeltaBounds ==
    ASSUME NEW b \in Bins, NEW prev \in Samples, NEW cur \in Samples, prev # None,
           Earlier(b \in odometers, prev, cur)
    PROVE  /\ Delta(b, prev, cur.count) \in Nat
           /\ Delta(b, prev, cur.count) <= cur.inserted - prev.inserted + prev.error + cur.error
           /\ ~(\/ cur.inserted - prev.inserted > MaxDelta
                \/ b \in odometers /\ prev.count = 0
                \/ b \notin odometers /\ cur.emptied # prev.emptied
                \/ prev.error + cur.error > 0)
                 => Delta(b, prev, cur.count) = cur.inserted - prev.inserted
  <1> DEFINE p == prev.count
             c == cur.count
             g == cur.inserted - prev.inserted
             off == prev.error + cur.error
  <1>1. /\ p \in Nat /\ p \in 0..(Width - 1) /\ c \in Nat /\ c \in 0..(Width - 1)
        /\ prev.error \in Nat /\ cur.error \in Nat /\ off \in Nat /\ MaxDelta \in Nat
        /\ prev.inserted \in Nat /\ cur.inserted \in Nat
    BY SampleFields, DeltaAssumption DEF DeltaAssumption
  <1>2. g \in Nat
    BY <1>1 DEF Earlier
  <1>3. c > p \/ c = p => Minus(c, p) = c - p /\ c - p \in Nat
    BY <1>1, NoWrap
  <1>4. CASE b \in odometers \/ cur.emptied = prev.emptied
    <2>1. c <= p + g + off /\ p + g <= c + off
      BY <1>4 DEF Earlier
    <2>2. CASE b \in odometers
      <3>1. Delta(b, prev, c) = OdometerDelta(p, c)
        BY <2>2 DEF Delta
      <3>2. \/ OdometerDelta(p, c) = Capped(c - p) /\ c - p \in Nat
            \/ OdometerDelta(p, c) = 0 /\ (p = 0 \/ c < p)
        BY <1>1, <1>3 DEF OdometerDelta
      <3>3. OdometerDelta(p, c) \in Nat /\ OdometerDelta(p, c) <= g + off
        BY <1>1, <1>2, <2>1, <3>2, CappedBounds
      <3>4. g <= MaxDelta /\ p # 0 /\ off = 0 => OdometerDelta(p, c) = g
        <4>1. SUFFICES ASSUME g <= MaxDelta, p # 0, off = 0 PROVE OdometerDelta(p, c) = g
          OBVIOUS
        <4>2. c - p = g
          BY <1>1, <1>2, <2>1, <4>1
        <4>3. OdometerDelta(p, c) = Capped(c - p)
          BY <1>1, <1>2, <3>2, <4>1, <4>2
        <4>4. QED
          BY <1>2, <4>1, <4>2, <4>3, CappedBounds
      <3>5. QED
        BY <1>1, <1>2, <2>2, <3>1, <3>3, <3>4
    <2>3. CASE b \notin odometers
      <3>1. Delta(b, prev, c) = InBinDelta(p, c)
        BY <2>3 DEF Delta
      <3>2. \/ c > p /\ InBinDelta(p, c) = Capped(c - p) /\ c - p \in Nat
            \/ InBinDelta(p, c) = Capped(c) /\ c < p /\ c + c <= p
            \/ InBinDelta(p, c) = 0 /\ ~(c > p)
        BY <1>1, <1>3, InBinCases
      <3>3. InBinDelta(p, c) \in Nat /\ InBinDelta(p, c) <= g + off
        <4>1. CASE c > p /\ InBinDelta(p, c) = Capped(c - p) /\ c - p \in Nat
          BY <1>1, <1>2, <2>1, <4>1, CappedBounds
        <4>2. CASE InBinDelta(p, c) = Capped(c) /\ c < p /\ c + c <= p
          <5>1. Capped(c) \in Nat /\ Capped(c) <= c
            BY <1>1, CappedBounds
          <5>2. c <= g + off
            BY <1>1, <1>2, <2>1, <4>2
          <5>3. QED
            BY <1>1, <1>2, <4>2, <5>1, <5>2
        <4>3. CASE InBinDelta(p, c) = 0 /\ ~(c > p)
          BY <1>1, <1>2, <4>3
        <4>4. QED
          BY <3>2, <4>1, <4>2, <4>3
      <3>4. g <= MaxDelta /\ off = 0 => InBinDelta(p, c) = g
        <4>1. SUFFICES ASSUME g <= MaxDelta, off = 0 PROVE InBinDelta(p, c) = g
          OBVIOUS
        <4>2. c - p = g /\ ~(c < p)
          BY <1>1, <1>2, <2>1, <4>1
        <4>3. \/ InBinDelta(p, c) = Capped(c - p)
              \/ InBinDelta(p, c) = 0 /\ ~(c > p)
          BY <3>2, <4>2
        <4>4. Capped(g) = g
          BY <1>2, <4>1, CappedBounds
        <4>5. QED
          BY <1>1, <1>2, <4>2, <4>3, <4>4
      <3>5. QED
        BY <1>1, <1>2, <1>4, <2>3, <3>1, <3>3, <3>4
    <2>4. QED
      BY <2>2, <2>3
  <1>5. CASE ~(b \in odometers \/ cur.emptied = prev.emptied)
    <2>1. c <= g + cur.error
      BY <1>5 DEF Earlier
    <2>2. Delta(b, prev, c) = InBinDelta(p, c)
      BY <1>5 DEF Delta
    <2>3. \/ InBinDelta(p, c) = Capped(c - p) /\ c - p \in Nat
          \/ InBinDelta(p, c) = Capped(c)
          \/ InBinDelta(p, c) = 0
      BY <1>1, <1>3, InBinCases
    <2>4. InBinDelta(p, c) \in Nat /\ InBinDelta(p, c) <= c
      BY <1>1, <2>3, CappedBounds
    <2>5. InBinDelta(p, c) <= g + prev.error + cur.error
      BY <1>1, <1>2, <2>1, <2>4
    <2>6. QED
      BY <1>5, <2>2, <2>4, <2>5
  <1>6. QED
    BY <1>4, <1>5
-------------------------------------------------------------------------------
(* The world.                                                                *)

\* An earlier sample stays earlier when a container is inserted or the bin is emptied.
LEMMA WorldMoves ==
    ASSUME Types, Types', NEW b \in Bins, NEW s \in Samples,
           Earlier(b \in odometers, s, Now(b)), odometers' = odometers,
           \/ UNCHANGED <<inserted[b], inBin[b], emptied[b]>>
           \/ /\ inserted'[b] = inserted[b] + 1 /\ inBin'[b] = inBin[b] + 1
              /\ emptied'[b] = emptied[b]
           \/ inserted'[b] = inserted[b] /\ inBin'[b] = 0 /\ emptied'[b] = emptied[b] + 1
    PROVE  Earlier(b \in odometers, s, Now(b)')
  <1>1. /\ inserted[b] \in Nat /\ inBin[b] \in Nat /\ emptied[b] \in Nat
        /\ s.count \in Nat /\ s.error \in Nat /\ s.inserted \in Nat /\ s.emptied \in Nat
    BY BinTypes, SampleFields
  <1>2. /\ Now(b).inserted = inserted[b] /\ Now(b).emptied = emptied[b] /\ Now(b).error = 0
        /\ Now(b).count = IF b \in odometers THEN inserted[b] ELSE inBin[b]
        /\ Now(b)'.inserted = inserted'[b] /\ Now(b)'.emptied = emptied'[b] /\ Now(b)'.error = 0
        /\ Now(b)'.count = IF b \in odometers THEN inserted'[b] ELSE inBin'[b]
    BY DEF Now, Holds
  <1>3. CASE UNCHANGED <<inserted[b], inBin[b], emptied[b]>>
    BY <1>2, <1>3 DEF Earlier
  <1>4. CASE /\ inserted'[b] = inserted[b] + 1 /\ inBin'[b] = inBin[b] + 1
             /\ emptied'[b] = emptied[b]
    BY <1>1, <1>2, <1>4 DEF Earlier
  <1>5. CASE inserted'[b] = inserted[b] /\ inBin'[b] = 0 /\ emptied'[b] = emptied[b] + 1
    BY <1>1, <1>2, <1>5 DEF Earlier
  <1>6. QED
    BY <1>3, <1>4, <1>5

\* Steps of the world leave the process and the database alone.
LEMMA WorldStep ==
    ASSUME IInv, UNCHANGED <<odometers, memVars, totalVars, waiting, table>>, Types',
           \A b \in Bins :
              \/ UNCHANGED <<inserted[b], inBin[b], emptied[b]>>
              \/ /\ inserted'[b] = inserted[b] + 1 /\ inBin'[b] = inBin[b] + 1
                 /\ emptied'[b] = emptied[b]
              \/ inserted'[b] = inserted[b] /\ inBin'[b] = 0 /\ emptied'[b] = emptied[b] + 1
    PROVE  IInv'
  <1>1. ASSUME NEW b \in Bins PROVE BinInv(b)'
    <2>1. /\ UNCHANGED <<odometers, running, scraped, last, ingested, base, excused, noise>>
          /\ UNCHANGED <<counted, again, waiting, table>>
          /\ BinInv(b) /\ Types
      BY DEF IInv, memVars, totalVars
    <2>2. ASSUME NEW s \in Samples, Earlier(b \in odometers, s, Now(b))
          PROVE  Earlier(b \in odometers, s, Now(b)')
      BY <2>1, <2>2, WorldMoves
    <2>3. ASSUME NEW s \in Samples, Known(b, s)
          PROVE  Known(b, s)'
      BY <2>1, <2>2, <2>3 DEF Known
    <2>4. /\ scraped[b] # None => Known(b, scraped[b])'
          /\ table[b] # None => Known(b, table[b])'
      BY <2>1, <2>3, BinTypes DEF BinInv
    <2>5. \A i \in 1..Len(waiting[b]) : Known(b, waiting[b][i])'
      <3>1. \A i \in 1..Len(waiting[b]) : waiting[b][i] \in Samples
        BY <2>1, BinTypes
      <3>2. QED
        BY <2>1, <2>3, <3>1 DEF BinInv
    <2>6. last[b] # None => Earlier(b \in odometers, last[b], Now(b)')
      BY <2>1, <2>2, BinTypes DEF BinInv
    <2>7. counted[b] <= inserted'[b] + again[b]
      BY <2>1, BinTypes DEF BinInv
    <2>8. NotOver(b)' /\ Exact(b)'
      BY <2>1 DEF BinInv, NotOver, Exact
    <2>9. QED
      BY <2>1, <2>4, <2>5, <2>6, <2>7, <2>8 DEF BinInv
  <1>2. QED
    BY <1>1 DEF IInv

LEMMA InsertStep ==
    ASSUME IInv, NEW c \in Bins, Insert(c)
    PROVE  IInv'
  <1>1. /\ inserted \in [Bins -> Nat] /\ inBin \in [Bins -> Nat] /\ emptied \in [Bins -> Nat]
        /\ inserted' = [inserted EXCEPT ![c] = @ + 1] /\ inBin' = [inBin EXCEPT ![c] = @ + 1]
        /\ emptied' = emptied /\ inserted[c] < MaxTotal /\ MaxTotal \in Nat
        /\ \A b \in Bins : inBin[b] <= inserted[b] /\ inserted[b] <= MaxTotal
        /\ UNCHANGED <<odometers, misreads, memVars, totalVars, waiting, table, crashes>>
    BY DeltaAssumption DEF IInv, Types, Insert, DeltaAssumption
  <1>2. ASSUME NEW b \in Bins
        PROVE  /\ inBin'[b] <= inserted'[b] /\ inserted'[b] <= MaxTotal
               /\ \/ UNCHANGED <<inserted[b], inBin[b], emptied[b]>>
                  \/ /\ inserted'[b] = inserted[b] + 1 /\ inBin'[b] = inBin[b] + 1
                     /\ emptied'[b] = emptied[b]
    BY <1>1
  <1>3. Types'
    <2>1. inserted' \in [Bins -> Nat] /\ inBin' \in [Bins -> Nat] /\ emptied' \in [Bins -> Nat]
      BY <1>1
    <2>2. \A b \in Bins : inBin'[b] <= inserted'[b] /\ inserted'[b] <= MaxTotal
      BY <1>2
    <2>3. Types /\ emptied' = emptied /\ UNCHANGED <<odometers, misreads, memVars, totalVars>>
          /\ UNCHANGED <<waiting, table, crashes>>
      BY <1>1 DEF IInv
    <2>4. ingested' = ingested /\ base' = base /\ noise' = noise /\ counted' = counted
          /\ again' = again /\ running' = running /\ excused' = excused
          /\ scraped' = scraped /\ last' = last
      BY <2>3 DEF memVars, totalVars
    <2>5. \A f \in {inserted, inBin, emptied, ingested, base, noise, counted, again}' :
             f \in [Bins -> Nat]
      BY <2>1, <2>3, <2>4 DEF Types
    <2>6. \A f \in {scraped, last, table}' : f \in [Bins -> Samples \cup {None}]
      BY <2>3, <2>4 DEF Types
    <2>7. QED
      BY <2>2, <2>3, <2>4, <2>5, <2>6 DEF Types
  <1>4. QED
    BY <1>1, <1>2, <1>3, WorldStep

LEMMA EmptyStep ==
    ASSUME IInv, NEW c \in Bins, Empty(c)
    PROVE  IInv'
  <1>1. /\ inserted \in [Bins -> Nat] /\ inBin \in [Bins -> Nat] /\ emptied \in [Bins -> Nat]
        /\ inserted' = inserted /\ inBin' = [inBin EXCEPT ![c] = 0]
        /\ emptied' = [emptied EXCEPT ![c] = @ + 1]
        /\ \A b \in Bins : inBin[b] <= inserted[b] /\ inserted[b] <= MaxTotal
        /\ UNCHANGED <<odometers, misreads, memVars, totalVars, waiting, table, crashes>>
    BY DEF IInv, Types, Empty
  <1>2. ASSUME NEW b \in Bins
        PROVE  /\ inBin'[b] <= inserted'[b] /\ inserted'[b] <= MaxTotal
               /\ \/ UNCHANGED <<inserted[b], inBin[b], emptied[b]>>
                  \/ inserted'[b] = inserted[b] /\ inBin'[b] = 0 /\ emptied'[b] = emptied[b] + 1
    BY <1>1
  <1>3. Types'
    BY <1>1, <1>2, SMTT(30) DEF IInv, Types, memVars, totalVars
  <1>4. QED
    BY <1>1, <1>2, <1>3, WorldStep
-------------------------------------------------------------------------------
(* The process and the database.                                             *)

\* A bin whose world did not move is judged as before.
LEMMA SameNow ==
    ASSUME UNCHANGED worldVars, NEW b \in Bins
    PROVE  Now(b)' = Now(b) /\ (b \in odometers' <=> b \in odometers)
  BY DEF worldVars, Now, Holds

\* A sample that is taken now is later than the others and known, however wrong it is.
LEMMA ReadNow ==
    ASSUME IInv, NEW b \in Bins, NEW s \in Samples,
           s.inserted = inserted[b], s.emptied = emptied[b],
           s.count <= Holds(b) + s.error, Holds(b) <= s.count + s.error
    PROVE  /\ Known(b, s)
           /\ last[b] # None => Earlier(b \in odometers, last[b], s)
  <1>1. /\ inserted[b] \in Nat /\ emptied[b] \in Nat /\ Holds(b) \in Nat
        /\ s.count \in Nat /\ s.error \in Nat /\ BinInv(b)
        /\ Now(b).count = Holds(b) /\ Now(b).error = 0
        /\ Now(b).inserted = inserted[b] /\ Now(b).emptied = emptied[b]
    BY BinTypes, SampleFields DEF IInv, Now, Holds
  <1>2. Earlier(b \in odometers, s, Now(b))
    BY <1>1 DEF Earlier
  <1>3. counted[b] <= s.inserted + again[b]
    BY <1>1 DEF BinInv
  <1>4. ASSUME last[b] # None PROVE Earlier(b \in odometers, last[b], s)
    <2>1. /\ last[b].count \in Nat /\ last[b].error \in Nat /\ last[b].inserted \in Nat
          /\ last[b].emptied \in Nat /\ Earlier(b \in odometers, last[b], Now(b))
      BY <1>1, <1>4, BinTypes, SampleFields DEF IInv, BinInv
    <2>2. QED
      BY <1>1, <2>1 DEF Earlier
  <1>5. QED
    BY <1>2, <1>3, <1>4 DEF Known

LEMMA ScrapeStep ==
    ASSUME IInv, NEW c \in Bins, Scrape(c)
    PROVE  IInv'
  <1>1. PICK reading \in Readings(c) :
           LET sample == [count |-> reading.count, error |-> reading.error,
                          inserted |-> inserted[c], emptied |-> emptied[c]]
           IN  /\ misreads' = IF reading.error = 0 THEN misreads ELSE misreads + 1
               /\ misreads' <= MaxMisreads
               /\ scraped' = [scraped EXCEPT ![c] = sample]
               /\ waiting' = IF Len(waiting[c]) < MaxWaiting
                             THEN [waiting EXCEPT ![c] = Append(@, sample)]
                             ELSE waiting
    BY DEF Scrape
  <1>2. /\ running
        /\ UNCHANGED <<worldVars, running, last, ingested, base, excused, noise, totalVars>>
        /\ UNCHANGED <<table, crashes>>
    BY DEF Scrape
  <1> DEFINE sample == [count |-> reading.count, error |-> reading.error,
                        inserted |-> inserted[c], emptied |-> emptied[c]]
  <1>3. /\ sample \in Samples /\ sample.inserted = inserted[c] /\ sample.emptied = emptied[c]
        /\ sample.count <= Holds(c) + sample.error /\ Holds(c) <= sample.count + sample.error
    <2>1. /\ inserted[c] \in Nat /\ emptied[c] \in Nat /\ inBin[c] \in Nat
          /\ inBin[c] <= inserted[c] /\ inserted[c] <= MaxTotal
          /\ Width \in Nat /\ MaxTotal \in Nat /\ MaxError \in Nat /\ MaxTotal + MaxError < Width
      BY BinTypes, DeltaAssumption DEF IInv, DeltaAssumption
    <2>2. Holds(c) \in Nat /\ Holds(c) <= MaxTotal
      BY <2>1 DEF Holds
    <2>3. PICK e \in 0..MaxError :
             /\ reading.error = e
             /\ \/ reading.count = Holds(c) + e
                \/ e <= Holds(c) /\ reading.count = Holds(c) - e
      BY DEF Readings
    <2>4. /\ reading.count \in 0..(Width - 1) /\ reading.error \in Nat
          /\ reading.count <= Holds(c) + reading.error
          /\ Holds(c) <= reading.count + reading.error
      BY <2>1, <2>2, <2>3
    <2>5. QED
      BY <2>1, <2>4 DEF Samples
  <1>4. Known(c, sample) /\ (last[c] # None => Earlier(c \in odometers, last[c], sample))
    <2> HIDE DEF sample
    <2>1. QED
      BY <1>3, ReadNow
  <1>5. /\ scraped' = [scraped EXCEPT ![c] = sample]
        /\ (waiting' = waiting) \/ (waiting' = [waiting EXCEPT ![c] = Append(@, sample)])
    BY <1>1
  <1>6. misreads' \in 0..MaxMisreads
    BY <1>1, DeltaAssumption DEF IInv, Types, DeltaAssumption
  <1> HIDE DEF sample
  <1>7. scraped \in [Bins -> Samples \cup {None}] /\ waiting \in [Bins -> Seq(Samples)]
    BY DEF IInv, Types
  <1>8. /\ Append(waiting[c], sample) \in Seq(Samples)
        /\ Len(Append(waiting[c], sample)) = Len(waiting[c]) + 1 /\ Len(waiting[c]) \in Nat
        /\ \A i \in 1..Len(waiting[c]) : Append(waiting[c], sample)[i] = waiting[c][i]
        /\ Append(waiting[c], sample)[Len(waiting[c]) + 1] = sample
    BY <1>3, <1>7
  <1>9. Types'
    <2>1. scraped' \in [Bins -> Samples \cup {None}] /\ waiting' \in [Bins -> Seq(Samples)]
      BY <1>3, <1>5, <1>7, <1>8
    <2>2. QED
      BY <1>2, <1>6, <2>1 DEF IInv, Types, worldVars, totalVars
  <1>10. ASSUME NEW b \in Bins PROVE BinInv(b)'
    <2>1. /\ Now(b)' = Now(b) /\ (b \in odometers' <=> b \in odometers) /\ BinInv(b)
          /\ UNCHANGED <<inserted, counted, again>>
      BY <1>2, SameNow DEF IInv, worldVars, totalVars
    <2>2. scraped'[b] = scraped[b] \/ (b = c /\ scraped'[b] = sample)
      BY <1>5, <1>7
    <2>3. scraped'[b] # None => Known(b, scraped'[b])
      BY <1>4, <2>1, <2>2 DEF BinInv
    <2>4. \A i \in 1..Len(waiting'[b]) : Known(b, waiting'[b][i])
      <3>1. CASE waiting'[b] = waiting[b]
        BY <2>1, <3>1 DEF BinInv
      <3>2. CASE b = c /\ waiting'[b] = Append(waiting[b], sample)
        <4>1. ASSUME NEW i \in 1..Len(waiting'[b])
              PROVE  Known(b, waiting'[b][i])
          <5>1. CASE i \in 1..Len(waiting[b])
            BY <1>8, <2>1, <3>2, <5>1 DEF BinInv
          <5>2. CASE i = Len(waiting[b]) + 1
            BY <1>4, <1>8, <3>2, <5>2
          <5>3. QED
            BY <1>8, <3>2, <4>1, <5>1, <5>2
        <4>2. QED
          BY <4>1
      <3>3. QED
        BY <1>5, <1>7, <3>1, <3>2
    <2>5. last[b] # None /\ scraped'[b] # None => Earlier(b \in odometers, last[b], scraped'[b])
      BY <1>4, <2>1, <2>2 DEF BinInv
    <2>6. NotOver(b)' /\ Exact(b)'
      BY <1>2, <2>1 DEF BinInv, NotOver, Exact
    <2>7. QED
      BY <1>2, <2>1, <2>3, <2>4, <2>5, <2>6 DEF BinInv, Known
  <1>11. QED
    BY <1>9, <1>10 DEF IInv

LEMMA CountStep ==
    ASSUME IInv, CountDeltas
    PROVE  IInv'
  <1>1. /\ running
        /\ ingested' = [b \in Bins |->
                          IF b \in Scraped THEN ingested[b] + Delta(b, last[b], scraped[b].count)
                          ELSE ingested[b]]
        /\ last' = [b \in Bins |-> LastSample(b)]
        /\ base' = [b \in Bins |-> IF b \in Scraped /\ last[b] = None THEN scraped[b].inserted
                                   ELSE base[b]]
        /\ excused' = [b \in Bins |->
                          excused[b] \/ (b \in Scraped /\ (LeavesOut(b) \/ Misread(b) > 0))]
        /\ noise' = [b \in Bins |-> IF b \in Scraped THEN noise[b] + Misread(b) ELSE noise[b]]
        /\ scraped' = [b \in Bins |-> None]
        /\ UNCHANGED <<worldVars, misreads, running, totalVars, waiting, table, crashes>>
    BY DEF CountDeltas
  <1>2. ASSUME NEW b \in Bins
        PROVE  /\ ingested'[b] \in Nat /\ base'[b] \in Nat /\ noise'[b] \in Nat
               /\ last'[b] \in Samples \cup {None}
               /\ BinInv(b)'
    <2>1. /\ Now(b)' = Now(b) /\ (b \in odometers' <=> b \in odometers) /\ BinInv(b)
          /\ inserted' = inserted /\ table' = table /\ waiting' = waiting /\ scraped'[b] = None
          /\ UNCHANGED <<counted, again>>
      BY <1>1, SameNow DEF IInv, worldVars, totalVars
    <2>2. /\ ingested[b] \in Nat /\ base[b] \in Nat /\ excused[b] \in BOOLEAN
          /\ noise[b] \in Nat /\ counted[b] \in Nat /\ again[b] \in Nat
          /\ inserted[b] \in Nat /\ Now(b).inserted = inserted[b]
          /\ last[b] # None => last[b] \in Samples
          /\ scraped[b] # None => scraped[b] \in Samples
      BY BinTypes DEF IInv
    <2>3. /\ (table[b] # None => Known(b, table[b]))'
          /\ (\A i \in 1..Len(waiting[b]) : Known(b, waiting[b][i]))'
          /\ counted'[b] <= inserted'[b] + again'[b]
      BY <2>1 DEF BinInv, Known
    <2>4. CASE b \notin Scraped
      <3>1. /\ last'[b] = last[b] /\ ingested'[b] = ingested[b] /\ base'[b] = base[b]
            /\ excused'[b] = excused[b] /\ noise'[b] = noise[b]
        BY <1>1, <2>2, <2>4 DEF LastSample
      <3>2. NotOver(b)' /\ Exact(b)'
        BY <2>1, <3>1 DEF BinInv, NotOver, Exact
      <3>3. QED
        BY <1>1, <2>1, <2>2, <2>3, <3>1, <3>2 DEF BinInv
    <2>5. CASE b \in Scraped
      <3>1. /\ scraped[b] # None /\ scraped[b] \in Samples /\ last'[b] = scraped[b]
            /\ scraped[b].inserted \in Nat /\ scraped[b].error \in Nat
            /\ Earlier(b \in odometers, scraped[b], Now(b))
            /\ counted[b] <= scraped[b].inserted + again[b]
        BY <1>1, <2>1, <2>2, <2>5, SampleFields DEF Scraped, LastSample, BinInv, Known
      <3>2. /\ ingested'[b] = ingested[b] + Delta(b, last[b], scraped[b].count)
            /\ base'[b] = IF last[b] = None THEN scraped[b].inserted ELSE base[b]
            /\ excused'[b] = (excused[b] \/ LeavesOut(b) \/ Misread(b) > 0)
            /\ noise'[b] = noise[b] + Misread(b)
        BY <1>1, <2>5
      <3>3. CASE last[b] = None
        <4>1. ingested[b] = 0 /\ Delta(b, last[b], scraped[b].count) = 0 /\ Misread(b) = 0
          BY <2>1, <2>2, <3>3 DEF BinInv, NotOver, Delta, Misread
        <4>2. ingested'[b] = 0 /\ base'[b] = scraped[b].inserted /\ noise'[b] = noise[b]
          BY <2>2, <3>2, <3>3, <4>1
        <4>3. NotOver(b)' /\ Exact(b)'
          BY <2>2, <3>1, <4>2 DEF NotOver, Exact
        <4>4. QED
          BY <1>1, <2>1, <2>2, <2>3, <3>1, <4>2, <4>3 DEF BinInv
      <3>4. CASE last[b] # None
        <4>1. /\ last[b] \in Samples /\ last[b].inserted \in Nat /\ last[b].error \in Nat
              /\ Earlier(b \in odometers, last[b], scraped[b])
              /\ base[b] <= last[b].inserted /\ counted[b] <= base[b] + again[b]
          BY <2>1, <2>2, <3>1, <3>4, SampleFields DEF BinInv
        <4>2. Misread(b) = last[b].error + scraped[b].error /\ Misread(b) \in Nat
          BY <3>1, <3>4, <4>1 DEF Misread
        <4>3. PICK d : d = Delta(b, last[b], scraped[b].count)
          OBVIOUS
        <4>4. /\ d \in Nat /\ d <= scraped[b].inserted - last[b].inserted + Misread(b)
              /\ ~(LeavesOut(b) \/ Misread(b) > 0) => d = scraped[b].inserted - last[b].inserted
          <5>1. /\ d \in Nat
                /\ d <= scraped[b].inserted - last[b].inserted + last[b].error + scraped[b].error
            BY <3>1, <3>4, <4>1, <4>3, DeltaBounds
          <5>2. ~(LeavesOut(b) \/ Misread(b) > 0) => d = scraped[b].inserted - last[b].inserted
            BY <3>1, <3>4, <4>1, <4>2, <4>3, DeltaBounds DEF LeavesOut
          <5>3. QED
            BY <3>1, <4>1, <4>2, <5>1, <5>2
        <4>5. /\ ingested'[b] = ingested[b] + d /\ base'[b] = base[b]
              /\ excused'[b] = (excused[b] \/ LeavesOut(b) \/ Misread(b) > 0)
              /\ noise'[b] = noise[b] + Misread(b)
          BY <3>2, <3>4, <4>3
        <4>6. /\ ingested[b] <= last[b].inserted - base[b] + noise[b]
              /\ ~excused[b] => ingested[b] = last[b].inserted - base[b]
          BY <2>1, <3>4 DEF BinInv, NotOver, Exact
        <4>7. ingested'[b] <= scraped[b].inserted - base[b] + noise'[b]
          BY <2>2, <3>1, <4>1, <4>2, <4>4, <4>5, <4>6
        <4>8. ~excused'[b] => ingested'[b] = scraped[b].inserted - base[b]
          <5>1. ~excused'[b] => ~excused[b] /\ ~(LeavesOut(b) \/ Misread(b) > 0)
            BY <4>5, Zenon
          <5>2. ~excused'[b] => /\ ingested[b] = last[b].inserted - base[b]
                                /\ d = scraped[b].inserted - last[b].inserted
            BY <4>4, <4>6, <5>1, Zenon
          <5>3. QED
            BY <2>2, <3>1, <4>1, <4>4, <4>5, <5>2
        <4>9. NotOver(b)' /\ Exact(b)'
          BY <3>1, <4>5, <4>7, <4>8 DEF NotOver, Exact
        <4>10. ingested'[b] \in Nat /\ base'[b] \in Nat /\ noise'[b] \in Nat
          BY <2>2, <4>2, <4>4, <4>5
        <4>11. base'[b] <= last'[b].inserted
          BY <2>2, <3>1, <4>1, <4>5 DEF Earlier
        <4>12. QED
          BY <1>1, <2>1, <2>3, <3>1, <4>1, <4>5, <4>9, <4>10, <4>11 DEF BinInv
      <3>5. QED
        BY <3>3, <3>4
    <2>6. QED
      BY <2>4, <2>5
  <1>3. Types'
    <2>1. /\ ingested' \in [Bins -> Nat] /\ base' \in [Bins -> Nat] /\ noise' \in [Bins -> Nat]
      BY <1>1, <1>2
    <2>2. last' \in [Bins -> Samples \cup {None}] /\ scraped' \in [Bins -> Samples \cup {None}]
      BY <1>1, <1>2
    <2>3. excused' \in [Bins -> BOOLEAN]
      BY <1>1 DEF IInv, Types
    <2>4. QED
      BY <1>1, <2>1, <2>2, <2>3 DEF IInv, Types, worldVars, totalVars
  <1>4. QED
    BY <1>2, <1>3 DEF IInv

LEMMA InsertBinsStep ==
    ASSUME IInv, NEW c \in Bins, InsertBins(c)
    PROVE  IInv'
  <1>1. PICK k \in 1..Len(waiting[c]) :
           /\ table' = [table EXCEPT ![c] = waiting[c][k]]
           /\ waiting' = [waiting EXCEPT ![c] = SubSeq(@, k + 1, Len(@))]
    BY DEF InsertBins
  <1>2. UNCHANGED <<worldVars, misreads, memVars, totalVars, crashes>>
    BY DEF InsertBins
  <1>3. /\ waiting \in [Bins -> Seq(Samples)] /\ table \in [Bins -> Samples \cup {None}]
        /\ waiting[c] \in Seq(Samples)
    BY DEF IInv, Types
  <1>4. PICK rest : rest = SubSeq(waiting[c], k + 1, Len(waiting[c]))
    OBVIOUS
  <1>5. /\ waiting[c][k] \in Samples /\ rest \in Seq(Samples)
        /\ \A i \in 1..Len(rest) : i + k \in 1..Len(waiting[c]) /\ rest[i] = waiting[c][i + k]
    <2>1. Len(waiting[c]) \in Nat /\ k \in 1..Len(waiting[c])
      BY <1>3
    <2>2. rest \in Seq(Samples) /\ Len(rest) = Len(waiting[c]) - k
      BY <1>3, <1>4, <2>1
    <2>3. ASSUME NEW i \in 1..Len(rest)
          PROVE  i + k \in 1..Len(waiting[c]) /\ rest[i] = waiting[c][i + k]
      BY <1>3, <1>4, <2>1, <2>2
    <2>4. QED
      BY <1>3, <2>2, <2>3
  <1>6. Types'
    BY <1>1, <1>2, <1>3, <1>4, <1>5 DEF IInv, Types, worldVars, memVars, totalVars
  <1>7. ASSUME NEW b \in Bins PROVE BinInv(b)'
    <2>1. /\ Now(b)' = Now(b) /\ (b \in odometers' <=> b \in odometers) /\ BinInv(b)
          /\ UNCHANGED <<inserted, counted, again>>
          /\ UNCHANGED <<running, scraped, last, ingested, base, excused, noise>>
      BY <1>2, SameNow DEF IInv, worldVars, memVars, totalVars
    <2>2. table'[b] # None => Known(b, table'[b])
      BY <1>1, <1>3, <2>1 DEF BinInv
    <2>3. \A i \in 1..Len(waiting'[b]) : Known(b, waiting'[b][i])
      <3>1. CASE b = c
        <4>1. waiting'[b] = rest
          BY <1>1, <1>3, <1>4, <3>1
        <4>2. QED
          BY <1>5, <2>1, <3>1, <4>1 DEF BinInv
      <3>2. CASE b # c
        BY <1>1, <1>3, <2>1, <3>2 DEF BinInv
      <3>3. QED
        BY <3>1, <3>2
    <2>4. NotOver(b)' /\ Exact(b)'
      BY <2>1 DEF BinInv, NotOver, Exact
    <2>5. QED
      BY <2>1, <2>2, <2>3, <2>4 DEF BinInv, Known
  <1>8. QED
    BY <1>6, <1>7 DEF IInv

\* What a crash makes countable again is what the process counted since the snapshot in the
\* database: the next process may start from it.
LEMMA UnsavedBounds ==
    ASSUME IInv, NEW b \in Bins
    PROVE  /\ Unsaved(b) \in Nat
           /\ counted[b] + ingested[b] <= inserted[b] + again[b] + Unsaved(b) + noise[b]
           /\ table[b] # None =>
                 counted[b] + ingested[b] <= table[b].inserted + again[b] + Unsaved(b) + noise[b]
  <1>1. /\ counted[b] \in Nat /\ ingested[b] \in Nat /\ again[b] \in Nat /\ noise[b] \in Nat
        /\ base[b] \in Nat /\ inserted[b] \in Nat /\ BinInv(b) /\ Now(b).inserted = inserted[b]
        /\ table[b] # None => table[b].inserted \in Nat
        /\ last[b] # None => last[b].inserted \in Nat
    BY BinTypes, SampleFields DEF IInv
  <1>2. table[b] # None => counted[b] <= table[b].inserted + again[b]
    BY <1>1 DEF BinInv, Known
  <1>3. CASE last[b] = None
    <2>1. ingested[b] = 0 /\ Unsaved(b) = 0
      BY <1>1, <1>3 DEF BinInv, NotOver, Unsaved
    <2>2. counted[b] <= inserted[b] + again[b]
      BY <1>1 DEF BinInv
    <2>3. QED
      BY <1>1, <1>2, <2>1, <2>2
  <1>4. CASE last[b] # None
    <2>1. /\ ingested[b] <= last[b].inserted - base[b] + noise[b]
          /\ counted[b] <= base[b] + again[b] /\ last[b].inserted <= inserted[b]
          /\ base[b] <= last[b].inserted
      BY <1>1, <1>4 DEF BinInv, NotOver, Earlier
    <2>2. CASE table[b] = None
      <3>1. Unsaved(b) = 0
        BY <2>2 DEF Unsaved
      <3>2. QED
        BY <1>1, <1>4, <2>1, <2>2, <3>1
    <2>3. CASE table[b] # None
      <3>1. /\ Unsaved(b) \in Nat
            /\ \/ table[b].inserted <= base[b] /\ Unsaved(b) >= last[b].inserted - base[b]
               \/ Unsaved(b) >= last[b].inserted - table[b].inserted
        BY <1>1, <1>4, <2>3 DEF Unsaved
      <3>2. QED
        BY <1>1, <1>2, <1>4, <2>1, <2>3, <3>1
    <2>4. QED
      BY <2>2, <2>3
  <1>5. QED
    BY <1>3, <1>4

LEMMA CrashStep ==
    ASSUME IInv, Crash
    PROVE  IInv'
  <1>1. /\ crashes < MaxCrashes /\ crashes' = crashes + 1 /\ running' = FALSE
        /\ scraped' = [b \in Bins |-> None] /\ last' = [b \in Bins |-> None]
        /\ ingested' = [b \in Bins |-> 0] /\ base' = [b \in Bins |-> 0]
        /\ excused' = [b \in Bins |-> FALSE] /\ noise' = [b \in Bins |-> 0]
        /\ counted' = [b \in Bins |-> counted[b] + ingested[b]]
        /\ again' = [b \in Bins |-> again[b] + Unsaved(b) + noise[b]]
        /\ waiting' = [b \in Bins |-> <<>>]
        /\ UNCHANGED <<worldVars, misreads, table>>
    BY DEF Crash
  <1>2. <<>> \in Seq(Samples) /\ Len(<<>>) = 0 /\ crashes' \in 0..MaxCrashes
    BY <1>1, DeltaAssumption DEF IInv, Types, DeltaAssumption
  <1>3. ASSUME NEW b \in Bins
        PROVE  /\ counted'[b] = counted[b] + ingested[b] /\ counted'[b] \in Nat
               /\ again'[b] = again[b] + Unsaved(b) + noise[b] /\ again'[b] \in Nat
    BY <1>1, BinTypes, UnsavedBounds DEF IInv
  <1>4. Types'
    <2>1. /\ scraped' \in [Bins -> Samples \cup {None}] /\ last' \in [Bins -> Samples \cup {None}]
          /\ ingested' \in [Bins -> Nat] /\ base' \in [Bins -> Nat] /\ noise' \in [Bins -> Nat]
          /\ excused' \in [Bins -> BOOLEAN] /\ waiting' \in [Bins -> Seq(Samples)]
      BY <1>1, <1>2
    <2>2. counted' \in [Bins -> Nat] /\ again' \in [Bins -> Nat]
      BY <1>1, <1>3
    <2>3. running' \in BOOLEAN
      BY <1>1
    <2>4. QED
      BY <1>1, <1>2, <2>1, <2>2, <2>3 DEF IInv, Types, worldVars
  <1>5. ASSUME NEW b \in Bins PROVE BinInv(b)'
    <2>1. /\ Now(b)' = Now(b) /\ (b \in odometers' <=> b \in odometers) /\ BinInv(b)
          /\ inserted' = inserted /\ inserted[b] \in Nat
          /\ counted[b] \in Nat /\ ingested[b] \in Nat /\ again[b] \in Nat /\ noise[b] \in Nat
          /\ Unsaved(b) \in Nat
          /\ table[b] # None => table[b].inserted \in Nat
      BY <1>1, SameNow, BinTypes, SampleFields, UnsavedBounds DEF IInv, worldVars
    <2>2. counted'[b] <= inserted'[b] + again'[b]
      BY <1>3, <2>1, UnsavedBounds
    <2>3. (table[b] # None => Known(b, table[b]))'
      <3>1. SUFFICES ASSUME table[b] # None PROVE Known(b, table[b])'
        BY <1>1
      <3>2. counted'[b] <= table[b].inserted + again'[b]
        BY <1>3, <2>1, <3>1, UnsavedBounds
      <3>3. Earlier(b \in odometers, table[b], Now(b))
        BY <2>1, <3>1 DEF BinInv, Known
      <3>4. QED
        BY <1>1, <2>1, <3>2, <3>3 DEF Known
    <2>4. NotOver(b)' /\ Exact(b)'
      BY <1>1 DEF NotOver, Exact
    <2>5. QED
      BY <1>1, <1>2, <2>1, <2>2, <2>3, <2>4 DEF BinInv
  <1>6. QED
    BY <1>4, <1>5 DEF IInv

LEMMA HydrateStep ==
    ASSUME IInv, Hydrate
    PROVE  IInv'
  <1>1. /\ ~running /\ running' = TRUE
        /\ UNCHANGED <<worldVars, misreads, scraped, ingested, excused, noise, totalVars>>
        /\ UNCHANGED <<waiting, table, crashes>>
        /\ \/ /\ last' = table
              /\ base' = [b \in Bins |-> IF table[b] = None THEN 0 ELSE table[b].inserted]
           \/ UNCHANGED <<last, base>>
    BY DEF Hydrate
  <1>2. ASSUME NEW b \in Bins
        PROVE  /\ Now(b)' = Now(b) /\ (b \in odometers' <=> b \in odometers) /\ BinInv(b)
               /\ UNCHANGED <<inserted, counted, again>>
               /\ last[b] = None /\ scraped[b] = None /\ ingested[b] = 0 /\ noise[b] \in Nat
               /\ table[b] # None => table[b] \in Samples /\ table[b].inserted \in Nat
    <2>1. BinInv(b) /\ ingested[b] \in Nat /\ noise[b] \in Nat
      BY BinTypes DEF IInv
    <2>2. last[b] = None /\ scraped[b] = None /\ ingested[b] = 0
      BY <1>1, <2>1 DEF BinInv, NotOver
    <2>3. QED
      BY <1>1, <2>1, <2>2, SameNow, BinTypes, SampleFields DEF IInv, worldVars, totalVars
  <1>3. CASE UNCHANGED <<last, base>>
    <2>1. ASSUME NEW b \in Bins PROVE BinInv(b)'
      <3>1. NotOver(b)' /\ Exact(b)'
        BY <1>1, <1>2, <1>3 DEF BinInv, NotOver, Exact
      <3>2. QED
        BY <1>1, <1>2, <1>3, <3>1 DEF BinInv, Known
    <2>2. QED
      BY <1>1, <1>3, <2>1 DEF IInv, Types, worldVars, totalVars
  <1>4. CASE /\ last' = table
             /\ base' = [b \in Bins |-> IF table[b] = None THEN 0 ELSE table[b].inserted]
    <2>1. ASSUME NEW b \in Bins PROVE BinInv(b)' /\ base'[b] \in Nat
      <3>1. base'[b] = IF table[b] = None THEN 0 ELSE table[b].inserted
        BY <1>4
      <3>2. NotOver(b)'
        BY <1>1, <1>2, <1>4, <3>1 DEF NotOver
      <3>3. Exact(b)'
        BY <1>1, <1>2, <1>4, <3>1 DEF Exact
      <3>4. QED
        BY <1>1, <1>2, <1>4, <3>1, <3>2, <3>3 DEF BinInv, Known
    <2>2. base' \in [Bins -> Nat]
      BY <1>4, <2>1
    <2>3. Types'
      BY <1>1, <1>4, <2>2 DEF IInv, Types, worldVars, totalVars
    <2>4. QED
      BY <2>1, <2>3 DEF IInv
  <1>5. QED
    BY <1>1, <1>3, <1>4
-------------------------------------------------------------------------------
(* The theorems.                                                             *)

LEMMA InvStep == IInv /\ [Next]_vars => IInv'
  <1> SUFFICES ASSUME IInv, [Next]_vars PROVE IInv'
    OBVIOUS
  <1>1. ASSUME NEW b \in Bins, Insert(b) \/ Empty(b) \/ Scrape(b) \/ InsertBins(b) PROVE IInv'
    BY <1>1, InsertStep, EmptyStep, ScrapeStep, InsertBinsStep
  <1>2. CASE CountDeltas \/ Crash \/ Hydrate
    BY <1>2, CountStep, CrashStep, HydrateStep
  <1>3. CASE UNCHANGED vars
    <2>1. /\ UNCHANGED <<worldVars, misreads, totalVars, waiting, table, crashes>>
          /\ UNCHANGED <<running, scraped, last, ingested, base, excused, noise>>
      BY <1>3 DEF vars, memVars
    <2>2. ASSUME NEW b \in Bins PROVE BinInv(b)'
      <3>1. /\ Now(b)' = Now(b) /\ (b \in odometers' <=> b \in odometers) /\ BinInv(b)
            /\ UNCHANGED <<inserted, counted, again>>
        BY <2>1, SameNow DEF IInv, worldVars, totalVars
      <3>2. NotOver(b)' /\ Exact(b)'
        BY <2>1, <3>1 DEF BinInv, NotOver, Exact
      <3>3. QED
        BY <2>1, <3>1, <3>2 DEF BinInv, Known
    <2>3. QED
      BY <2>1, <2>2 DEF IInv, Types, worldVars, totalVars
  <1>4. QED
    BY <1>1, <1>2, <1>3 DEF Next

LEMMA SpecInv == Spec => []IInv
  BY InvInit, InvStep, PTL DEF Spec

\* A process never counts a container twice, nor one inserted before the count it
\* started from, for any cap, any halving threshold and any width that the totals fit;
\* wrong readings add no more than they are wrong.
THEOREM NeverOvercountsCorrect == Spec => []NeverOvercounts
  <1>1. IInv => NeverOvercounts
    BY DEF IInv, BinInv, NotOver, NeverOvercounts
  <1>2. QED
    BY <1>1, SpecInv, PTL

\* Over any number of crashes, the processes together count no more than was inserted, but
\* for what a crash lost before it was stored and for wrong readings.
THEOREM NeverRecountsCorrect == Spec => []NeverRecounts
  <1>1. IInv => NeverRecounts
    <2>1. SUFFICES ASSUME IInv, NEW b \in Bins
                   PROVE  counted[b] + ingested[b] <=
                             again[b] + noise[b] + (IF last[b] = None THEN inserted[b]
                                                    ELSE last[b].inserted)
      BY DEF NeverRecounts
    <2>2. /\ counted[b] \in Nat /\ ingested[b] \in Nat /\ again[b] \in Nat /\ noise[b] \in Nat
          /\ base[b] \in Nat /\ inserted[b] \in Nat /\ BinInv(b)
          /\ last[b] # None => last[b].inserted \in Nat
      BY <2>1, BinTypes, SampleFields DEF IInv
    <2>3. CASE last[b] = None
      BY <2>2, <2>3 DEF BinInv, NotOver
    <2>4. CASE last[b] # None
      BY <2>2, <2>4, SMTT(30) DEF BinInv, NotOver
    <2>5. QED
      BY <2>3, <2>4
  <1>2. QED
    BY <1>1, SpecInv, PTL

\* What was never left out by design or misread has been counted in full.
THEOREM CountsAllCorrect == Spec => []CountsAll
  <1>1. IInv => CountsAll
    BY DEF IInv, BinInv, Exact, CountsAll
  <1>2. QED
    BY <1>1, SpecInv, PTL

\* Types; the counter of a bin that was never misread stays below the width of a count.
THEOREM TypeCorrect == Spec => []TypeOK
  <1>1. IInv => TypeOK
    <2>1. SUFFICES ASSUME IInv PROVE TypeOK
      OBVIOUS
    <2>2. ASSUME NEW b \in Bins, noise[b] = 0 PROVE ingested[b] < Width
      <3>1. /\ ingested[b] \in Nat /\ base[b] \in Nat /\ inserted[b] \in Nat
            /\ inserted[b] <= MaxTotal /\ NotOver(b) /\ Now(b).inserted = inserted[b]
            /\ last[b] # None => /\ last[b].inserted \in Nat
                                 /\ last[b].inserted <= inserted[b]
        BY <2>1, BinTypes, SampleFields DEF IInv, BinInv, Earlier
      <3>2. MaxTotal \in Nat /\ Width \in Nat /\ MaxTotal < Width /\ 0 < Width
        BY DeltaAssumption DEF DeltaAssumption
      <3>3. CASE last[b] = None
        BY <3>1, <3>2, <3>3 DEF NotOver
      <3>4. CASE last[b] # None
        BY <2>2, <3>1, <3>2, <3>4 DEF NotOver
      <3>5. QED
        BY <3>3, <3>4
    <2>3. QED
      BY <2>1, <2>2 DEF IInv, Types, TypeOK
  <1>2. QED
    BY <1>1, SpecInv, PTL
===============================================================================

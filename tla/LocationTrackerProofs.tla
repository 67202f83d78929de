------------------------ MODULE LocationTrackerProofs ------------------------
(* Theorems about LocationTracker, for any machines, listings and bounds: the  *)
(* database follows memory through any polls, losses, repetitions and crashes. *)
EXTENDS LocationTracker, FiniteSetTheorems, TLAPS

\* A nonempty set of naturals below a bound has a greatest member.
LEMMA GreatestOf ==
    ASSUME NEW n \in Nat, NEW T \in SUBSET (0..n), T # {}
    PROVE  \E x \in T : \A y \in T : y <= x
  <1> DEFINE U == {0..(n - t) : t \in T}
  <1>1. \A t \in T : t \in Nat /\ n - t \in Nat
    OBVIOUS
  <1>2. \A t \in T : IsFiniteSet(0..(n - t)) /\ 0..(n - t) \in SUBSET Nat
    <2>1. \A t \in T : 0 \in Int /\ n - t \in Int
      BY <1>1
    <2>2. \A t \in T : IsFiniteSet(0..(n - t))
      BY <2>1, FS_Interval
    <2>3. \A t \in T : 0..(n - t) \in SUBSET Nat
      BY <1>1
    <2>4. QED
      BY <2>2, <2>3
  <1>3. U \subseteq FiniteSubsetsOf(Nat) /\ U # {}
    BY <1>2 DEF FiniteSubsetsOf
  <1>4. IsWellFoundedOn(StrictSubsetOrdering(Nat), FiniteSubsetsOf(Nat))
    BY FS_StrictSubsetOrderingWellFounded
  <1>5. PICK u \in U : \A v \in U : ~(<<v, u>> \in StrictSubsetOrdering(Nat))
    <2> HIDE DEF U
    <2>1. QED
      BY <1>3, <1>4, WFMin
  <1>6. PICK x \in T : u = 0..(n - x)
    OBVIOUS
  <1>7. ASSUME NEW y \in T PROVE y <= x
    <2>1. SUFFICES ASSUME x < y PROVE FALSE
      BY <1>1
    <2>2. /\ 0..(n - y) \subseteq 0..(n - x) /\ n - x \in 0..(n - x) /\ ~(n - x \in 0..(n - y))
          /\ 0..(n - y) \subseteq Nat /\ 0..(n - x) \subseteq Nat
      BY <1>1, <2>1
    <2>3. <<0..(n - y), u>> \in StrictSubsetOrdering(Nat)
      BY <1>6, <2>2 DEF StrictSubsetOrdering
    <2>4. QED
      BY <1>5, <2>3
  <1>8. QED
    BY <1>7

\* The values of a sequence, and of two in a row.
LEMMA RangeOfSeq ==
    ASSUME NEW S, NEW s \in Seq(S)
    PROVE  /\ Range(s) = {s[i] : i \in 1..Len(s)} /\ Range(s) \subseteq S
           /\ Range(s) = {} <=> s = <<>>
  <1>1. DOMAIN s = 1..Len(s) /\ Len(s) \in Nat
    OBVIOUS
  <1>2. Range(s) = {s[i] : i \in 1..Len(s)} /\ Range(s) \subseteq S
    BY <1>1 DEF Range
  <1>3. CASE s = <<>>
    <2>1. 1..Len(s) = {}
      BY <1>3
    <2>2. QED
      BY <1>2, <1>3, <2>1
  <1>4. CASE s # <<>>
    <2>1. 1 \in 1..Len(s)
      BY <1>4
    <2>2. QED
      BY <1>2, <1>4, <2>1
  <1>5. QED
    BY <1>2, <1>3, <1>4

LEMMA RangeConcat ==
    ASSUME NEW S, NEW s \in Seq(S), NEW t \in Seq(S)
    PROVE  s \o t \in Seq(S) /\ Range(s \o t) = Range(s) \cup Range(t)
  <1> DEFINE u == s \o t
  <1>1. /\ u \in Seq(S) /\ Len(s) \in Nat /\ Len(t) \in Nat /\ Len(u) = Len(s) + Len(t)
        /\ \A i \in 1..Len(s) : u[i] = s[i]
        /\ \A i \in 1..Len(t) : u[Len(s) + i] = t[i]
    OBVIOUS
  <1>2. /\ Range(u) = {u[i] : i \in 1..Len(u)} /\ Range(s) = {s[i] : i \in 1..Len(s)}
        /\ Range(t) = {t[i] : i \in 1..Len(t)}
    BY <1>1, RangeOfSeq
  <1> HIDE DEF u
  <1>3. ASSUME NEW i \in 1..Len(u) PROVE u[i] \in Range(s) \cup Range(t)
    <2>1. CASE i <= Len(s)
      BY <1>1, <1>2, <2>1
    <2>2. CASE i > Len(s)
      <3>1. i - Len(s) \in 1..Len(t) /\ Len(s) + (i - Len(s)) = i
        BY <1>1, <2>2
      <3>2. QED
        BY <1>1, <1>2, <3>1
    <2>3. QED
      BY <1>1, <2>1, <2>2
  <1>4. \A i \in 1..Len(s) : i \in 1..Len(u)
    BY <1>1
  <1>5. \A i \in 1..Len(t) : Len(s) + i \in 1..Len(u)
    BY <1>1
  <1>6. Range(s) \cup Range(t) \subseteq Range(u)
    BY <1>1, <1>2, <1>4, <1>5
  <1>7. Range(u) = Range(s) \cup Range(t)
    BY <1>2, <1>3, <1>6
  <1>8. QED
    BY <1>1, <1>7 DEF u

\* The rest of a sequence, and a sequence with one more element.
LEMMA TailElements ==
    ASSUME NEW S, NEW s \in Seq(S), s # <<>>
    PROVE  /\ Head(s) \in S /\ Tail(s) \in Seq(S)
           /\ Range(s) = Range(Tail(s)) \cup {Head(s)}
  <1>1. /\ Head(s) \in S /\ Head(s) = s[1] /\ Tail(s) \in Seq(S)
        /\ Len(s) \in Nat \ {0} /\ Len(Tail(s)) = Len(s) - 1
        /\ \A i \in 1..Len(Tail(s)) : Tail(s)[i] = s[i + 1]
    OBVIOUS
  <1> DEFINE t == Tail(s)
  <1>2. Range(t) = {t[i] : i \in 1..Len(t)} /\ Range(s) = {s[i] : i \in 1..Len(s)}
    BY <1>1, RangeOfSeq
  <1> HIDE DEF t
  <1>3. ASSUME NEW i \in 1..Len(s) PROVE s[i] \in Range(t) \cup {Head(s)}
    <2>1. CASE i = 1
      BY <1>1, <2>1
    <2>2. CASE i # 1
      <3>1. i - 1 \in 1..Len(t) /\ (i - 1) + 1 = i
        BY <1>1, <2>2 DEF t
      <3>2. QED
        BY <1>1, <1>2, <3>1 DEF t
    <2>3. QED
      BY <2>1, <2>2
  <1>4. 1 \in 1..Len(s) /\ \A i \in 1..Len(t) : i + 1 \in 1..Len(s) /\ t[i] = s[i + 1]
    BY <1>1 DEF t
  <1>5. Range(t) \cup {Head(s)} \subseteq Range(s)
    BY <1>1, <1>2, <1>4
  <1>6. QED
    BY <1>1, <1>2, <1>3, <1>5 DEF t

LEMMA AppendElements ==
    ASSUME NEW S, NEW s \in Seq(S), NEW e \in S
    PROVE  Append(s, e) \in Seq(S) /\ Range(Append(s, e)) = Range(s) \cup {e}
  <1> DEFINE t == Append(s, e)
  <1>1. /\ t \in Seq(S) /\ Len(s) \in Nat /\ Len(t) = Len(s) + 1
        /\ \A i \in 1..Len(s) : t[i] = s[i]
        /\ t[Len(s) + 1] = e
    OBVIOUS
  <1>2. Range(t) = {t[i] : i \in 1..Len(t)} /\ Range(s) = {s[i] : i \in 1..Len(s)}
    BY <1>1, RangeOfSeq
  <1> HIDE DEF t
  <1>3. 1..Len(t) = 1..Len(s) \cup {Len(s) + 1}
    BY <1>1
  <1>4. QED
    BY <1>1, <1>2, <1>3 DEF t

\* The first part of a sequence and the rest of it.
LEMMA SplitElements ==
    ASSUME NEW S, NEW s \in Seq(S), NEW k \in 1..Len(s)
    PROVE  /\ SubSeq(s, 1, k) \in Seq(S) /\ SubSeq(s, k + 1, Len(s)) \in Seq(S)
           /\ Range(s) = Range(SubSeq(s, 1, k)) \cup Range(SubSeq(s, k + 1, Len(s)))
           /\ Len(SubSeq(s, 1, k)) = k
  <1> DEFINE t == SubSeq(s, 1, k)
             u == SubSeq(s, k + 1, Len(s))
  <1>1. Len(s) \in Nat /\ k \in Nat /\ k <= Len(s)
    OBVIOUS
  <1>2. /\ t \in Seq(S) /\ Len(t) = k
        /\ \A i \in 1..k : t[i] = s[i]
    BY <1>1
  <1>3. /\ u \in Seq(S) /\ Len(u) = Len(s) - k
        /\ \A i \in 1..(Len(s) - k) : u[i] = s[k + i]
    BY <1>1
  <1> HIDE DEF t, u
  <1>4. /\ Range(t) = {t[i] : i \in 1..Len(t)} /\ Range(s) = {s[i] : i \in 1..Len(s)}
        /\ Range(u) = {u[i] : i \in 1..Len(u)}
    BY <1>2, <1>3, RangeOfSeq
  <1>5. ASSUME NEW i \in 1..Len(s) PROVE s[i] \in Range(t) \cup Range(u)
    <2>1. CASE i <= k
      BY <1>1, <1>2, <1>4, <2>1
    <2>2. CASE i > k
      <3>1. i - k \in 1..(Len(s) - k) /\ k + (i - k) = i
        BY <1>1, <2>2
      <3>2. QED
        BY <1>3, <1>4, <3>1
    <2>3. QED
      BY <1>1, <2>1, <2>2
  <1>6. \A i \in 1..k : i \in 1..Len(s)
    BY <1>1
  <1>7. \A i \in 1..(Len(s) - k) : k + i \in 1..Len(s)
    BY <1>1
  <1>8. Range(t) \cup Range(u) \subseteq Range(s)
    BY <1>2, <1>3, <1>4, <1>6, <1>7
  <1>9. QED
    BY <1>2, <1>3, <1>4, <1>5, <1>8 DEF t, u

LEMMA SplitConcat ==
    ASSUME NEW S, NEW s \in Seq(S), NEW k \in 1..Len(s)
    PROVE  SubSeq(s, 1, k) \o SubSeq(s, k + 1, Len(s)) = s
  <1> DEFINE a == SubSeq(s, 1, k)
             b == SubSeq(s, k + 1, Len(s))
  <1>1. Len(s) \in Nat /\ k \in Nat /\ k <= Len(s)
    OBVIOUS
  <1>2. a \in Seq(S) /\ Len(a) = k /\ \A i \in 1..k : a[i] = s[i]
    BY <1>1
  <1>3. b \in Seq(S) /\ Len(b) = Len(s) - k /\ \A i \in 1..(Len(s) - k) : b[i] = s[k + i]
    BY <1>1
  <1> HIDE DEF a, b
  <1>4. a \o b \in Seq(S) /\ Len(a \o b) = Len(s)
    <2>1. a \in Seq(S) /\ b \in Seq(S)
      BY <1>2, <1>3
    <2>2. a \o b \in Seq(S) /\ Len(a \o b) = Len(a) + Len(b)
      BY <2>1
    <2>3. QED
      BY <1>1, <1>2, <1>3, <2>2
  <1>5. ASSUME NEW i \in 1..Len(s) PROVE (a \o b)[i] = s[i]
    <2>1. CASE i <= k
      BY <1>1, <1>2, <1>3, <2>1
    <2>2. CASE i > k
      <3>1. (a \o b)[i] = b[i - k]
        BY <1>1, <1>2, <1>3, <2>2
      <3>2. i - k \in 1..(Len(s) - k) /\ k + (i - k) = i
        BY <1>1, <2>2
      <3>3. QED
        BY <1>3, <3>1, <3>2
    <2>3. i <= k \/ i > k
      BY <1>1
    <2>4. QED
      BY <2>1, <2>2, <2>3
  <1>6. a \o b = s
    <2> DEFINE u == a \o b
    <2>1. u \in Seq(S) /\ Len(u) = Len(s) /\ \A i \in 1..Len(s) : u[i] = s[i]
      BY <1>4, <1>5
    <2> HIDE DEF u
    <2>2. u = s
      BY <2>1
    <2>3. QED
      BY <2>2 DEF u
  <1>7. QED
    BY <1>6 DEF a, b

LEMMA ConcatElements ==
    ASSUME NEW S, NEW s \in Seq(S), NEW t \in Seq(S)
    PROVE  /\ s \o t \in Seq(S) /\ Len(s) \in Nat /\ Len(t) \in Nat
           /\ Len(s \o t) = Len(s) + Len(t)
           /\ \A i \in 1..Len(s) : (s \o t)[i] = s[i]
           /\ \A i \in 1..Len(t) : (s \o t)[Len(s) + i] = t[i]
  OBVIOUS

LEMMA ConcatAssoc ==
    ASSUME NEW S, NEW s \in Seq(S), NEW t \in Seq(S), NEW u \in Seq(S)
    PROVE  (s \o t) \o u = s \o (t \o u)
  OBVIOUS

\* Two sequences without repetitions and without a common element.
LEMMA ConcatDistinct ==
    ASSUME NEW S, NEW s \in Seq(S), NEW t \in Seq(S), Range(s) \cap Range(t) = {},
           \A i, j \in 1..Len(s) : s[i] = s[j] => i = j,
           \A i, j \in 1..Len(t) : t[i] = t[j] => i = j
    PROVE  \A i, j \in 1..Len(s \o t) : (s \o t)[i] = (s \o t)[j] => i = j
  <1> DEFINE u == s \o t
  <1>1. /\ u \in Seq(S) /\ Len(s) \in Nat /\ Len(t) \in Nat /\ Len(u) = Len(s) + Len(t)
        /\ \A i \in 1..Len(s) : u[i] = s[i]
        /\ \A i \in 1..Len(t) : u[Len(s) + i] = t[i]
    OBVIOUS
  <1>2. Range(s) = {s[i] : i \in 1..Len(s)} /\ Range(t) = {t[i] : i \in 1..Len(t)}
    BY RangeOfSeq
  <1> HIDE DEF u
  <1>3. ASSUME NEW i \in 1..Len(u)
        PROVE  \/ i \in 1..Len(s) /\ u[i] = s[i]
               \/ i - Len(s) \in 1..Len(t) /\ u[i] = t[i - Len(s)]
    <2>1. CASE i <= Len(s)
      BY <1>1, <2>1
    <2>2. CASE i > Len(s)
      <3>1. i - Len(s) \in 1..Len(t) /\ Len(s) + (i - Len(s)) = i
        BY <1>1, <2>2
      <3>2. QED
        BY <1>1, <3>1
    <2>3. i <= Len(s) \/ i > Len(s)
      BY <1>1
    <2>4. QED
      BY <2>1, <2>2, <2>3
  <1>4. ASSUME NEW i \in 1..Len(u), NEW j \in 1..Len(u), u[i] = u[j]
        PROVE  i = j
    <2>1. CASE i \in 1..Len(s) /\ u[i] = s[i]
      <3>1. j \in 1..Len(s) /\ u[j] = s[j]
        <4>1. u[i] \in Range(s) /\ u[i] \notin Range(t)
          BY <1>2, <2>1
        <4>2. j - Len(s) \in 1..Len(t) => t[j - Len(s)] \in Range(t)
          BY <1>2
        <4>3. QED
          BY <1>3, <1>4, <4>1, <4>2
      <3>2. QED
        BY <1>4, <2>1, <3>1
    <2>2. CASE i - Len(s) \in 1..Len(t) /\ u[i] = t[i - Len(s)]
      <3>1. j - Len(s) \in 1..Len(t) /\ u[j] = t[j - Len(s)]
        <4>1. u[i] \in Range(t) /\ u[i] \notin Range(s)
          BY <1>2, <2>2, ZenonT(40)
        <4>2. j \in 1..Len(s) => s[j] \in Range(s)
          BY <1>2
        <4>3. QED
          BY <1>3, <1>4, <4>1, <4>2
      <3>2. i - Len(s) = j - Len(s)
        BY <1>4, <2>2, <3>1
      <3>3. QED
        BY <1>1, <3>2
    <2>3. QED
      BY <1>3, <2>1, <2>2
  <1>5. QED
    BY <1>4 DEF u

LEMMA ConcatPrefix ==
    ASSUME NEW S, NEW s \in Seq(S), NEW t \in Seq(S)
    PROVE  /\ \A n \in 0..Len(s) : SubSeq(s \o t, 1, n) = SubSeq(s, 1, n)
           /\ \A n \in 0..Len(t) : SubSeq(s \o t, 1, Len(s) + n) = s \o SubSeq(t, 1, n)
           /\ SubSeq(s, 1, Len(s)) = s
  <1> DEFINE u == s \o t
  <1>1. /\ Len(s) \in Nat /\ Len(t) \in Nat /\ u \in Seq(S) /\ Len(u) = Len(s) + Len(t)
        /\ \A i \in 1..Len(s) : u[i] = s[i]
        /\ \A i \in 1..Len(t) : u[Len(s) + i] = t[i]
    OBVIOUS
  <1> HIDE DEF u
  <1>2. ASSUME NEW n \in 0..Len(s) PROVE SubSeq(u, 1, n) = SubSeq(s, 1, n)
    <2>1. /\ SubSeq(u, 1, n) \in Seq(S) /\ Len(SubSeq(u, 1, n)) = n
          /\ \A i \in 1..n : SubSeq(u, 1, n)[i] = u[i]
      BY <1>1
    <2>2. /\ SubSeq(s, 1, n) \in Seq(S) /\ Len(SubSeq(s, 1, n)) = n
          /\ \A i \in 1..n : SubSeq(s, 1, n)[i] = s[i]
      BY <1>1
    <2>3. \A i \in 1..n : u[i] = s[i]
      BY <1>1
    <2>4. QED
      BY <2>1, <2>2, <2>3
  <1>3. ASSUME NEW n \in 0..Len(t) PROVE SubSeq(u, 1, Len(s) + n) = s \o SubSeq(t, 1, n)
    <2> DEFINE a == SubSeq(u, 1, Len(s) + n)
               c == SubSeq(t, 1, n)
    <2>1. /\ a \in Seq(S) /\ Len(a) = Len(s) + n
          /\ \A i \in 1..(Len(s) + n) : a[i] = u[i]
      BY <1>1
    <2>2. c \in Seq(S) /\ Len(c) = n /\ \A i \in 1..n : c[i] = t[i]
      BY <1>1
    <2> HIDE DEF a, c
    <2>3. s \o c \in Seq(S) /\ Len(s \o c) = Len(s) + n
      <3>1. c \in Seq(S)
        BY <2>2
      <3>2. s \o c \in Seq(S) /\ Len(s \o c) = Len(s) + Len(c)
        BY <3>1, ConcatElements
      <3>3. QED
        BY <2>2, <3>2
    <2>4. ASSUME NEW i \in 1..(Len(s) + n) PROVE a[i] = (s \o c)[i]
      <3>1. CASE i <= Len(s)
        BY <1>1, <2>1, <2>2, <3>1
      <3>2. CASE i > Len(s)
        <4>1. (s \o c)[i] = c[i - Len(s)]
          BY <1>1, <2>2, <3>2
        <4>2. i - Len(s) \in 1..n /\ i - Len(s) \in 1..Len(t) /\ Len(s) + (i - Len(s)) = i
          BY <1>1, <3>2
        <4>3. QED
          BY <1>1, <2>1, <2>2, <4>1, <4>2
      <3>3. i <= Len(s) \/ i > Len(s)
        BY <1>1
      <3>4. QED
        BY <3>1, <3>2, <3>3
    <2>5. QED
      BY <2>1, <2>3, <2>4 DEF a, c
  <1>4. SubSeq(s, 1, Len(s)) = s
    BY <1>1
  <1>5. QED
    BY <1>2, <1>3, <1>4 DEF u

\* An element that moves from the front of t to the end of s.
LEMMA MoveElement ==
    ASSUME NEW S, NEW s \in Seq(S), NEW t \in Seq(S), t # <<>>
    PROVE  Append(s, Head(t)) \o Tail(t) = s \o t
  <1>1. /\ Head(t) \in S /\ Tail(t) \in Seq(S) /\ Append(s, Head(t)) \in Seq(S)
        /\ Len(Append(s, Head(t))) = Len(s) + 1 /\ Len(Tail(t)) = Len(t) - 1
        /\ Len(s) \in Nat /\ Len(t) \in Nat \ {0}
    OBVIOUS
  <1> DEFINE u == Append(s, Head(t)) \o Tail(t)
  <1>2. /\ u \in Seq(S) /\ s \o t \in Seq(S)
        /\ Len(u) = Len(s) + Len(t) /\ Len(s \o t) = Len(s) + Len(t)
    BY <1>1
  <1>3. ASSUME NEW i \in 1..(Len(s) + Len(t)) PROVE u[i] = (s \o t)[i]
    BY <1>1, <1>3
  <1>4. QED
    BY <1>2, <1>3

\* An enumeration of a finite set names each member once.
LEMMA OrdersEnumerate ==
    ASSUME NEW S, IsFiniteSet(S), NEW s \in Orders(S)
    PROVE  /\ s \in Seq(S) /\ Range(s) = S
           /\ \A i, j \in 1..Len(s) : s[i] = s[j] => i = j
  <1>1. Cardinality(S) \in Nat /\ s \in [1..Cardinality(S) -> S] /\ Range(s) = S
    BY FS_CardinalityType DEF Orders
  <1>2. s \in Seq(S) /\ Len(s) = Cardinality(S)
    BY <1>1
  <1>3. IsFiniteSet(1..Cardinality(S)) /\ Cardinality(1..Cardinality(S)) = Cardinality(S)
    BY <1>1, FS_Interval
  <1>4. s \in Surjection(1..Cardinality(S), S)
    BY <1>1 DEF Surjection, Range
  <1>5. s \in Injection(1..Cardinality(S), S)
    BY <1>3, <1>4, FS_SurjSameCardinalityImpliesInj
  <1>6. QED
    BY <1>1, <1>2, <1>5 DEF Injection, IsInjective
-------------------------------------------------------------------------------
(* The row that ReplacingMergeTree keeps of a set of rows of one machine.     *)

\* The rows of m among rows, and row if there is one.
Candidates(row, rows, m) == {r \in rows : r.id = m} \cup ({row} \ {None})

Best(rows) ==
    IF rows = {}
    THEN None
    ELSE CHOOSE v \in rows : \A w \in rows : w.updatedAt <= v.updatedAt

Bounded(rows, n) == \A r \in rows : r.updatedAt <= n

Distinct(rows) == \A r, s \in rows : r.updatedAt = s.updatedAt => r = s

LEMMA VersionIsBest ==
    ASSUME NEW row, NEW rows \in Seq(Rows), NEW m
    PROVE  Version(row, rows, m) = Best(Candidates(row, Range(rows), m))
  <1> DEFINE versions == {rows[i] : i \in {i \in DOMAIN rows : rows[i].id = m}}
                         \cup ({row} \ {None})
  <1>1. Version(row, rows, m) = Best(versions)
    BY DEF Version, Best
  <1>2. versions = Candidates(row, Range(rows), m)
    BY DEF Candidates, Range
  <1> HIDE DEF versions
  <1>3. QED
    BY <1>1, <1>2

LEMMA BestGreatest ==
    ASSUME NEW rows \in SUBSET Rows, rows # {}, NEW n \in Nat, Bounded(rows, n)
    PROVE  Best(rows) \in rows /\ \A w \in rows : w.updatedAt <= Best(rows).updatedAt
  <1> DEFINE T == {r.updatedAt : r \in rows}
  <1>1. T \in SUBSET (0..n) /\ T # {}
    BY DEF Bounded, Rows
  <1>2. PICK x \in T : \A y \in T : y <= x
    <2> HIDE DEF T
    <2>1. QED
      BY <1>1, GreatestOf
  <1>3. \E v \in rows : \A w \in rows : w.updatedAt <= v.updatedAt
    BY <1>2
  <1>4. QED
    BY <1>3 DEF Best

LEMMA BestIs ==
    ASSUME NEW rows \in SUBSET Rows, NEW v \in rows,
           \A w \in rows : w = v \/ w.updatedAt < v.updatedAt
    PROVE  Best(rows) = v
  <1>1. \A w \in rows : w.updatedAt \in Nat
    BY DEF Rows
  <1>2. \A w \in rows : w.updatedAt <= v.updatedAt
    BY <1>1
  <1>3. \A u \in rows : (\A w \in rows : w.updatedAt <= u.updatedAt) => u = v
    BY <1>1
  <1>4. QED
    BY <1>2, <1>3 DEF Best

\* Rows that were inserted count through the one that was kept of them.
LEMMA BestOfParts ==
    ASSUME NEW first \in SUBSET Rows, NEW rest \in SUBSET Rows, NEW n \in Nat,
           Bounded(first \cup rest, n), Distinct(first \cup rest)
    PROVE  Best(rest \cup ({Best(first)} \ {None})) = Best(first \cup rest)
  <1> DEFINE all == first \cup rest
             left == rest \cup ({Best(first)} \ {None})
  <1>1. CASE first = {}
    <2>1. Best(first) = None
      BY <1>1 DEF Best
    <2>2. left = all
      BY <1>1, <2>1
    <2> HIDE DEF left, all
    <2>3. Best(left) = Best(all)
      BY <2>2
    <2>4. QED
      BY <2>3 DEF left, all
  <1>2. CASE first # {}
    <2>1. Bounded(first, n) /\ Bounded(all, n) /\ all \in SUBSET Rows /\ all # {}
      BY <1>2 DEF Bounded
    <2>2. Best(first) \in first /\ \A w \in first : w.updatedAt <= Best(first).updatedAt
      BY <1>2, <2>1, BestGreatest
    <2>3. Best(all) \in all /\ \A w \in all : w.updatedAt <= Best(all).updatedAt
      <3> HIDE DEF all
      <3>1. QED
        BY <2>1, BestGreatest
    <2>4. None \notin first
      BY TrackerAssumption DEF TrackerAssumption
    <2>5. left = rest \cup {Best(first)} /\ left \subseteq all
      BY <2>2, <2>4
    <2>6. \A w \in all : w.updatedAt \in Nat
      BY <2>1 DEF Rows
    <2>7. Best(all) \in left
      <3>1. CASE Best(all) \in rest
        BY <2>5, <3>1
      <3>2. CASE Best(all) \in first
        <4>1. Best(first).updatedAt = Best(all).updatedAt
          BY <2>2, <2>3, <2>6, <3>2
        <4>2. Best(first) = Best(all)
          BY <2>2, <2>3, <4>1 DEF Distinct
        <4>3. QED
          BY <2>5, <4>2
      <3>3. QED
        BY <2>3, <3>1, <3>2
    <2>8. ASSUME NEW w \in left PROVE w = Best(all) \/ w.updatedAt < Best(all).updatedAt
      <3>1. w \in all /\ w.updatedAt <= Best(all).updatedAt
        BY <2>3, <2>5
      <3>2. w.updatedAt \in Nat /\ Best(all).updatedAt \in Nat
        BY <2>3, <2>6, <3>1
      <3>3. w.updatedAt = Best(all).updatedAt => w = Best(all)
        BY <2>3, <3>1 DEF Distinct
      <3> HIDE DEF all, left
      <3>4. QED
        BY <3>1, <3>2, <3>3
    <2>9. Best(left) = Best(all)
      <3> HIDE DEF left, all
      <3>1. left \in SUBSET Rows
        BY <2>1, <2>5
      <3>2. QED
        BY <2>7, <2>8, <3>1, BestIs
    <2>10. QED
      BY <2>9
  <1>3. QED
    BY <1>1, <1>2

LEMMA BestOfNone == Best({}) = None
  BY DEF Best
-------------------------------------------------------------------------------
(* The rows and events of a poll.                                             *)

\* What memory holds, and what upstream answers.
Held(previous) ==
    /\ DOMAIN previous \subseteq Machines
    /\ \A m \in DOMAIN previous : previous[m] \in Rows /\ previous[m].id = m

Answer(current) ==
    /\ DOMAIN current \subseteq Machines
    /\ \A m \in DOMAIN current : current[m] \in Listings /\ current[m].id = m

Diff(previous, current, now) ==
    AddedRows(previous, current, now) \cup UpdatedRows(previous, current, now)
    \cup RemovedRows(previous, current, now)

DiffEvents(previous, current) ==
    ChangeEvents(previous, current) \cup RemovalEvents(previous, current)

\* A function of a finite set has finitely many values.
LEMMA FiniteRange ==
    ASSUME NEW f, IsFiniteSet(DOMAIN f), f = [x \in DOMAIN f |-> f[x]]
    PROVE  IsFiniteSet({f[x] : x \in DOMAIN f})
  <1>1. f \in Surjection(DOMAIN f, {f[x] : x \in DOMAIN f})
    BY DEF Surjection
  <1>2. QED
    BY <1>1, FS_Surjection

LEMMA DiffFinite ==
    ASSUME NEW previous, NEW current, NEW now, Held(previous), Answer(current)
    PROVE  /\ IsFiniteSet(AddedRows(previous, current, now))
           /\ IsFiniteSet(UpdatedRows(previous, current, now))
           /\ IsFiniteSet(RemovedRows(previous, current, now))
           /\ IsFiniteSet(ChangeEvents(previous, current))
           /\ IsFiniteSet(RemovalEvents(previous, current))
  <1> DEFINE new == New(previous, current)
             gone == Gone(previous, current)
             moved == StatusChanged(previous, current)
             named == Renamed(previous, current)
  <1>1. \A S \in SUBSET Machines : IsFiniteSet(S)
    BY TrackerAssumption, FS_Subset DEF TrackerAssumption
  <1>2. /\ new \in SUBSET Machines /\ gone \in SUBSET Machines
        /\ moved \in SUBSET Machines /\ named \in SUBSET Machines
        /\ moved \cup named \in SUBSET Machines
    BY DEF Held, Answer, New, Gone, StatusChanged, Renamed
  <1>3. /\ IsFiniteSet(new) /\ IsFiniteSet(gone) /\ IsFiniteSet(moved) /\ IsFiniteSet(named)
        /\ IsFiniteSet(moved \cup named)
    <2> HIDE DEF new, gone, moved, named
    <2>1. QED
      BY <1>1, <1>2
  <1>4. IsFiniteSet(AddedRows(previous, current, now))
    <2> DEFINE f == [m \in new |-> Row(current[m], now, now)]
    <2>1. IsFiniteSet({f[x] : x \in DOMAIN f})
      BY <1>3, FiniteRange
    <2>2. {f[x] : x \in DOMAIN f} = AddedRows(previous, current, now)
      BY DEF AddedRows
    <2>3. QED
      BY <2>1, <2>2
  <1>5. IsFiniteSet(UpdatedRows(previous, current, now))
    <2> DEFINE f == [m \in moved \cup named |-> Row(current[m], previous[m].firstSeenAt, now)]
    <2>1. IsFiniteSet({f[x] : x \in DOMAIN f})
      BY <1>3, FiniteRange
    <2>2. {f[x] : x \in DOMAIN f} = UpdatedRows(previous, current, now)
      BY DEF UpdatedRows
    <2>3. QED
      BY <2>1, <2>2
  <1>6. IsFiniteSet(RemovedRows(previous, current, now))
    <2> DEFINE f == [m \in gone |-> [previous[m] EXCEPT !.isDeleted = TRUE, !.updatedAt = now]]
    <2>1. IsFiniteSet({f[x] : x \in DOMAIN f})
      BY <1>3, FiniteRange
    <2>2. {f[x] : x \in DOMAIN f} = RemovedRows(previous, current, now)
      BY DEF RemovedRows
    <2>3. QED
      BY <2>1, <2>2
  <1>7. IsFiniteSet(ChangeEvents(previous, current))
    <2> DEFINE f == [m \in new |-> Event("MACHINE_ADDED", current[m], "", current[m].status)]
               g == [m \in moved |-> Event("STATUS_CHANGED", current[m], previous[m].status,
                                           current[m].status)]
               h == [m \in named |-> Event("METADATA_UPDATED", current[m], previous[m].status,
                                           current[m].status)]
               F == {f[x] : x \in DOMAIN f}
               G == {g[x] : x \in DOMAIN g}
               H == {h[x] : x \in DOMAIN h}
    <2>1. IsFiniteSet(F) /\ IsFiniteSet(G) /\ IsFiniteSet(H)
      BY <1>3, FiniteRange
    <2>2. F \cup G \cup H = ChangeEvents(previous, current)
      BY DEF ChangeEvents
    <2> HIDE DEF F, G, H
    <2>3. IsFiniteSet(F \cup G)
      BY <2>1, FS_Union
    <2>4. IsFiniteSet(F \cup G \cup H)
      BY <2>1, <2>3, FS_Union
    <2>5. QED
      BY <2>2, <2>4
  <1>8. IsFiniteSet(RemovalEvents(previous, current))
    <2> DEFINE f == [m \in gone |-> Event("MACHINE_REMOVED", previous[m], previous[m].status,
                                          Deleted)]
    <2>1. IsFiniteSet({f[x] : x \in DOMAIN f})
      BY <1>3, FiniteRange
    <2>2. {f[x] : x \in DOMAIN f} = RemovalEvents(previous, current)
      BY DEF RemovalEvents
    <2>3. QED
      BY <2>1, <2>2
  <1>9. QED
    BY <1>4, <1>5, <1>6, <1>7, <1>8

LEMMA EventTypes ==
    ASSUME NEW previous, NEW current, Held(previous), Answer(current)
    PROVE  /\ ChangeEvents(previous, current) \subseteq EventRows
           /\ RemovalEvents(previous, current) \subseteq EventRows
  <1>1. \A m \in DOMAIN current : current[m].status \in Statuses /\ current[m].id \in Machines
    BY DEF Answer, Listings
  <1>2. \A m \in DOMAIN previous : previous[m].status \in Statuses /\ previous[m].id \in Machines
    BY DEF Held, Rows
  <1>3. \A m \in New(previous, current) :
           Event("MACHINE_ADDED", current[m], "", current[m].status) \in EventRows
    BY <1>1 DEF New, Event, EventRows
  <1>4. \A m \in StatusChanged(previous, current) :
           Event("STATUS_CHANGED", current[m], previous[m].status, current[m].status)
               \in EventRows
    BY <1>1, <1>2 DEF StatusChanged, Event, EventRows
  <1>5. \A m \in Renamed(previous, current) :
           Event("METADATA_UPDATED", current[m], previous[m].status, current[m].status)
               \in EventRows
    BY <1>1, <1>2 DEF Renamed, Event, EventRows
  <1>6. \A m \in Gone(previous, current) :
           Event("MACHINE_REMOVED", previous[m], previous[m].status, Deleted) \in EventRows
    BY <1>2 DEF Gone, Event, EventRows
  <1>7. QED
    BY <1>3, <1>4, <1>5, <1>6 DEF ChangeEvents, RemovalEvents

\* A poll writes at most one row of a machine, and it says what upstream says.
LEMMA DiffSays ==
    ASSUME NEW previous, NEW current, NEW now \in Nat, Held(previous), Answer(current)
    PROVE  /\ \A r \in Diff(previous, current, now) :
                  /\ r \in Rows /\ r.updatedAt = now
                  /\ r.id \in DOMAIN current => /\ ~r.isDeleted
                                                /\ r.status = current[r.id].status
                                                /\ r.name = current[r.id].name
                                                /\ r.raw = current[r.id].raw
                  /\ r.id \notin DOMAIN current => r.isDeleted
           /\ \A r, s \in Diff(previous, current, now) : r.id = s.id => r = s
           /\ \A m : (\A r \in Diff(previous, current, now) : r.id # m) =>
                  /\ m \in DOMAIN current <=> m \in DOMAIN previous
                  /\ m \in DOMAIN current => /\ current[m].status = previous[m].status
                                             /\ current[m].name = previous[m].name
  <1> DEFINE new == New(previous, current)
             gone == Gone(previous, current)
             changed == StatusChanged(previous, current) \cup Renamed(previous, current)
             added(m) == Row(current[m], now, now)
             updated(m) == Row(current[m], previous[m].firstSeenAt, now)
             removed(m) == [previous[m] EXCEPT !.isDeleted = TRUE, !.updatedAt = now]
             good(r, m) == /\ r \in Rows /\ r.id = m /\ r.updatedAt = now
                           /\ m \in DOMAIN current => /\ ~r.isDeleted
                                                      /\ r.status = current[m].status
                                                      /\ r.name = current[m].name
                                                      /\ r.raw = current[m].raw
                           /\ m \notin DOMAIN current => r.isDeleted
  <1>1. Diff(previous, current, now) = {added(m) : m \in new} \cup {updated(m) : m \in changed}
                                       \cup {removed(m) : m \in gone}
    BY DEF Diff, AddedRows, UpdatedRows, RemovedRows
  <1>2. ASSUME NEW m \in new PROVE good(added(m), m)
    <2>1. m \in DOMAIN current /\ current[m] \in Listings /\ current[m].id = m
      BY DEF New, Answer
    <2>2. QED
      BY <2>1 DEF Row, Rows, Listings
  <1>3. ASSUME NEW m \in changed PROVE good(updated(m), m)
    <2>1. /\ m \in DOMAIN current /\ current[m] \in Listings /\ current[m].id = m
          /\ previous[m].firstSeenAt \in Nat
      BY DEF StatusChanged, Renamed, Answer, Held, Rows
    <2>2. QED
      BY <2>1 DEF Row, Rows, Listings
  <1>4. ASSUME NEW m \in gone PROVE good(removed(m), m)
    <2>1. m \notin DOMAIN current /\ previous[m] \in Rows /\ previous[m].id = m
      BY DEF Gone, Held
    <2>2. QED
      BY <2>1 DEF Rows
  <1>5. new \cap changed = {} /\ new \cap gone = {} /\ changed \cap gone = {}
    BY DEF New, Gone, StatusChanged, Renamed
  <1>6. ASSUME NEW m, m \notin new, m \notin gone, m \notin changed
        PROVE  /\ m \in DOMAIN current <=> m \in DOMAIN previous
               /\ m \in DOMAIN current => /\ current[m].status = previous[m].status
                                          /\ current[m].name = previous[m].name
    BY <1>6 DEF New, Gone, StatusChanged, Renamed
  <1> HIDE DEF new, gone, changed, added, updated, removed
  <1>7. ASSUME NEW r \in Diff(previous, current, now) PROVE good(r, r.id)
    BY <1>1, <1>2, <1>3, <1>4
  <1>8. ASSUME NEW r \in Diff(previous, current, now), NEW s \in Diff(previous, current, now),
               r.id = s.id
        PROVE  r = s
    <2>1. \A m \in new : added(m).id = m
      BY <1>2
    <2>2. \A m \in changed : updated(m).id = m
      BY <1>3
    <2>3. \A m \in gone : removed(m).id = m
      BY <1>4
    <2>4. CASE r.id \in new
      <3>1. r = added(r.id) /\ s = added(s.id)
        BY <1>1, <1>5, <1>8, <2>1, <2>2, <2>3, <2>4
      <3>2. QED
        BY <1>8, <3>1
    <2>5. CASE r.id \in changed
      <3>1. r = updated(r.id) /\ s = updated(s.id)
        BY <1>1, <1>5, <1>8, <2>1, <2>2, <2>3, <2>5
      <3>2. QED
        BY <1>8, <3>1
    <2>6. CASE r.id \in gone
      <3>1. r = removed(r.id) /\ s = removed(s.id)
        BY <1>1, <1>5, <1>8, <2>1, <2>2, <2>3, <2>6
      <3>2. QED
        BY <1>8, <3>1
    <2>7. r.id \in new \cup changed \cup gone
      BY <1>1, <2>1, <2>2, <2>3
    <2>8. QED
      BY <2>4, <2>5, <2>6, <2>7
  <1>9. ASSUME NEW m, \A r \in Diff(previous, current, now) : r.id # m
        PROVE  m \notin new /\ m \notin gone /\ m \notin changed
    BY <1>1, <1>2, <1>3, <1>4, <1>9
  <1>10. QED
    BY <1>6, <1>7, <1>8, <1>9

\* A poll tells of a machine at most once, from what memory held to what upstream says.
LEMMA DiffTells ==
    ASSUME NEW previous, NEW current, Held(previous), Answer(current)
    PROVE  /\ \A e \in DiffEvents(previous, current) :
                  /\ e \in EventRows
                  /\ e.type = "MACHINE_ADDED" <=> e.id \notin DOMAIN previous
                  /\ e.id \in DOMAIN previous => e.from = previous[e.id].status
                  /\ e.type = "STATUS_CHANGED" => e.from # e.to
                  /\ Closing(e) <=> e.id \notin DOMAIN current
                  /\ e.id \in DOMAIN current => e.to = current[e.id].status
           /\ \A e, f \in DiffEvents(previous, current) : e.id = f.id => e = f
           /\ \A m : (\A e \in DiffEvents(previous, current) : e.id # m) =>
                  /\ m \in DOMAIN current <=> m \in DOMAIN previous
                  /\ m \in DOMAIN current => current[m].status = previous[m].status
  <1> DEFINE new == New(previous, current)
             gone == Gone(previous, current)
             moved == StatusChanged(previous, current)
             named == Renamed(previous, current)
             added(m) == Event("MACHINE_ADDED", current[m], "", current[m].status)
             changed(m) == Event("STATUS_CHANGED", current[m], previous[m].status,
                                 current[m].status)
             renamed(m) == Event("METADATA_UPDATED", current[m], previous[m].status,
                                 current[m].status)
             removed(m) == Event("MACHINE_REMOVED", previous[m], previous[m].status, Deleted)
             good(e, m) == /\ e.id = m
                           /\ e.type = "MACHINE_ADDED" <=> m \notin DOMAIN previous
                           /\ m \in DOMAIN previous => e.from = previous[m].status
                           /\ e.type = "STATUS_CHANGED" => e.from # e.to
                           /\ Closing(e) <=> m \notin DOMAIN current
                           /\ m \in DOMAIN current => e.to = current[m].status
  <1>1. DiffEvents(previous, current) = {added(m) : m \in new} \cup {changed(m) : m \in moved}
                                        \cup {renamed(m) : m \in named}
                                        \cup {removed(m) : m \in gone}
    BY DEF DiffEvents, ChangeEvents, RemovalEvents
  <1>2. ASSUME NEW m \in new PROVE good(added(m), m)
    <2>1. m \in DOMAIN current /\ m \notin DOMAIN previous /\ current[m].id = m
      BY DEF New, Answer
    <2>2. QED
      BY <2>1 DEF Event, Closing
  <1>3. ASSUME NEW m \in moved PROVE good(changed(m), m)
    <2>1. /\ m \in DOMAIN current /\ m \in DOMAIN previous /\ current[m].id = m
          /\ previous[m].status # current[m].status
      BY DEF StatusChanged, Answer
    <2>2. QED
      BY <2>1 DEF Event, Closing
  <1>4. ASSUME NEW m \in named PROVE good(renamed(m), m)
    <2>1. m \in DOMAIN current /\ m \in DOMAIN previous /\ current[m].id = m
      BY DEF Renamed, Answer
    <2>2. QED
      BY <2>1 DEF Event, Closing
  <1>5. ASSUME NEW m \in gone PROVE good(removed(m), m)
    <2>1. m \notin DOMAIN current /\ m \in DOMAIN previous /\ previous[m].id = m
      BY DEF Gone, Held
    <2>2. QED
      BY <2>1 DEF Event, Closing
  <1>6. /\ new \cap moved = {} /\ new \cap named = {} /\ new \cap gone = {}
        /\ moved \cap named = {} /\ moved \cap gone = {} /\ named \cap gone = {}
    BY DEF New, Gone, StatusChanged, Renamed
  <1>7. ASSUME NEW m, m \notin new, m \notin gone, m \notin moved
        PROVE  /\ m \in DOMAIN current <=> m \in DOMAIN previous
               /\ m \in DOMAIN current => current[m].status = previous[m].status
    BY <1>7 DEF New, Gone, StatusChanged
  <1>8. DiffEvents(previous, current) \subseteq EventRows
    BY EventTypes DEF DiffEvents
  <1> HIDE DEF new, gone, moved, named, added, changed, renamed, removed
  <1>9. ASSUME NEW e \in DiffEvents(previous, current) PROVE good(e, e.id)
    BY <1>1, <1>2, <1>3, <1>4, <1>5
  <1>10. /\ \A m \in new : added(m).id = m
         /\ \A m \in moved : changed(m).id = m
         /\ \A m \in named : renamed(m).id = m
         /\ \A m \in gone : removed(m).id = m
    BY <1>2, <1>3, <1>4, <1>5
  <1>11. ASSUME NEW e \in DiffEvents(previous, current),
                NEW f \in DiffEvents(previous, current), e.id = f.id
         PROVE  e = f
    <2>1. CASE e.id \in new
      <3>1. e = added(e.id) /\ f = added(f.id)
        BY <1>1, <1>6, <1>10, <1>11, <2>1
      <3>2. QED
        BY <1>11, <3>1
    <2>2. CASE e.id \in moved
      <3>1. e = changed(e.id) /\ f = changed(f.id)
        BY <1>1, <1>6, <1>10, <1>11, <2>2
      <3>2. QED
        BY <1>11, <3>1
    <2>3. CASE e.id \in named
      <3>1. e = renamed(e.id) /\ f = renamed(f.id)
        BY <1>1, <1>6, <1>10, <1>11, <2>3
      <3>2. QED
        BY <1>11, <3>1
    <2>4. CASE e.id \in gone
      <3>1. e = removed(e.id) /\ f = removed(f.id)
        BY <1>1, <1>6, <1>10, <1>11, <2>4
      <3>2. QED
        BY <1>11, <3>1
    <2>5. e.id \in new \cup moved \cup named \cup gone
      BY <1>1, <1>10
    <2>6. QED
      BY <2>1, <2>2, <2>3, <2>4, <2>5
  <1>12. ASSUME NEW m, \A e \in DiffEvents(previous, current) : e.id # m
         PROVE  m \notin new /\ m \notin gone /\ m \notin moved
    BY <1>1, <1>10, <1>12
  <1>13. QED
    BY <1>7, <1>8, <1>9, <1>11, <1>12
-------------------------------------------------------------------------------
(* The last event of a machine, before and among events.                      *)

Occurs(events, m) == \E i \in 1..Len(events) : events[i].id = m

Latest(events, m, i) ==
    /\ events[i].id = m
    /\ \A j \in 1..Len(events) : events[j].id = m => j <= i

LEMMA LastIndex ==
    ASSUME NEW events \in Seq(EventRows), NEW m, Occurs(events, m)
    PROVE  \E i \in 1..Len(events) : Latest(events, m, i)
  <1> DEFINE of == {i \in 1..Len(events) : events[i].id = m}
  <1>1. of \in SUBSET (0..Len(events)) /\ of # {} /\ Len(events) \in Nat
    BY DEF Occurs
  <1>2. PICK x \in of : \A y \in of : y <= x
    <2> HIDE DEF of
    <2>1. QED
      BY <1>1, GreatestOf
  <1>3. QED
    BY <1>2 DEF Latest

LEMMA LastEventIs ==
    ASSUME NEW events \in Seq(EventRows), NEW event, NEW m, NEW i \in 1..Len(events),
           Latest(events, m, i)
    PROVE  LastEvent(event, events, m) = events[i]
  <1> DEFINE of == {j \in DOMAIN events : events[j].id = m}
  <1>1. i \in of /\ \A j \in of : j \in Int /\ j <= i
    BY DEF Latest
  <1>2. Max(of) = i
    <2> HIDE DEF of
    <2>1. \A j \in of : i >= j
      BY <1>1
    <2>2. \A x \in of : (\A y \in of : x >= y) => x = i
      BY <1>1
    <2>3. QED
      BY <1>1, <2>1, <2>2 DEF Max
  <1>3. of # {}
    BY <1>1
  <1>4. LastEvent(event, events, m) = events[Max(of)]
    BY <1>3 DEF LastEvent
  <1>5. QED
    BY <1>2, <1>4

LEMMA LastEventNone ==
    ASSUME NEW events \in Seq(EventRows), NEW event, NEW m, ~Occurs(events, m)
    PROVE  LastEvent(event, events, m) = event
  BY DEF LastEvent, Occurs

LEMMA LastEventType ==
    ASSUME NEW events \in Seq(EventRows), NEW event \in EventRows \cup {None}, NEW m
    PROVE  LastEvent(event, events, m) \in EventRows \cup {None}
  <1>1. CASE Occurs(events, m)
    <2>1. PICK i \in 1..Len(events) : Latest(events, m, i)
      BY <1>1, LastIndex
    <2>2. LastEvent(event, events, m) = events[i] /\ events[i] \in EventRows
      BY <2>1, LastEventIs
    <2>3. QED
      BY <2>2
  <1>2. CASE ~Occurs(events, m)
    BY <1>2, LastEventNone
  <1>3. QED
    BY <1>1, <1>2

LEMMA OccursConcat ==
    ASSUME NEW a \in Seq(EventRows), NEW b \in Seq(EventRows), NEW m
    PROVE  Occurs(a \o b, m) <=> Occurs(a, m) \/ Occurs(b, m)
  <1>1. \A s \in Seq(EventRows) : Occurs(s, m) <=> \E e \in Range(s) : e.id = m
    BY RangeOfSeq DEF Occurs
  <1>2. a \o b \in Seq(EventRows) /\ Range(a \o b) = Range(a) \cup Range(b)
    BY RangeConcat
  <1>3. QED
    BY <1>1, <1>2

\* The last event may be found in two parts.
LEMMA LastEventConcat ==
    ASSUME NEW a \in Seq(EventRows), NEW b \in Seq(EventRows), NEW event, NEW m
    PROVE  LastEvent(event, a \o b, m) = LastEvent(LastEvent(event, a, m), b, m)
  <1> DEFINE u == a \o b
  <1>1. /\ u \in Seq(EventRows) /\ Len(a) \in Nat /\ Len(b) \in Nat
        /\ Len(u) = Len(a) + Len(b)
        /\ \A i \in 1..Len(a) : u[i] = a[i]
        /\ \A i \in 1..Len(b) : u[Len(a) + i] = b[i]
    OBVIOUS
  <1>2. u \in Seq(EventRows)
    OBVIOUS
  <1>3. Occurs(u, m) <=> Occurs(a, m) \/ Occurs(b, m)
    BY OccursConcat
  <1> HIDE DEF u
  <1>4. CASE Occurs(b, m)
    <2>1. PICK i \in 1..Len(b) : Latest(b, m, i)
      BY <1>4, LastIndex
    <2>2. LastEvent(LastEvent(event, a, m), b, m) = b[i]
      BY <2>1, LastEventIs
    <2>3. Len(a) + i \in 1..Len(u) /\ u[Len(a) + i] = b[i] /\ i \in Nat
      BY <1>1
    <2>4. ASSUME NEW j \in 1..Len(u), u[j].id = m PROVE j <= Len(a) + i
      <3>1. CASE j <= Len(a)
        BY <1>1, <2>3, <3>1
      <3>2. CASE j > Len(a)
        <4>1. j - Len(a) \in 1..Len(b) /\ Len(a) + (j - Len(a)) = j
          BY <1>1, <3>2
        <4>2. b[j - Len(a)].id = m
          BY <1>1, <2>4, <4>1
        <4>3. j - Len(a) <= i
          BY <2>1, <4>1, <4>2 DEF Latest
        <4>4. QED
          BY <1>1, <2>3, <4>3
      <3>3. QED
        BY <1>1, <3>1, <3>2
    <2>5. Latest(u, m, Len(a) + i)
      BY <2>1, <2>3, <2>4 DEF Latest
    <2>6. LastEvent(event, u, m) = u[Len(a) + i]
      BY <1>2, <2>3, <2>5, LastEventIs
    <2>7. QED
      BY <2>2, <2>3, <2>6 DEF u
  <1>5. CASE ~Occurs(b, m) /\ Occurs(a, m)
    <2>1. PICK i \in 1..Len(a) : Latest(a, m, i)
      BY <1>5, LastIndex
    <2>2. LastEvent(event, a, m) = a[i]
      BY <2>1, LastEventIs
    <2>3. LastEvent(LastEvent(event, a, m), b, m) = a[i]
      BY <1>5, <2>2, LastEventNone
    <2>4. i \in 1..Len(u) /\ u[i] = a[i]
      BY <1>1
    <2>5. ASSUME NEW j \in 1..Len(u), u[j].id = m PROVE j <= i
      <3>1. CASE j <= Len(a)
        <4>1. j \in 1..Len(a) /\ a[j].id = m
          BY <1>1, <2>5, <3>1
        <4>2. QED
          BY <2>1, <4>1 DEF Latest
      <3>2. CASE j > Len(a)
        <4>1. j - Len(a) \in 1..Len(b) /\ Len(a) + (j - Len(a)) = j
          BY <1>1, <3>2
        <4>2. b[j - Len(a)].id = m
          BY <1>1, <2>5, <4>1
        <4>3. QED
          BY <1>5, <4>1, <4>2 DEF Occurs
      <3>3. QED
        BY <1>1, <3>1, <3>2
    <2>6. Latest(u, m, i)
      BY <2>1, <2>4, <2>5 DEF Latest
    <2>7. LastEvent(event, u, m) = u[i]
      BY <1>2, <2>4, <2>6, LastEventIs
    <2>8. QED
      BY <2>3, <2>4, <2>7 DEF u
  <1>6. CASE ~Occurs(b, m) /\ ~Occurs(a, m)
    <2>1. LastEvent(event, u, m) = event
      BY <1>1, <1>3, <1>6, LastEventNone
    <2>2. LastEvent(event, a, m) = event /\ LastEvent(event, b, m) = event
      BY <1>6, LastEventNone
    <2>3. QED
      BY <2>1, <2>2 DEF u
  <1>7. QED
    BY <1>4, <1>5, <1>6
-------------------------------------------------------------------------------
(* The inductive invariant.                                                   *)

Waiting == Range(rowBuffer) \cup Range(rowsToDo)

\* The rows of m that may come to be its row in the database.
Of(m) == Candidates(table[m], Waiting, m)

\* DatabaseFollows, for one machine.
Agree(m) ==
    LET newest == Best(Of(m)) IN
    /\ m \in DOMAIN active <=> newest # None /\ ~newest.isDeleted
    /\ m \in DOMAIN active => /\ newest.status = active[m].status
                              /\ newest.name = active[m].name

TypeInv ==
    /\ TypeOK
    /\ \A m \in Machines : upstream[m] # None => upstream[m].id = m
    /\ \A m \in Machines : table[m] # None => table[m].id = m

\* Each poll's rows are newer than all rows before, and a machine has one of them.
RowsInv ==
    /\ \A m \in Machines : Bounded(Of(m), clock - 1) /\ Distinct(Of(m))
    /\ \A r \in Range(rowsToDo) : r.updatedAt = clock - 1

DownInv ==
    ~running => DOMAIN active = {} /\ rowsToDo = <<>> /\ rowBuffer = <<>>

\* While its row is being written, even a machine whose last row was dropped agrees.
FollowInv ==
    running => \A m \in Machines : m \notin stale \/ m \in Writing => Agree(m)

IInv == TypeInv /\ RowsInv /\ DownInv /\ FollowInv

LEMMA OfTypes ==
    ASSUME TypeInv
    PROVE  /\ Waiting \subseteq Rows
           /\ \A m \in Machines : /\ Of(m) \in SUBSET Rows
                                  /\ \A r \in Of(m) : r.id = m
                                  /\ None \notin Of(m)
  <1>1. Waiting \subseteq Rows
    BY RangeOfSeq DEF TypeInv, TypeOK, Waiting
  <1>2. ASSUME NEW m \in Machines PROVE Of(m) \in SUBSET Rows /\ \A r \in Of(m) : r.id = m
    <2>1. table[m] \in Rows \cup {None}
      BY DEF TypeInv, TypeOK
    <2>2. table[m] # None => table[m].id = m
      BY DEF TypeInv
    <2>3. QED
      BY <1>1, <2>1, <2>2 DEF Of, Candidates
  <1>3. None \notin Rows
    BY TrackerAssumption DEF TrackerAssumption
  <1>4. QED
    BY <1>1, <1>2, <1>3

LEMMA NewestIsBest ==
    ASSUME TypeInv, NEW m \in Machines
    PROVE  Newest(m) = Best(Of(m))
  <1>1. rowBuffer \in Seq(Rows) /\ rowsToDo \in Seq(Rows)
    BY DEF TypeInv, TypeOK
  <1>2. rowBuffer \o rowsToDo \in Seq(Rows) /\ Range(rowBuffer \o rowsToDo) = Waiting
    BY <1>1, RangeConcat DEF Waiting
  <1>3. Newest(m) = Best(Candidates(table[m], Range(rowBuffer \o rowsToDo), m))
    BY <1>2, VersionIsBest DEF Newest
  <1>4. QED
    BY <1>2, <1>3 DEF Of

LEMMA Initially == Init => IInv
  <1> SUFFICES ASSUME Init PROVE IInv
    OBVIOUS
  <1>1. Range(rowsToDo) = {} /\ Range(rowBuffer) = {} /\ DOMAIN active = {}
    BY DEF Init, Range
  <1>2. TypeOK
    BY <1>1, TrackerAssumption DEF Init, TypeOK, TrackerAssumption
  <1>3. TypeInv
    BY <1>2 DEF Init, TypeInv
  <1>4. \A m \in Machines : Of(m) = {}
    BY <1>1 DEF Init, Of, Candidates, Waiting
  <1>5. RowsInv
    BY <1>1, <1>4 DEF RowsInv, Bounded, Distinct
  <1>6. FollowInv
    BY <1>1, <1>4, BestOfNone DEF FollowInv, Agree
  <1>7. QED
    BY <1>1, <1>3, <1>5, <1>6 DEF IInv, DownInv, Init

\* A step that leaves the rows and memory alone.
LEMMA RowsAlone ==
    ASSUME IInv, TypeInv',
           UNCHANGED <<clock, running, active, rowsToDo, rowBuffer, table, stale>>
    PROVE  IInv'
  <1>1. Waiting' = Waiting /\ Writing' = Writing /\ \A m \in Machines : Of(m)' = Of(m)
    BY DEF Waiting, Writing, Of
  <1>2. RowsInv' /\ DownInv'
    BY <1>1 DEF IInv, RowsInv, DownInv
  <1>3. FollowInv'
    BY <1>1 DEF IInv, FollowInv, Agree
  <1>4. QED
    BY <1>2, <1>3 DEF IInv

LEMMA ChangeStep ==
    ASSUME IInv, NEW m \in Machines, Change(m)
    PROVE  IInv'
  <1>1. TypeInv'
    BY TrackerAssumption
    DEF IInv, TypeInv, TypeOK, Change, bufVars, dbVars, memVars, histVars, TrackerAssumption
  <1>2. QED
    BY <1>1, RowsAlone DEF Change, bufVars, dbVars, memVars, histVars

LEMMA EnqueueEventStep ==
    ASSUME IInv, EnqueueEvent
    PROVE  IInv'
  <1>1. /\ eventsToDo \in Seq(EventRows) /\ eventBuffer \in Seq(EventRows)
        /\ eventsToDo # <<>>
    BY DEF IInv, TypeInv, TypeOK, EnqueueEvent
  <1>2. Head(eventsToDo) \in EventRows /\ Tail(eventsToDo) \in Seq(EventRows)
    BY <1>1, TailElements
  <1>3. eventsToDo' \in Seq(EventRows) /\ eventBuffer' \in Seq(EventRows)
    BY <1>1, <1>2, AppendElements DEF EnqueueEvent
  <1>4. TypeInv'
    BY <1>3 DEF IInv, TypeInv, TypeOK, EnqueueEvent, dbVars, histVars, envVars
  <1>5. QED
    BY <1>4, RowsAlone DEF EnqueueEvent, dbVars, histVars, envVars

LEMMA InsertEventsStep ==
    ASSUME IInv, NEW k \in 1..Len(eventBuffer), InsertEvents(k)
    PROVE  IInv'
  <1>1. eventBuffer \in Seq(EventRows) /\ log \in [Machines -> EventRows \cup {None}]
    BY DEF IInv, TypeInv, TypeOK
  <1>2. /\ SubSeq(eventBuffer, 1, k) \in Seq(EventRows)
        /\ SubSeq(eventBuffer, k + 1, Len(eventBuffer)) \in Seq(EventRows)
    BY <1>1, SplitElements
  <1>3. \A m \in Machines : LastEvent(log[m], SubSeq(eventBuffer, 1, k), m)
                               \in EventRows \cup {None}
    BY <1>1, <1>2, LastEventType
  <1>4. /\ eventBuffer' \in Seq(EventRows) /\ log' \in [Machines -> EventRows \cup {None}]
        /\ lost' \subseteq Machines
    BY <1>1, <1>2, <1>3 DEF InsertEvents, IInv, TypeInv, TypeOK
  <1>5. TypeInv'
    BY <1>4 DEF IInv, TypeInv, TypeOK, InsertEvents, memVars, envVars
  <1>6. QED
    BY <1>5, RowsAlone DEF InsertEvents, memVars, envVars

\* Whether its row is taken or dropped: of the machine at the head nothing was stale.
LEMMA EnqueueRowStep ==
    ASSUME IInv, EnqueueRow
    PROVE  IInv'
  <1> DEFINE h == Head(rowsToDo)
             Rest == Range(Tail(rowsToDo))
  <1>1. /\ rowsToDo \in Seq(Rows) /\ rowBuffer \in Seq(Rows) /\ rowsToDo # <<>>
        /\ running /\ running' /\ clock' = clock /\ active' = active /\ table' = table
        /\ rowsToDo' = Tail(rowsToDo)
    BY DEF IInv, TypeInv, TypeOK, EnqueueRow, dbVars
  <1>2. /\ h \in Rows /\ Tail(rowsToDo) \in Seq(Rows) /\ Range(rowsToDo) = Rest \cup {h}
        /\ h.id \in Machines
    <2>1. h \in Rows /\ Tail(rowsToDo) \in Seq(Rows) /\ Range(rowsToDo) = Rest \cup {h}
      BY <1>1, TailElements
    <2>2. QED
      BY <2>1 DEF Rows
  <1>3. Range(rowsToDo') = Rest
    BY <1>1
  <1> HIDE DEF h, Rest
  <1>4. \A r \in Rest : r.id = h.id => r = h
    <2>1. ASSUME NEW r \in Rest, r.id = h.id PROVE r = h
      <3>1. r \in Of(h.id) /\ h \in Of(h.id)
        BY <1>2, <2>1 DEF Of, Candidates, Waiting
      <3>2. r.updatedAt = h.updatedAt
        BY <1>2 DEF IInv, RowsInv
      <3>3. QED
        BY <1>2, <3>1, <3>2 DEF IInv, RowsInv, Distinct
    <2>2. QED
      BY <2>1
  <1>5. Writing = Writing' \cup {h.id}
    BY <1>2, <1>3 DEF Writing
  <1>6. Agree(h.id)
    BY <1>1, <1>2, <1>5 DEF IInv, FollowInv
  <1>7. CASE rowBuffer' = Append(rowBuffer, h) /\ stale' = stale \ {h.id}
    <2>1. rowBuffer' \in Seq(Rows) /\ Range(rowBuffer') = Range(rowBuffer) \cup {h}
      BY <1>1, <1>2, <1>7, AppendElements
    <2>2. Waiting' = Waiting /\ \A m \in Machines : Of(m)' = Of(m)
      BY <1>1, <1>2, <1>3, <2>1 DEF Waiting, Of
    <2>3. TypeInv'
      BY <1>1, <1>2, <1>7, <2>1
      DEF IInv, TypeInv, TypeOK, EnqueueRow, dbVars, envVars
    <2>4. RowsInv' /\ DownInv'
      BY <1>1, <1>2, <1>3, <2>2 DEF IInv, RowsInv, DownInv
    <2>5. FollowInv'
      <3>1. ASSUME NEW m \in Machines, m \notin stale' \/ m \in Writing' PROVE Agree(m)
        BY <1>1, <1>5, <1>6, <1>7, <3>1 DEF IInv, FollowInv
      <3>2. \A m \in Machines : Agree(m) => Agree(m)'
        BY <1>1, <2>2 DEF Agree
      <3>3. QED
        BY <3>1, <3>2 DEF FollowInv
    <2>6. QED
      BY <2>3, <2>4, <2>5 DEF IInv
  <1>8. CASE rowBuffer' = rowBuffer /\ stale' = stale \cup {h.id}
    <2>1. Waiting = Waiting' \cup {h}
      BY <1>2, <1>3, <1>8 DEF Waiting
    <2>2. \A m \in Machines : Of(m)' \subseteq Of(m)
      BY <1>1, <2>1 DEF Of, Candidates
    <2>3. \A m \in Machines : m # h.id => Of(m)' = Of(m)
      BY <1>1, <2>1 DEF Of, Candidates
    <2>4. h.id \in Writing' => \A m \in Machines : Of(m)' = Of(m)
      <3>1. h.id \in Writing' => h \in Rest
        BY <1>3, <1>4 DEF Writing
      <3>2. h \in Rest => Waiting' = Waiting
        BY <1>3, <2>1 DEF Waiting
      <3>3. QED
        BY <1>1, <3>1, <3>2 DEF Of
    <2>5. TypeInv'
      BY <1>1, <1>2, <1>8 DEF IInv, TypeInv, TypeOK, EnqueueRow, dbVars, envVars
    <2>6. RowsInv' /\ DownInv'
      BY <1>1, <1>2, <1>3, <2>2 DEF IInv, RowsInv, DownInv, Bounded, Distinct
    <2>7. FollowInv'
      <3>1. ASSUME NEW m \in Machines, m \notin stale' \/ m \in Writing'
            PROVE  Agree(m) /\ Of(m)' = Of(m)
        <4>1. m # h.id \/ m \in Writing'
          BY <1>8, <3>1
        <4>2. Of(m)' = Of(m)
          BY <2>3, <2>4, <4>1
        <4>3. QED
          BY <1>1, <1>5, <1>8, <3>1, <4>2 DEF IInv, FollowInv
      <3>2. \A m \in Machines : Agree(m) /\ Of(m)' = Of(m) => Agree(m)'
        BY <1>1 DEF Agree
      <3>3. QED
        BY <3>1, <3>2 DEF FollowInv
    <2>8. QED
      BY <2>5, <2>6, <2>7 DEF IInv
  <1>9. QED
    BY <1>7, <1>8 DEF EnqueueRow, h

LEMMA InsertRVMsStep ==
    ASSUME IInv, NEW k \in 1..Len(rowBuffer), InsertRVMs(k)
    PROVE  IInv'
  <1> DEFINE part == SubSeq(rowBuffer, 1, k)
             First(m) == Candidates(table[m], Range(part), m)
             Rest(m) == {r \in Waiting' : r.id = m}
  <1>1. /\ rowsToDo \in Seq(Rows) /\ rowBuffer \in Seq(Rows)
        /\ table \in [Machines -> Rows \cup {None}]
        /\ UNCHANGED <<clock, running, active, rowsToDo, stale>>
        /\ clock \in Nat \ {0}
    BY DEF IInv, TypeInv, TypeOK, InsertRVMs, envVars, memVars, histVars
  <1>2. /\ part \in Seq(Rows) /\ rowBuffer' \in Seq(Rows)
        /\ Range(part) \subseteq Range(rowBuffer)
        /\ Range(rowBuffer') \subseteq Range(rowBuffer)
        /\ Range(rowBuffer) = Range(part) \cup Range(rowBuffer')
    <2>1. /\ SubSeq(rowBuffer, 1, k) \in Seq(Rows)
          /\ SubSeq(rowBuffer, k + 1, Len(rowBuffer)) \in Seq(Rows)
          /\ Range(rowBuffer) = Range(SubSeq(rowBuffer, 1, k))
                                \cup Range(SubSeq(rowBuffer, k + 1, Len(rowBuffer)))
      BY <1>1, SplitElements
    <2>2. \/ rowBuffer' = SubSeq(rowBuffer, k + 1, Len(rowBuffer))
          \/ rowBuffer' = rowBuffer
      BY DEF InsertRVMs
    <2>3. QED
      BY <1>1, <2>1, <2>2
  <1>3. Waiting = Waiting' \cup Range(part)
    BY <1>1, <1>2 DEF Waiting
  <1>4. \A m \in Machines : Of(m) = First(m) \cup Rest(m)
    BY <1>3 DEF Of, Candidates
  <1>5. \A m \in Machines : table'[m] = Best(First(m))
    <2>1. \A m \in Machines : table'[m] = Version(table[m], part, m)
      BY DEF InsertRVMs, Merge
    <2>2. QED
      BY <1>2, <2>1, VersionIsBest
  <1> HIDE DEF part, First, Rest
  <1>6. ASSUME NEW m \in Machines
        PROVE  /\ First(m) \in SUBSET Rows /\ Rest(m) \in SUBSET Rows
               /\ clock - 1 \in Nat
               /\ Bounded(First(m) \cup Rest(m), clock - 1) /\ Bounded(First(m), clock - 1)
               /\ Distinct(First(m) \cup Rest(m))
    <2>1. Of(m) \in SUBSET Rows
      BY OfTypes DEF IInv
    <2>2. Bounded(Of(m), clock - 1) /\ Distinct(Of(m))
      BY DEF IInv, RowsInv
    <2>3. Of(m) = First(m) \cup Rest(m)
      BY <1>4
    <2>4. Bounded(First(m) \cup Rest(m), clock - 1) /\ Distinct(First(m) \cup Rest(m))
      BY <2>2, <2>3
    <2>5. clock - 1 \in Nat
      BY <1>1
    <2>6. QED
      BY <2>1, <2>3, <2>4, <2>5 DEF Bounded
  <1>7. ASSUME NEW m \in Machines
        PROVE  table'[m] \in First(m) \/ table'[m] = None
    <2>1. CASE First(m) = {}
      BY <1>5, <2>1, BestOfNone
    <2>2. CASE First(m) # {}
      BY <1>5, <1>6, <2>2, BestGreatest
    <2>3. QED
      BY <2>1, <2>2
  <1>8. ASSUME NEW m \in Machines
        PROVE  Of(m)' = Rest(m) \cup ({Best(First(m))} \ {None}) /\ Of(m)' \subseteq Of(m)
    <2>1. Of(m)' = Rest(m) \cup ({table'[m]} \ {None})
      BY DEF Of, Candidates, Rest
    <2>2. QED
      BY <1>4, <1>5, <1>7, <2>1
  <1>9. ASSUME NEW m \in Machines PROVE Best(Of(m)') = Best(Of(m))
    <2>1. Best(Rest(m) \cup ({Best(First(m))} \ {None})) = Best(First(m) \cup Rest(m))
      BY <1>6, BestOfParts
    <2>2. QED
      BY <1>4, <1>8, <2>1
  <1>10. TypeInv'
    <2>1. \A m \in Machines : table'[m] \in Rows \cup {None}
      BY <1>6, <1>7
    <2>2. table' \in [Machines -> Rows \cup {None}]
      BY <2>1 DEF InsertRVMs, Merge
    <2>3. \A m \in Machines : table'[m] # None => table'[m].id = m
      <3>1. \A m \in Machines : \A r \in First(m) : r.id = m
        BY <1>4, OfTypes DEF IInv
      <3>2. QED
        BY <1>7, <3>1
    <2>4. TypeOK'
      BY <1>2, <2>2 DEF IInv, TypeInv, TypeOK, InsertRVMs, envVars, memVars, histVars
    <2>5. QED
      BY <2>3, <2>4 DEF IInv, TypeInv, InsertRVMs, envVars
  <1>11. RowsInv'
    BY <1>1, <1>8 DEF IInv, RowsInv, Bounded, Distinct
  <1>12. DownInv'
    <2>1. rowBuffer # <<>>
      OBVIOUS
    <2>2. QED
      BY <1>1, <2>1 DEF IInv, DownInv
  <1>13. FollowInv'
    <2>1. \A m \in Machines : Agree(m) => Agree(m)'
      BY <1>1, <1>9 DEF Agree
    <2>2. Writing' = Writing
      BY <1>1 DEF Writing
    <2>3. QED
      BY <1>1, <2>1, <2>2 DEF IInv, FollowInv
  <1>14. QED
    BY <1>10, <1>11, <1>12, <1>13 DEF IInv

LEMMA CrashStep ==
    ASSUME IInv, Crash
    PROVE  IInv'
  <1>1. /\ Range(rowsToDo') = {} /\ Range(rowBuffer') = {} /\ DOMAIN active' = {}
        /\ rowsToDo' = <<>> /\ rowBuffer' = <<>>
        /\ running' = FALSE /\ UNCHANGED <<clock, table>>
    BY DEF Crash, Range, dbVars
  <1>2. TypeOK'
    <2>1. /\ rowsToDo \in Seq(Rows) /\ rowBuffer \in Seq(Rows)
          /\ eventsToDo \in Seq(EventRows) /\ eventBuffer \in Seq(EventRows)
          /\ lost \subseteq Machines
      BY DEF IInv, TypeInv, TypeOK
    <2>2. Range(rowBuffer \o rowsToDo) \subseteq Rows
      BY <2>1, RangeConcat, RangeOfSeq
    <2>3. Range(eventBuffer \o eventsToDo) \subseteq EventRows
      BY <2>1, RangeConcat, RangeOfSeq
    <2>4. lost' \subseteq Machines
      BY <2>1, <2>2, <2>3 DEF Crash, Rows, EventRows
    <2>5. crashes' \in 0..MaxCrashes
      BY TrackerAssumption DEF TrackerAssumption, Crash, IInv, TypeInv, TypeOK
    <2>6. /\ rowsToDo' \in Seq(Rows) /\ rowBuffer' \in Seq(Rows)
          /\ eventsToDo' \in Seq(EventRows) /\ eventBuffer' \in Seq(EventRows)
      BY DEF Crash
    <2>7. QED
      BY <1>1, <2>4, <2>5, <2>6 DEF Crash, dbVars, IInv, TypeInv, TypeOK
  <1>3. TypeInv'
    BY <1>2 DEF Crash, dbVars, IInv, TypeInv
  <1>4. \A m \in Machines : Of(m)' \subseteq Of(m)
    BY <1>1 DEF Of, Candidates, Waiting
  <1>5. RowsInv'
    BY <1>1, <1>4 DEF IInv, RowsInv, Bounded, Distinct
  <1>6. DownInv' /\ FollowInv'
    BY <1>1 DEF DownInv, FollowInv
  <1>7. QED
    BY <1>3, <1>5, <1>6 DEF IInv

\* After a restart the only row of a machine is the one in rvm_current.
LEMMA HydrateStep ==
    ASSUME IInv, Hydrate
    PROVE  IInv'
  <1>1. /\ rowsToDo' = <<>> /\ rowBuffer' = <<>> /\ DOMAIN active = {}
        /\ UNCHANGED <<clock, table, rowsToDo, rowBuffer>>
        /\ Range(rowsToDo) = {} /\ Range(rowBuffer) = {}
    BY DEF Hydrate, bufVars, dbVars, IInv, DownInv, Range
  <1>2. ASSUME NEW m \in Machines
        PROVE  /\ Of(m)' = Of(m) /\ Of(m) = {table[m]} \ {None}
               /\ table[m] \in Rows \cup {None}
               /\ table[m] # None => table[m].id = m
    <2>1. Of(m)' = Of(m) /\ Of(m) = {table[m]} \ {None}
      BY <1>1 DEF Of, Candidates, Waiting
    <2>2. QED
      BY <2>1 DEF IInv, TypeInv, TypeOK
  <1>3. ASSUME NEW m \in Machines PROVE Best(Of(m)') = table[m]
    <2>1. CASE table[m] = None
      BY <1>2, <2>1, BestOfNone
    <2>2. CASE table[m] # None
      <3>1. Of(m)' = {table[m]} /\ table[m] \in Rows
        BY <1>2, <2>2
      <3>2. Best({table[m]}) = table[m]
        BY <3>1, BestIs
      <3>3. QED
        BY <3>1, <3>2
    <2>3. QED
      BY <2>1, <2>2
  <1>4. Alive \subseteq Machines /\ \A m \in Alive : table[m] \in Rows /\ table[m].id = m
    BY <1>2 DEF Alive
  <1>5. \/ active' = [m \in Alive |-> table[m]] /\ stale' = {}
        \/ active' = active /\ stale' = Alive
    BY DEF Hydrate
  <1>6. TypeInv'
    <2>1. /\ DOMAIN active' \subseteq Machines
          /\ \A m \in DOMAIN active' : active'[m] \in Rows /\ active'[m].id = m
          /\ stale' \subseteq Machines
      BY <1>1, <1>4, <1>5
    <2>2. QED
      BY <2>1 DEF Hydrate, envVars, bufVars, dbVars, IInv, TypeInv, TypeOK
  <1>7. RowsInv' /\ DownInv'
    BY <1>1, <1>2 DEF Hydrate, IInv, RowsInv, DownInv
  <1>8. FollowInv'
    <2>1. ASSUME NEW m \in Machines, m \notin stale' PROVE Agree(m)'
      <3>1. CASE active' = [x \in Alive |-> table[x]]
        BY <1>3, <3>1 DEF Agree, Alive
      <3>2. CASE active' = active /\ stale' = Alive
        BY <1>1, <1>3, <2>1, <3>2 DEF Agree, Alive
      <3>3. QED
        BY <1>5, <3>1, <3>2
    <2>2. Writing' = {}
      BY <1>1 DEF Writing
    <2>3. QED
      BY <2>1, <2>2 DEF FollowInv
  <1>9. QED
    BY <1>6, <1>7, <1>8 DEF IInv

\* The rows that a poll leaves to be enqueued are those of its diff.
LEMMA PolledRows ==
    ASSUME IInv, NEW answer, Answer(answer), PollAnswered(answer)
    PROVE  rowsToDo' \in Seq(Rows) /\ Range(rowsToDo') = Diff(active, answer, clock)
  <1> DEFINE diff == Diff(active, answer, clock)
  <1>0. Held(active) /\ clock \in Nat \ {0}
    BY DEF IInv, TypeInv, TypeOK, Held
  <1>1. PICK added \in Orders(AddedRows(active, answer, clock)),
             updated \in Orders(UpdatedRows(active, answer, clock)),
             removed \in Orders(RemovedRows(active, answer, clock)) :
                rowsToDo' = added \o updated \o removed
    BY DEF PollAnswered
  <1>2. /\ added \in Seq(AddedRows(active, answer, clock))
        /\ updated \in Seq(UpdatedRows(active, answer, clock))
        /\ removed \in Seq(RemovedRows(active, answer, clock))
        /\ Range(added) = AddedRows(active, answer, clock)
        /\ Range(updated) = UpdatedRows(active, answer, clock)
        /\ Range(removed) = RemovedRows(active, answer, clock)
    BY <1>0, DiffFinite, OrdersEnumerate
  <1>3. /\ AddedRows(active, answer, clock) \subseteq diff
        /\ UpdatedRows(active, answer, clock) \subseteq diff
        /\ RemovedRows(active, answer, clock) \subseteq diff
    BY DEF Diff
  <1>4. diff \subseteq Rows
    BY <1>0, DiffSays
  <1> HIDE DEF diff
  <1>5. added \in Seq(Rows) /\ updated \in Seq(Rows) /\ removed \in Seq(Rows)
    BY <1>2, <1>3, <1>4
  <1> DEFINE front == added \o updated
  <1>6. front \in Seq(Rows) /\ Range(front) = Range(added) \cup Range(updated)
    BY <1>5, RangeConcat
  <1>7. rowsToDo' = front \o removed
    BY <1>1
  <1> HIDE DEF front
  <1>8. rowsToDo' \in Seq(Rows) /\ Range(rowsToDo') = Range(front) \cup Range(removed)
    BY <1>5, <1>6, <1>7, RangeConcat
  <1>9. QED
    BY <1>2, <1>6, <1>8 DEF diff, Diff

\* A poll: a machine whose row changes is told by the new row, any other by its old one.
LEMMA PollStep ==
    ASSUME IInv, NEW answer, Answer(answer), PollAnswered(answer),
           changes' \in 0..MaxChanges
    PROVE  IInv'
  <1> DEFINE diff == Diff(active, answer, clock)
  <1>1. /\ Held(active) /\ clock \in Nat \ {0} /\ rowBuffer \in Seq(Rows)
        /\ running /\ running' /\ rowsToDo = <<>> /\ active' = NewMap(answer)
        /\ UNCHANGED <<rowBuffer, table, stale>>
    BY DEF IInv, TypeInv, TypeOK, Held, PollAnswered, bufVars, dbVars, histVars
  <1>2. rowsToDo' \in Seq(Rows) /\ Range(rowsToDo') = diff
    BY PolledRows
  <1>3. eventsToDo' \in Seq(EventRows)
    <2>1. PICK changed \in Orders(ChangeEvents(active, answer)),
               removed \in Orders(RemovalEvents(active, answer)) :
                  eventsToDo' = changed \o removed
      BY DEF PollAnswered
    <2>2. /\ changed \in Seq(ChangeEvents(active, answer))
          /\ removed \in Seq(RemovalEvents(active, answer))
      BY <1>1, DiffFinite, OrdersEnumerate
    <2>3. /\ ChangeEvents(active, answer) \subseteq EventRows
          /\ RemovalEvents(active, answer) \subseteq EventRows
      BY <1>1, EventTypes
    <2>4. changed \in Seq(EventRows) /\ removed \in Seq(EventRows)
      BY <2>2, <2>3
    <2>5. QED
      BY <2>1, <2>4, RangeConcat
  <1>4. /\ \A r \in diff :
              /\ r \in Rows /\ r.updatedAt = clock
              /\ r.id \in DOMAIN answer => /\ ~r.isDeleted
                                           /\ r.status = answer[r.id].status
                                           /\ r.name = answer[r.id].name
              /\ r.id \notin DOMAIN answer => r.isDeleted
        /\ \A r, s \in diff : r.id = s.id => r = s
        /\ \A m : (\A r \in diff : r.id # m) =>
              /\ m \in DOMAIN answer <=> m \in DOMAIN active
              /\ m \in DOMAIN answer => /\ answer[m].status = active[m].status
                                        /\ answer[m].name = active[m].name
    BY <1>1, DiffSays
  <1> HIDE DEF diff
  <1>5. /\ clock' \in Nat \ {0} /\ clock' >= clock
        /\ diff # {} => clock' - 1 = clock
    <2>1. rowsToDo' # <<>> => clock' = clock + 1
      BY DEF PollAnswered
    <2>2. rowsToDo' = <<>> => clock' = clock
      BY DEF PollAnswered
    <2>3. diff = {} <=> rowsToDo' = <<>>
      BY <1>2, RangeOfSeq
    <2>4. QED
      BY <1>1, <2>1, <2>2, <2>3
  <1>6. \A m \in DOMAIN answer : active'[m] \in Rows /\ active'[m].id = m
                                /\ active'[m].status = answer[m].status
                                /\ active'[m].name = answer[m].name
    BY <1>1 DEF Answer, NewMap, Polled, Row, Rows, Listings
  <1>7. DOMAIN active' = DOMAIN answer
    BY <1>1 DEF NewMap
  <1>8. TypeInv'
    <2>1. TypeOK'
      BY <1>2, <1>3, <1>5, <1>6, <1>7
      DEF IInv, TypeInv, TypeOK, PollAnswered, bufVars, dbVars, histVars, Answer
    <2>2. QED
      BY <2>1 DEF IInv, TypeInv, PollAnswered, dbVars
  <1>9. Waiting' = Waiting \cup diff
    <2>1. Range(rowsToDo) = {}
      BY <1>1 DEF Range
    <2>2. QED
      BY <1>1, <1>2, <2>1 DEF Waiting
  <1>10. \A m \in Machines : Of(m)' = Of(m) \cup {r \in diff : r.id = m}
    BY <1>1, <1>9 DEF Of, Candidates
  <1>11. ASSUME NEW m \in Machines
         PROVE  /\ Of(m) \in SUBSET Rows /\ Bounded(Of(m), clock - 1) /\ Distinct(Of(m))
                /\ \A r \in Of(m) : r.updatedAt \in Nat /\ r.updatedAt < clock
    <2>1. Of(m) \in SUBSET Rows
      BY OfTypes DEF IInv
    <2>2. Bounded(Of(m), clock - 1) /\ Distinct(Of(m))
      BY DEF IInv, RowsInv
    <2>3. \A r \in Of(m) : r.updatedAt \in Nat
      BY <2>1 DEF Rows
    <2>4. QED
      BY <1>1, <2>1, <2>2, <2>3 DEF Bounded
  <1>12. ASSUME NEW m \in Machines, NEW r \in diff, r.id = m
         PROVE  /\ Of(m)' = Of(m) \cup {r}
                /\ Bounded(Of(m)', clock' - 1) /\ Distinct(Of(m)')
                /\ Agree(m)'
    <2>1. {s \in diff : s.id = m} = {r}
      BY <1>4, <1>12
    <2>2. Of(m)' = Of(m) \cup {r}
      BY <1>10, <2>1
    <2>3. r.updatedAt = clock /\ clock' - 1 = clock /\ r \in Rows
      BY <1>4, <1>5
    <2>4. \A w \in Of(m)' : w = r \/ w.updatedAt < r.updatedAt
      BY <1>11, <2>2, <2>3
    <2>5. Bounded(Of(m)', clock' - 1)
      BY <1>1, <1>11, <2>2, <2>3 DEF Bounded
    <2>6. Distinct(Of(m)')
      BY <1>1, <1>11, <2>2, <2>3 DEF Distinct
    <2>7. Best(Of(m)') = r
      <3>1. Of(m)' \in SUBSET Rows /\ r \in Of(m)'
        BY <1>11, <2>2, <2>3
      <3>2. QED
        BY <2>4, <3>1, BestIs
    <2>8. None # r
      BY <2>3, TrackerAssumption DEF TrackerAssumption
    <2>9. Agree(m)'
      <3>1. m \in DOMAIN answer => ~r.isDeleted /\ r.status = answer[m].status
                                   /\ r.name = answer[m].name
        BY <1>4, <1>12
      <3>2. m \notin DOMAIN answer => r.isDeleted
        BY <1>4, <1>12
      <3>3. QED
        BY <1>6, <1>7, <2>7, <2>8, <3>1, <3>2 DEF Agree
    <2>10. QED
      BY <2>2, <2>5, <2>6, <2>9
  <1>13. ASSUME NEW m \in Machines, \A r \in diff : r.id # m
         PROVE  /\ Of(m)' = Of(m)
                /\ Bounded(Of(m)', clock' - 1) /\ Distinct(Of(m)')
                /\ Agree(m) => Agree(m)'
    <2>1. Of(m)' = Of(m)
      BY <1>10, <1>13
    <2>2. Bounded(Of(m), clock' - 1)
      BY <1>1, <1>5, <1>11 DEF Bounded
    <2>3. /\ m \in DOMAIN active' <=> m \in DOMAIN active
          /\ m \in DOMAIN active' => /\ active'[m].status = active[m].status
                                     /\ active'[m].name = active[m].name
      BY <1>4, <1>6, <1>7, <1>13
    <2>4. Agree(m) => Agree(m)'
      BY <2>1, <2>3 DEF Agree
    <2>5. QED
      BY <1>11, <2>1, <2>2, <2>4
  <1>14. RowsInv'
    <2>1. \A m \in Machines : Bounded(Of(m)', clock' - 1) /\ Distinct(Of(m)')
      BY <1>12, <1>13
    <2>2. \A r \in Range(rowsToDo') : r.updatedAt = clock' - 1
      BY <1>2, <1>4, <1>5
    <2>3. QED
      BY <2>1, <2>2 DEF RowsInv
  <1>15. FollowInv'
    <2>1. ASSUME NEW m \in Machines, m \notin stale' \/ m \in Writing' PROVE Agree(m)'
      <3>1. CASE \E r \in diff : r.id = m
        BY <1>12, <3>1
      <3>2. CASE \A r \in diff : r.id # m
        <4>1. m \notin Writing'
          BY <1>2, <3>2 DEF Writing
        <4>2. Agree(m)
          BY <1>1, <2>1, <4>1 DEF IInv, FollowInv
        <4>3. QED
          BY <1>13, <3>2, <4>2
      <3>3. QED
        BY <3>1, <3>2
    <2>2. QED
      BY <2>1 DEF FollowInv
  <1>16. DownInv'
    BY <1>1 DEF DownInv
  <1>17. QED
    BY <1>8, <1>14, <1>15, <1>16 DEF IInv

LEMMA NextStep == IInv /\ [Next]_vars => IInv'
  <1> SUFFICES ASSUME IInv, [Next]_vars PROVE IInv'
    OBVIOUS
  <1>1. CASE \E m \in Machines : Change(m)
    BY <1>1, ChangeStep
  <1>2. CASE PollLocations
    <2>1. Answer(Directory)
      BY DEF Answer, Directory, IInv, TypeInv, TypeOK
    <2>2. changes' \in 0..MaxChanges
      BY <1>2 DEF PollLocations, IInv, TypeInv, TypeOK
    <2>3. QED
      BY <1>2, <2>1, <2>2, PollStep DEF PollLocations
  <1>3. CASE PollBlank
    <2>1. DOMAIN <<>> = {}
      OBVIOUS
    <2>2. Answer(<<>>)
      BY <2>1 DEF Answer
    <2>3. changes' \in 0..MaxChanges
      BY <1>3, TrackerAssumption DEF PollBlank, IInv, TypeInv, TypeOK, TrackerAssumption
    <2>4. QED
      BY <1>3, <2>2, <2>3, PollStep DEF PollBlank
  <1>4. CASE EnqueueRow
    BY <1>4, EnqueueRowStep
  <1>5. CASE EnqueueEvent
    BY <1>5, EnqueueEventStep
  <1>6. CASE InsertStep
    BY <1>6, InsertRVMsStep, InsertEventsStep DEF InsertStep
  <1>7. CASE Crash
    BY <1>7, CrashStep
  <1>8. CASE Hydrate
    BY <1>8, HydrateStep
  <1>9. CASE UNCHANGED vars
    <2>1. TypeInv'
      BY <1>9 DEF IInv, TypeInv, TypeOK, vars, envVars, memVars, bufVars, dbVars, histVars
    <2>2. QED
      BY <1>9, <2>1, RowsAlone DEF vars, envVars, memVars, bufVars, dbVars, histVars
  <1>10. QED
    BY <1>1, <1>2, <1>3, <1>4, <1>5, <1>6, <1>7, <1>8, <1>9 DEF Next

\* DatabaseFollows, and the machines of which rows are still to be enqueued.
WritingFollows ==
    running =>
        \A m \in Machines :
            m \notin stale \/ m \in Writing =>
                /\ m \in DOMAIN active <=> InDatabase(m)
                /\ m \in DOMAIN active => /\ Newest(m).status = active[m].status
                                          /\ Newest(m).name = active[m].name

\* A row that is still to be enqueued is the newest of its machine.
WritingNewest == \A r \in Range(rowsToDo) : Newest(r.id) = r

LEMMA Newer == IInv => WritingNewest
  <1> SUFFICES ASSUME IInv, NEW r \in Range(rowsToDo) PROVE Newest(r.id) = r
    BY DEF WritingNewest
  <1>1. Waiting \subseteq Rows /\ r \in Waiting
    BY OfTypes DEF IInv, Waiting
  <1>2. r \in Rows /\ r.id \in Machines /\ r.updatedAt \in Nat
    BY <1>1 DEF Rows
  <1>3. Of(r.id) \in SUBSET Rows /\ r \in Of(r.id)
    BY <1>1, <1>2, OfTypes DEF IInv, Of, Candidates
  <1>4. /\ Bounded(Of(r.id), clock - 1) /\ Distinct(Of(r.id)) /\ r.updatedAt = clock - 1
    BY <1>2 DEF IInv, RowsInv
  <1>5. \A w \in Of(r.id) : w = r \/ w.updatedAt < r.updatedAt
    <2>1. \A w \in Of(r.id) : w.updatedAt \in Nat /\ w.updatedAt <= r.updatedAt
      BY <1>3, <1>4 DEF Rows, Bounded
    <2>2. QED
      BY <1>2, <1>3, <1>4, <2>1 DEF Distinct
  <1>6. Best(Of(r.id)) = r
    BY <1>3, <1>5, BestIs
  <1>7. QED
    BY <1>2, <1>6, NewestIsBest DEF IInv

LEMMA Follows == IInv => WritingFollows /\ DatabaseFollows
  <1> SUFFICES ASSUME IInv PROVE WritingFollows
    BY DEF WritingFollows, DatabaseFollows
  <1> SUFFICES ASSUME running, NEW m \in Machines, m \notin stale \/ m \in Writing
               PROVE  /\ m \in DOMAIN active <=> InDatabase(m)
                      /\ m \in DOMAIN active => /\ Newest(m).status = active[m].status
                                                /\ Newest(m).name = active[m].name
    BY DEF WritingFollows
  <1>1. Agree(m)
    BY DEF IInv, FollowInv
  <1>2. Newest(m) = Best(Of(m))
    BY NewestIsBest DEF IInv
  <1>3. QED
    BY <1>1, <1>2 DEF Agree, InDatabase

\* Memory holds the answer after a poll, so that what follows memory follows upstream.
LEMMA PollAgrees == IInv /\ [Next]_vars /\ PollLocations /\ WritingFollows' =>
                      \A m \in (Machines \ stale) \cup Writing' : Says(Newest(m)', upstream[m])
  <1> SUFFICES ASSUME IInv, [Next]_vars, PollLocations, WritingFollows',
                      NEW m \in (Machines \ stale) \cup Writing'
               PROVE  Says(Newest(m)', upstream[m])
    OBVIOUS
  <1>1. IInv'
    BY NextStep
  <1>2. m \in Machines
    <2>1. rowsToDo' \in Seq(Rows)
      BY <1>1 DEF IInv, TypeInv, TypeOK
    <2>2. Range(rowsToDo') \subseteq Rows
      BY <2>1, RangeOfSeq
    <2>3. QED
      BY <2>2 DEF Rows, Writing
  <1>3. running' /\ stale' = stale /\ upstream' = upstream /\ active' = NewMap(Directory)
    BY DEF PollLocations, PollAnswered, histVars
  <1>4. m \notin stale' \/ m \in Writing'
    BY <1>3
  <1>5. /\ m \in DOMAIN active' <=> InDatabase(m)'
        /\ m \in DOMAIN active' => /\ Newest(m)'.status = active'[m].status
                                   /\ Newest(m)'.name = active'[m].name
    BY <1>2, <1>3, <1>4 DEF WritingFollows
  <1>6. InDatabase(m)' <=> Newest(m)' # None /\ ~Newest(m)'.isDeleted
    BY DEF InDatabase
  <1>7. CASE upstream[m] = None
    <2>1. m \notin DOMAIN active'
      BY <1>3, <1>7 DEF NewMap, Directory
    <2>2. QED
      BY <1>5, <1>6, <1>7, <2>1 DEF Says
  <1>8. CASE upstream[m] # None
    <2>1. m \in DOMAIN active' /\ active'[m] = Polled(upstream[m])
      BY <1>2, <1>3, <1>8 DEF NewMap, Directory
    <2>2. active'[m].status = upstream[m].status /\ active'[m].name = upstream[m].name
      BY <2>1 DEF Polled, Row
    <2>3. QED
      BY <1>5, <1>6, <1>8, <2>1, <2>2 DEF Says
  <1>9. QED
    BY <1>7, <1>8

\* The row that a poll writes of a listed machine holds the JSON of the answer.
LEMMA PollStores == IInv /\ PollLocations /\ WritingNewest' =>
                      \A m \in Writing' :
                          upstream[m] # None => Newest(m)'.raw = upstream[m].raw
  <1> SUFFICES ASSUME IInv, PollLocations, WritingNewest',
                      NEW m \in Writing', upstream[m] # None
               PROVE  Newest(m)'.raw = upstream[m].raw
    OBVIOUS
  <1>1. PICK r \in Range(rowsToDo') : r.id = m
    BY DEF Writing
  <1>2. Newest(m)' = r
    BY <1>1 DEF WritingNewest
  <1>3. Answer(Directory) /\ Held(active) /\ clock \in Nat
    BY DEF Answer, Directory, Held, IInv, TypeInv, TypeOK
  <1>4. r \in Diff(active, Directory, clock)
    BY <1>1, <1>3, PolledRows DEF PollLocations
  <1>5. r \in Rows
    BY <1>3, <1>4, DiffSays
  <1>6. m \in DOMAIN Directory /\ Directory[m] = upstream[m]
    BY <1>1, <1>5 DEF Directory, Rows
  <1>7. r.raw = Directory[m].raw
    BY <1>1, <1>3, <1>4, <1>6, DiffSays
  <1>8. QED
    BY <1>2, <1>6, <1>7
-------------------------------------------------------------------------------
(* Events.  While the buffer loses and repeats nothing, each event continues    *)
(* the one before it, and the last one tells what memory, or after a crash the  *)
(* database, holds.                                                            *)

Quiet == ~MayDrop /\ ~MayRepeat /\ ~MayForget

\* m's last event before, or among the first n of events.
LastIn(before, events, n, m) == LastEvent(before[m], SubSeq(events, 1, n), m)

\* The last event before counts, or one of the first n of events makes up for it.
Known(gone, events, n, m) == m \notin gone \/ Occurs(SubSeq(events, 1, n), m)

Linked(before, gone, events) ==
    \A i \in 1..Len(events) :
        Known(gone, events, i - 1, events[i].id)
            => Continues(LastIn(before, events, i - 1, events[i].id), events[i])

Told(before, gone, events, rvms) ==
    \A m \in Machines :
        Known(gone, events, Len(events), m)
            => Tells(LastIn(before, events, Len(events), m), rvms, m)

\* The events that are inserted count through the log, and make up for what was lost.
LEMMA InsertLinks ==
    ASSUME NEW part \in Seq(EventRows), NEW next \in Seq(EventRows),
           NEW before, NEW after, NEW gone, NEW left, NEW rvms,
           \A m \in Machines : after[m] = LastEvent(before[m], part, m),
           \A m \in Machines : m \notin left => m \notin gone \/ Occurs(part, m),
           Linked(before, gone, part \o next), Told(before, gone, part \o next, rvms)
    PROVE  Linked(after, left, next) /\ Told(after, left, next, rvms)
  <1> DEFINE all == part \o next
             k == Len(part)
  <1>1. /\ all \in Seq(EventRows) /\ Len(all) = k + Len(next) /\ k \in Nat /\ Len(next) \in Nat
        /\ \A i \in 1..Len(next) : all[k + i] = next[i]
    BY ConcatElements
  <1>2. \A n \in 0..Len(next) : SubSeq(all, 1, k + n) = part \o SubSeq(next, 1, n)
    BY ConcatPrefix
  <1>3. \A n \in 0..Len(next) : SubSeq(next, 1, n) \in Seq(EventRows)
    BY <1>1
  <1>4. \A i \in 1..Len(next) : next[i].id \in Machines
    <2>1. \A i \in 1..Len(next) : next[i] \in EventRows
      BY <1>1
    <2>2. QED
      BY <2>1 DEF EventRows
  <1> HIDE DEF all, k
  <1>5. ASSUME NEW m \in Machines, NEW n \in 0..Len(next)
        PROVE  LastIn(after, next, n, m) = LastIn(before, all, k + n, m)
    <2>1. LastIn(before, all, k + n, m) = LastEvent(before[m], part \o SubSeq(next, 1, n), m)
      BY <1>2 DEF LastIn
    <2>2. LastIn(after, next, n, m)
             = LastEvent(LastEvent(before[m], part, m), SubSeq(next, 1, n), m)
      BY DEF LastIn
    <2>3. LastEvent(before[m], part \o SubSeq(next, 1, n), m)
             = LastEvent(LastEvent(before[m], part, m), SubSeq(next, 1, n), m)
      <3> DEFINE some == SubSeq(next, 1, n)
      <3>1. some \in Seq(EventRows)
        BY <1>3
      <3> HIDE DEF some
      <3>2. LastEvent(before[m], part \o some, m)
               = LastEvent(LastEvent(before[m], part, m), some, m)
        BY <3>1, LastEventConcat
      <3>3. QED
        BY <3>2 DEF some
    <2>4. QED
      BY <2>1, <2>2, <2>3
  <1>6. ASSUME NEW m \in Machines, NEW n \in 0..Len(next), Known(left, next, n, m)
        PROVE  Known(gone, all, k + n, m)
    <2>1. SubSeq(next, 1, n) \in Seq(EventRows) /\ SubSeq(all, 1, k + n) = part \o SubSeq(next, 1, n)
      BY <1>2, <1>3
    <2>2. Occurs(part \o SubSeq(next, 1, n), m)
             <=> Occurs(part, m) \/ Occurs(SubSeq(next, 1, n), m)
      BY <2>1, OccursConcat
    <2>3. QED
      BY <1>6, <2>1, <2>2 DEF Known
  <1>7. Linked(after, left, next)
    <2>1. ASSUME NEW i \in 1..Len(next), Known(left, next, i - 1, next[i].id)
          PROVE  Continues(LastIn(after, next, i - 1, next[i].id), next[i])
      <3> DEFINE j == k + i
                 m == next[i].id
      <3>1. /\ j \in 1..Len(all) /\ j - 1 = k + (i - 1) /\ all[j] = next[i]
            /\ i - 1 \in 0..Len(next) /\ m \in Machines
        BY <1>1, <1>4
      <3> HIDE DEF j
      <3>2. Known(gone, all, j - 1, all[j].id)
        BY <1>6, <2>1, <3>1
      <3>3. Continues(LastIn(before, all, j - 1, all[j].id), all[j])
        BY <3>1, <3>2 DEF Linked, all
      <3>4. QED
        BY <1>5, <3>1, <3>3
    <2>2. QED
      BY <2>1 DEF Linked
  <1>8. Told(after, left, next, rvms)
    <2>1. ASSUME NEW m \in Machines, Known(left, next, Len(next), m)
          PROVE  Tells(LastIn(after, next, Len(next), m), rvms, m)
      <3>1. Len(next) \in 0..Len(next) /\ k + Len(next) = Len(all)
        BY <1>1
      <3>2. Known(gone, all, Len(all), m)
        BY <1>6, <2>1, <3>1
      <3>3. LastIn(after, next, Len(next), m) = LastIn(before, all, Len(all), m)
        BY <1>5, <3>1
      <3>4. QED
        BY <3>2, <3>3 DEF Told, all
    <2>2. QED
      BY <2>1 DEF Told
  <1>9. QED
    BY <1>7, <1>8

\* A poll adds at most one event of a machine, which continues the last one.
LEMMA PollLinks ==
    ASSUME NEW waiting \in Seq(EventRows), NEW new \in Seq(EventRows),
           NEW before, NEW gone, NEW previous, NEW current,
           Held(previous), Answer(current),
           Range(new) = DiffEvents(previous, current),
           \A i, j \in 1..Len(new) : new[i] = new[j] => i = j,
           Linked(before, gone, waiting), Told(before, gone, waiting, previous)
    PROVE  Linked(before, gone, waiting \o new) /\ Told(before, gone, waiting \o new, current)
  <1> DEFINE all == waiting \o new
             k == Len(waiting)
             known(m) == Known(gone, waiting, k, m)
             last(m) == LastIn(before, waiting, k, m)
  <1>1. /\ all \in Seq(EventRows) /\ Len(all) = k + Len(new) /\ k \in Nat /\ Len(new) \in Nat
        /\ \A i \in 1..k : all[i] = waiting[i]
        /\ \A i \in 1..Len(new) : all[k + i] = new[i]
    BY ConcatElements
  <1>2. /\ \A n \in 0..k : SubSeq(all, 1, n) = SubSeq(waiting, 1, n)
        /\ \A n \in 0..Len(new) : SubSeq(all, 1, k + n) = waiting \o SubSeq(new, 1, n)
        /\ SubSeq(waiting, 1, k) = waiting
    BY ConcatPrefix
  <1>3. \A n \in 0..Len(new) : /\ SubSeq(new, 1, n) \in Seq(EventRows)
                               /\ Len(SubSeq(new, 1, n)) = n
                               /\ \A i \in 1..n : SubSeq(new, 1, n)[i] = new[i]
    BY <1>1
  <1>4. \A i \in 1..Len(new) : new[i] \in DiffEvents(previous, current)
                               /\ new[i].id \in Machines
    <2>1. \A i \in 1..Len(new) : new[i] \in EventRows /\ new[i] \in Range(new)
      BY <1>1, RangeOfSeq
    <2>2. QED
      BY <2>1 DEF EventRows
  <1> HIDE DEF all, k
  <1>5. /\ \A e \in DiffEvents(previous, current) :
              /\ e \in EventRows
              /\ e.type = "MACHINE_ADDED" <=> e.id \notin DOMAIN previous
              /\ e.id \in DOMAIN previous => e.from = previous[e.id].status
              /\ e.type = "STATUS_CHANGED" => e.from # e.to
              /\ Closing(e) <=> e.id \notin DOMAIN current
              /\ e.id \in DOMAIN current => e.to = current[e.id].status
        /\ \A e, f \in DiffEvents(previous, current) : e.id = f.id => e = f
        /\ \A m : (\A e \in DiffEvents(previous, current) : e.id # m) =>
              /\ m \in DOMAIN current <=> m \in DOMAIN previous
              /\ m \in DOMAIN current => current[m].status = previous[m].status
    BY DiffTells
  <1>6. \A i, j \in 1..Len(new) : new[i].id = new[j].id => i = j
    BY <1>4, <1>5
  <1>7. ASSUME NEW m \in Machines, NEW n \in 0..Len(new)
        PROVE  /\ LastIn(before, all, k + n, m) = LastEvent(last(m), SubSeq(new, 1, n), m)
               /\ Known(gone, all, k + n, m) <=> known(m) \/ Occurs(SubSeq(new, 1, n), m)
    <2>1. SubSeq(new, 1, n) \in Seq(EventRows)
          /\ SubSeq(all, 1, k + n) = waiting \o SubSeq(new, 1, n)
      BY <1>2, <1>3
    <2>2. LastEvent(before[m], waiting \o SubSeq(new, 1, n), m)
             = LastEvent(LastEvent(before[m], waiting, m), SubSeq(new, 1, n), m)
      <3> DEFINE some == SubSeq(new, 1, n)
      <3>1. some \in Seq(EventRows)
        BY <2>1
      <3> HIDE DEF some
      <3>2. LastEvent(before[m], waiting \o some, m)
               = LastEvent(LastEvent(before[m], waiting, m), some, m)
        BY <3>1, LastEventConcat
      <3>3. QED
        BY <3>2 DEF some
    <2>3. Occurs(waiting \o SubSeq(new, 1, n), m)
             <=> Occurs(waiting, m) \/ Occurs(SubSeq(new, 1, n), m)
      BY <2>1, OccursConcat
    <2>4. last(m) = LastEvent(before[m], waiting, m)
      BY <1>2 DEF LastIn
    <2>5. known(m) <=> m \notin gone \/ Occurs(waiting, m)
      BY <1>2 DEF Known
    <2>6. LastIn(before, all, k + n, m) = LastEvent(last(m), SubSeq(new, 1, n), m)
      BY <2>1, <2>2, <2>4 DEF LastIn
    <2>7. Known(gone, all, k + n, m) <=> known(m) \/ Occurs(SubSeq(new, 1, n), m)
      BY <2>1, <2>3, <2>5 DEF Known
    <2>8. QED
      BY <2>6, <2>7
  <1>8. \A m \in Machines : known(m) => Tells(last(m), previous, m)
    BY DEF Told, k
  <1> HIDE DEF known, last
  <1>9. ASSUME NEW m \in Machines, NEW i \in 1..Len(new), new[i].id = m, known(m)
        PROVE  Continues(last(m), new[i])
    <2>1. Tells(last(m), previous, m)
      BY <1>8, <1>9
    <2>2. new[i] \in DiffEvents(previous, current)
      BY <1>4
    <2>3. QED
      BY <1>5, <1>9, <2>1, <2>2 DEF Continues, Tells
  <1>10. Linked(before, gone, all)
    <2>1. ASSUME NEW i \in 1..Len(all), Known(gone, all, i - 1, all[i].id)
          PROVE  Continues(LastIn(before, all, i - 1, all[i].id), all[i])
      <3>1. CASE i <= k
        <4>1. /\ i \in 1..Len(waiting) /\ i - 1 \in 0..k /\ all[i] = waiting[i]
          BY <1>1, <3>1 DEF k
        <4>2. SubSeq(all, 1, i - 1) = SubSeq(waiting, 1, i - 1)
          BY <1>2, <4>1
        <4>3. Known(gone, waiting, i - 1, waiting[i].id)
          BY <2>1, <4>1, <4>2 DEF Known
        <4>4. Continues(LastIn(before, waiting, i - 1, waiting[i].id), waiting[i])
          BY <4>1, <4>3 DEF Linked
        <4>5. QED
          BY <4>1, <4>2, <4>4 DEF LastIn
      <3>2. CASE i > k
        <4> DEFINE j == i - k
                   m == all[i].id
        <4>1. /\ j \in 1..Len(new) /\ k + (j - 1) = i - 1 /\ j - 1 \in 0..Len(new)
              /\ k + j = i
          BY <1>1, <3>2
        <4>2. all[i] = new[j] /\ m \in Machines /\ new[j].id = m
          BY <1>1, <1>4, <4>1
        <4> HIDE DEF j, m
        <4>3. ~Occurs(SubSeq(new, 1, j - 1), m)
          <5>1. ASSUME NEW h \in 1..(j - 1) PROVE h \in 1..Len(new) /\ h # j
            BY <1>1, <4>1
          <5>2. \A h \in 1..(j - 1) : new[h].id # m
            BY <1>6, <4>1, <4>2, <5>1
          <5>3. QED
            BY <1>3, <4>1, <5>2 DEF Occurs
        <4>4. known(m)
          <5>1. Known(gone, all, k + (j - 1), m)
            BY <2>1, <4>1 DEF m
          <5>2. QED
            BY <1>7, <4>1, <4>2, <4>3, <5>1
        <4>5. LastIn(before, all, k + (j - 1), m) = last(m)
          <5>1. SubSeq(new, 1, j - 1) \in Seq(EventRows)
            BY <1>3, <4>1
          <5>2. LastEvent(last(m), SubSeq(new, 1, j - 1), m) = last(m)
            BY <4>3, <5>1, LastEventNone
          <5>3. QED
            BY <1>7, <4>1, <4>2, <5>2
        <4>6. Continues(last(m), new[j])
          BY <1>9, <4>1, <4>2, <4>4
        <4>7. QED
          BY <4>1, <4>2, <4>5, <4>6 DEF m
      <3>3. i <= k \/ i > k
        BY <1>1
      <3>4. QED
        BY <3>1, <3>2, <3>3
    <2>2. QED
      BY <2>1 DEF Linked
  <1>11. Told(before, gone, all, current)
    <2>1. ASSUME NEW m \in Machines, Known(gone, all, Len(all), m)
          PROVE  Tells(LastIn(before, all, Len(all), m), current, m)
      <3>1. Len(new) \in 0..Len(new) /\ Len(all) = k + Len(new) /\ SubSeq(new, 1, Len(new)) = new
        BY <1>1
      <3>2. /\ LastIn(before, all, Len(all), m) = LastEvent(last(m), new, m)
            /\ known(m) \/ Occurs(new, m)
        BY <1>7, <2>1, <3>1
      <3>3. CASE Occurs(new, m)
        <4>1. PICK i \in 1..Len(new) : Latest(new, m, i)
          BY <3>3, LastIndex
        <4>2. LastEvent(last(m), new, m) = new[i]
          BY <4>1, LastEventIs
        <4>3. new[i].id = m /\ new[i] \in DiffEvents(previous, current)
          BY <1>4, <4>1 DEF Latest
        <4>4. new[i] # None
          BY <1>5, <4>3, TrackerAssumption DEF TrackerAssumption
        <4>5. Tells(new[i], current, m)
          BY <1>5, <4>3, <4>4 DEF Tells
        <4>6. QED
          BY <3>2, <4>2, <4>5
      <3>4. CASE ~Occurs(new, m)
        <4>1. LastEvent(last(m), new, m) = last(m)
          BY <3>4, LastEventNone
        <4>2. Tells(last(m), previous, m)
          BY <1>8, <3>2, <3>4
        <4>3. \A e \in DiffEvents(previous, current) : e.id # m
          <5>1. Range(new) = {new[i] : i \in 1..Len(new)}
            BY RangeOfSeq
          <5>2. QED
            BY <3>4, <5>1 DEF Occurs
        <4>4. Tells(last(m), current, m)
          BY <1>5, <4>2, <4>3 DEF Tells
        <4>5. QED
          BY <3>2, <4>1, <4>4
      <3>5. QED
        BY <3>3, <3>4
    <2>2. QED
      BY <2>1 DEF Told
  <1>12. QED
    BY <1>10, <1>11 DEF all

Events == eventBuffer \o eventsToDo

\* What memory will hold after the restart.
Loaded == [m \in Alive |-> table[m]]

EventsInv ==
    /\ Linked(log, lost, Events)
    /\ running => Told(log, lost, Events, active)
    /\ ~running => /\ eventBuffer = <<>> /\ eventsToDo = <<>>
                   /\ \A m \in Machines \ lost : Tells(log[m], Loaded, m)

EInv == IInv /\ stale = {} /\ EventsInv

LEMMA EventTypesOf ==
    ASSUME TypeInv
    PROVE  /\ eventBuffer \in Seq(EventRows) /\ eventsToDo \in Seq(EventRows)
           /\ Events \in Seq(EventRows)
           /\ \A i \in 1..Len(Events) : Events[i] \in EventRows /\ Events[i].id \in Machines
           /\ SubSeq(Events, 1, Len(Events)) = Events
  <1>1. eventBuffer \in Seq(EventRows) /\ eventsToDo \in Seq(EventRows)
    BY DEF TypeInv, TypeOK
  <1>2. Events \in Seq(EventRows)
    BY <1>1, RangeConcat DEF Events
  <1>3. \A i \in 1..Len(Events) : Events[i] \in EventRows /\ Events[i].id \in Machines
    <2>1. \A i \in 1..Len(Events) : Events[i] \in EventRows
      BY <1>2
    <2>2. QED
      BY <2>1 DEF EventRows
  <1>4. SubSeq(Events, 1, Len(Events)) = Events
    BY <1>2, ConcatPrefix
  <1>5. QED
    BY <1>1, <1>2, <1>3, <1>4

\* Where no event waits, the log alone counts.
LEMMA NoEvents ==
    ASSUME NEW before, NEW gone, NEW m
    PROVE  /\ LastIn(before, <<>>, 0, m) = before[m]
           /\ Known(gone, <<>>, 0, m) <=> m \notin gone
           /\ Linked(before, gone, <<>>)
  <1>1. SubSeq(<<>>, 1, 0) = <<>> /\ <<>> \in Seq(EventRows) /\ Len(<<>>) = 0
    OBVIOUS
  <1>2. ~Occurs(<<>>, m)
    BY <1>1 DEF Occurs
  <1>3. LastEvent(before[m], <<>>, m) = before[m]
    BY <1>1, <1>2, LastEventNone
  <1>4. LastIn(before, <<>>, 0, m) = before[m]
    BY <1>1, <1>3 DEF LastIn
  <1>5. Known(gone, <<>>, 0, m) <=> m \notin gone
    BY <1>1, <1>2 DEF Known
  <1>6. Linked(before, gone, <<>>)
    BY <1>1 DEF Linked
  <1>7. QED
    BY <1>4, <1>5, <1>6

LEMMA InitiallyTold == Quiet /\ Init => EInv
  <1> SUFFICES ASSUME Quiet, Init PROVE EInv
    OBVIOUS
  <1>1. IInv
    BY Initially
  <1>2. Events = <<>> /\ Len(<<>>) = 0 /\ DOMAIN active = {} /\ running
    BY DEF Init, Events
  <1>3. \A m \in Machines : Tells(None, active, m) /\ log[m] = None
    BY <1>2 DEF Tells, Init
  <1>4. Told(log, lost, Events, active)
    BY <1>2, <1>3, NoEvents DEF Told
  <1>5. Linked(log, lost, Events)
    BY <1>2, NoEvents
  <1>6. QED
    BY <1>1, <1>2, <1>4, <1>5 DEF EInv, EventsInv, Init

\* A step that leaves the events and memory alone.
LEMMA EventsAlone ==
    ASSUME EInv, IInv', stale' = {}, Events' = Events,
           UNCHANGED <<running, active, log, lost>>,
           ~running => UNCHANGED <<eventBuffer, eventsToDo, table>>
    PROVE  EInv'
  <1>1. Linked(log, lost, Events)'
    BY DEF EInv, EventsInv
  <1>2. running' => Told(log, lost, Events, active)'
    BY DEF EInv, EventsInv
  <1>3. ~running' => /\ eventBuffer' = <<>> /\ eventsToDo' = <<>>
                     /\ \A m \in Machines \ lost' : Tells(log'[m], Loaded', m)
    BY DEF EInv, EventsInv, Loaded, Alive
  <1>4. QED
    BY <1>1, <1>2, <1>3 DEF EInv, EventsInv

LEMMA EnqueueEventTold ==
    ASSUME Quiet, EInv, IInv', EnqueueEvent
    PROVE  EInv'
  <1>1. /\ eventsToDo # <<>> /\ eventsToDo' = Tail(eventsToDo)
        /\ eventBuffer' = Append(eventBuffer, Head(eventsToDo))
        /\ running /\ UNCHANGED <<running, active, log, lost, stale>>
    BY DEF EnqueueEvent, Quiet, dbVars, histVars
  <1>2. eventBuffer \in Seq(EventRows) /\ eventsToDo \in Seq(EventRows)
    BY EventTypesOf DEF EInv, IInv
  <1>3. Events' = Events
    BY <1>1, <1>2, MoveElement DEF Events
  <1>4. stale' = {}
    BY <1>1 DEF EInv
  <1>5. QED
    BY <1>1, <1>3, <1>4, EventsAlone

LEMMA InsertEventsTold ==
    ASSUME Quiet, EInv, IInv', NEW k \in 1..Len(eventBuffer), InsertEvents(k)
    PROVE  EInv'
  <1> DEFINE part == SubSeq(eventBuffer, 1, k)
             rest == SubSeq(eventBuffer, k + 1, Len(eventBuffer))
  <1>1. /\ eventBuffer' = rest
        /\ log' = [m \in Machines |-> LastEvent(log[m], part, m)]
        /\ lost' = lost \ {eventBuffer[i].id : i \in 1..k}
        /\ UNCHANGED <<running, active, eventsToDo, stale>>
    BY DEF InsertEvents, Quiet, memVars, histVars
  <1>2. running
    BY DEF EInv, EventsInv
  <1>3. eventBuffer \in Seq(EventRows) /\ eventsToDo \in Seq(EventRows)
    BY EventTypesOf DEF EInv, IInv
  <1>4. part \in Seq(EventRows) /\ rest \in Seq(EventRows) /\ Len(part) = k
    BY <1>3, SplitElements
  <1>5. \A i \in 1..k : part[i] = eventBuffer[i]
    BY <1>3
  <1>6. part \o rest = eventBuffer
    BY <1>3, SplitConcat
  <1> HIDE DEF part, rest
  <1>7. Events' = rest \o eventsToDo /\ rest \o eventsToDo \in Seq(EventRows)
    BY <1>1, <1>3, <1>4, RangeConcat DEF Events
  <1>8. Events = part \o (rest \o eventsToDo)
    <2>1. part \in Seq(EventRows) /\ rest \in Seq(EventRows) /\ eventsToDo \in Seq(EventRows)
      BY <1>3, <1>4
    <2>2. (part \o rest) \o eventsToDo = part \o (rest \o eventsToDo)
      BY <2>1, ConcatAssoc
    <2>3. QED
      BY <1>6, <2>2 DEF Events
  <1> DEFINE next == rest \o eventsToDo
             after == log'
             left == lost'
  <1>9. \A m \in Machines : after[m] = LastEvent(log[m], part, m)
    BY <1>1
  <1>10. \A m \in Machines : m \notin left => m \notin lost \/ Occurs(part, m)
    BY <1>1, <1>4, <1>5 DEF Occurs
  <1>11. next \in Seq(EventRows) /\ Events = part \o next
    BY <1>7, <1>8
  <1>12. Linked(log, lost, part \o next) /\ Told(log, lost, part \o next, active)
    BY <1>2, <1>11 DEF EInv, EventsInv
  <1> HIDE DEF next, after, left
  <1>13. Linked(after, left, next) /\ Told(after, left, next, active)
    BY <1>4, <1>9, <1>10, <1>11, <1>12, InsertLinks
  <1>14. stale' = {} /\ running'
    BY <1>1, <1>2 DEF EInv
  <1>15. QED
    BY <1>1, <1>7, <1>13, <1>14 DEF EInv, EventsInv, next, after, left

LEMMA PollTold ==
    ASSUME EInv, IInv', NEW answer, Answer(answer), PollAnswered(answer)
    PROVE  EInv'
  <1>1. /\ Held(active) /\ eventBuffer \in Seq(EventRows)
        /\ running /\ running' /\ eventsToDo = <<>> /\ active' = NewMap(answer)
        /\ UNCHANGED <<eventBuffer, log, lost, stale>>
    BY DEF EInv, IInv, TypeInv, TypeOK, Held, PollAnswered, bufVars, dbVars, histVars
  <1>2. PICK changed \in Orders(ChangeEvents(active, answer)),
             removed \in Orders(RemovalEvents(active, answer)) :
                eventsToDo' = changed \o removed
    BY DEF PollAnswered
  <1>3. /\ changed \in Seq(ChangeEvents(active, answer))
        /\ removed \in Seq(RemovalEvents(active, answer))
        /\ Range(changed) = ChangeEvents(active, answer)
        /\ Range(removed) = RemovalEvents(active, answer)
        /\ \A i, j \in 1..Len(changed) : changed[i] = changed[j] => i = j
        /\ \A i, j \in 1..Len(removed) : removed[i] = removed[j] => i = j
    BY <1>1, DiffFinite, OrdersEnumerate
  <1>4. /\ ChangeEvents(active, answer) \subseteq EventRows
        /\ RemovalEvents(active, answer) \subseteq EventRows
    BY <1>1, EventTypes
  <1>5. changed \in Seq(EventRows) /\ removed \in Seq(EventRows)
    BY <1>3, <1>4
  <1>6. ChangeEvents(active, answer) \cap RemovalEvents(active, answer) = {}
    <2>1. ASSUME NEW e \in ChangeEvents(active, answer) PROVE e.type # "MACHINE_REMOVED"
      <3> DEFINE added(m) == Event("MACHINE_ADDED", answer[m], "", answer[m].status)
                 moved(m) == Event("STATUS_CHANGED", answer[m], active[m].status,
                                   answer[m].status)
                 named(m) == Event("METADATA_UPDATED", answer[m], active[m].status,
                                   answer[m].status)
      <3>1. \E m : e = added(m) \/ e = moved(m) \/ e = named(m)
        BY DEF ChangeEvents
      <3>2. \A m : /\ added(m).type = "MACHINE_ADDED" /\ moved(m).type = "STATUS_CHANGED"
                   /\ named(m).type = "METADATA_UPDATED"
        BY DEF Event
      <3> HIDE DEF added, moved, named
      <3>3. QED
        BY <3>1, <3>2
    <2>2. \A e \in RemovalEvents(active, answer) : e.type = "MACHINE_REMOVED"
      BY DEF RemovalEvents, Event
    <2>3. QED
      BY <2>1, <2>2
  <1> DEFINE new == changed \o removed
  <1>7. new \in Seq(EventRows) /\ Range(new) = DiffEvents(active, answer)
    BY <1>3, <1>5, RangeConcat DEF DiffEvents
  <1>8. \A i, j \in 1..Len(new) : new[i] = new[j] => i = j
    BY <1>3, <1>5, <1>6, ConcatDistinct
  <1> HIDE DEF new
  <1>9. Events = eventBuffer /\ Events' = eventBuffer \o new
    BY <1>1, <1>2 DEF Events, new
  <1>10. Linked(log, lost, eventBuffer) /\ Told(log, lost, eventBuffer, active)
    BY <1>1, <1>9 DEF EInv, EventsInv
  <1>11. /\ Linked(log, lost, eventBuffer \o new)
         /\ Told(log, lost, eventBuffer \o new, answer)
    BY <1>1, <1>7, <1>8, <1>10, PollLinks
  <1>12. /\ DOMAIN active' = DOMAIN answer
         /\ \A m \in DOMAIN answer : active'[m].status = answer[m].status
    BY <1>1 DEF NewMap, Polled, Row
  <1>13. \A e, m : Tells(e, answer, m) => Tells(e, active', m)
    BY <1>12 DEF Tells
  <1>14. Told(log, lost, eventBuffer \o new, active')
    BY <1>11, <1>13 DEF Told
  <1>15. QED
    BY <1>1, <1>9, <1>11, <1>14 DEF EInv, EventsInv

\* A machine of which nothing waits has the same life in the log, in the database and
\* in the memory that is lost.
LEMMA CrashTold ==
    ASSUME EInv, IInv', Crash
    PROVE  EInv'
  <1>1. /\ running /\ running' = FALSE /\ eventBuffer' = <<>> /\ eventsToDo' = <<>>
        /\ lost' = lost \cup {row.id : row \in Range(rowBuffer \o rowsToDo)}
                        \cup {event.id : event \in Range(eventBuffer \o eventsToDo)}
        /\ UNCHANGED <<log, table, stale>>
    BY DEF Crash, dbVars
  <1>2. Events' = <<>>
    BY <1>1 DEF Events
  <1>3. /\ Range(rowBuffer \o rowsToDo) = Waiting
        /\ Events \in Seq(EventRows)
        /\ SubSeq(Events, 1, Len(Events)) = Events
    <2>1. rowBuffer \in Seq(Rows) /\ rowsToDo \in Seq(Rows)
      BY DEF EInv, IInv, TypeInv, TypeOK
    <2>2. Range(rowBuffer \o rowsToDo) = Waiting
      BY <2>1, RangeConcat DEF Waiting
    <2>3. QED
      BY <2>2, EventTypesOf DEF EInv, IInv
  <1>4. ASSUME NEW m \in Machines \ lost'
        PROVE  Tells(log[m], Loaded', m)
    <2>1. m \notin lost /\ (\A r \in Waiting : r.id # m) /\ ~Occurs(Events, m)
      <3>1. Range(Events) = {Events[i] : i \in 1..Len(Events)}
        BY <1>3, RangeOfSeq
      <3>2. QED
        BY <1>1, <1>3, <1>4, <3>1 DEF Occurs, Events
    <2>2. LastIn(log, Events, Len(Events), m) = log[m]
      <3>1. LastEvent(log[m], Events, m) = log[m]
        BY <1>3, <2>1, LastEventNone
      <3>2. QED
        BY <1>3, <3>1 DEF LastIn
    <2>3. Tells(log[m], active, m)
      BY <1>1, <2>1, <2>2 DEF EInv, EventsInv, Told, Known
    <2>4. Agree(m)
      BY <1>1 DEF EInv, IInv, FollowInv
    <2>5. Of(m) = {table[m]} \ {None}
      BY <2>1 DEF Of, Candidates
    <2>6. Best(Of(m)) = table[m]
      <3>1. CASE table[m] = None
        BY <2>5, <3>1, BestOfNone
      <3>2. CASE table[m] # None
        <4>1. Of(m) = {table[m]} /\ Of(m) \in SUBSET Rows
          BY <2>5, <3>2, OfTypes DEF EInv, IInv
        <4>2. {table[m]} \in SUBSET Rows
          BY <4>1
        <4>3. Best({table[m]}) = table[m]
          BY <4>2, BestIs
        <4>4. QED
          BY <4>1, <4>3
      <3>3. QED
        BY <3>1, <3>2
    <2>7. /\ m \in DOMAIN active <=> m \in Alive
          /\ m \in DOMAIN active => table[m].status = active[m].status
      BY <2>4, <2>6 DEF Agree, Alive
    <2>8. Loaded' = Loaded
      BY <1>1 DEF Loaded, Alive
    <2>9. QED
      BY <2>3, <2>7, <2>8 DEF Tells, Loaded
  <1>5. Linked(log', lost', <<>>)
    BY NoEvents
  <1>6. QED
    BY <1>1, <1>2, <1>4, <1>5 DEF EInv, EventsInv

LEMMA HydrateTold ==
    ASSUME Quiet, EInv, IInv', Hydrate
    PROVE  EInv'
  <1>1. /\ ~running /\ running' /\ active' = Loaded /\ stale' = {}
        /\ UNCHANGED <<log, lost, eventBuffer, eventsToDo>>
        /\ eventBuffer = <<>> /\ eventsToDo = <<>>
    BY DEF Hydrate, Quiet, bufVars, dbVars, Loaded, EInv, EventsInv
  <1>2. Events = <<>> /\ Events' = <<>> /\ Len(<<>>) = 0
    BY <1>1 DEF Events
  <1>3. \A m \in Machines \ lost : Tells(log[m], active', m)
    BY <1>1 DEF EInv, EventsInv
  <1>4. Told(log, lost, <<>>, active')
    BY <1>2, <1>3, NoEvents DEF Told
  <1>5. Linked(log, lost, <<>>)
    BY NoEvents
  <1>6. QED
    BY <1>1, <1>2, <1>4, <1>5 DEF EInv, EventsInv

LEMMA NextTold == Quiet /\ EInv /\ [Next]_vars => EInv'
  <1> SUFFICES ASSUME Quiet, EInv, [Next]_vars PROVE EInv'
    OBVIOUS
  <1>1. IInv'
    BY NextStep DEF EInv
  <1>2. ASSUME NEW m \in Machines, Change(m) PROVE EInv'
    <2>1. UNCHANGED <<running, active, log, lost, stale, eventBuffer, eventsToDo, table>>
      BY <1>2 DEF Change, memVars, bufVars, dbVars, histVars
    <2>2. Events' = Events /\ stale' = {}
      BY <2>1 DEF Events, EInv
    <2>3. QED
      BY <1>1, <2>1, <2>2, EventsAlone
  <1>3. CASE PollLocations
    <2>1. Answer(Directory)
      BY DEF Answer, Directory, EInv, IInv, TypeInv, TypeOK
    <2>2. QED
      BY <1>1, <1>3, <2>1, PollTold DEF PollLocations
  <1>4. CASE PollBlank
    <2>1. DOMAIN <<>> = {}
      OBVIOUS
    <2>2. Answer(<<>>)
      BY <2>1 DEF Answer
    <2>3. QED
      BY <1>1, <1>4, <2>2, PollTold DEF PollBlank
  <1>5. CASE EnqueueRow
    <2>1. /\ running /\ stale' = stale \ {Head(rowsToDo).id}
          /\ UNCHANGED <<running, active, log, lost, eventBuffer, eventsToDo>>
      BY <1>5 DEF EnqueueRow, Quiet, dbVars
    <2>2. Events' = Events /\ stale' = {}
      BY <2>1 DEF Events, EInv
    <2>3. QED
      BY <1>1, <2>1, <2>2, EventsAlone
  <1>6. CASE EnqueueEvent
    BY <1>1, <1>6, EnqueueEventTold
  <1>7. ASSUME NEW k \in 1..Len(rowBuffer), InsertRVMs(k) PROVE EInv'
    <2>1. /\ UNCHANGED <<running, active, log, lost, stale, eventBuffer, eventsToDo>>
          /\ rowBuffer # <<>>
      BY <1>7 DEF InsertRVMs, memVars, histVars
    <2>2. running
      BY <2>1 DEF EInv, IInv, DownInv
    <2>3. Events' = Events /\ stale' = {}
      BY <2>1 DEF Events, EInv
    <2>4. QED
      BY <1>1, <2>1, <2>2, <2>3, EventsAlone
  <1>8. ASSUME NEW k \in 1..Len(eventBuffer), InsertEvents(k) PROVE EInv'
    BY <1>1, <1>8, InsertEventsTold
  <1>9. CASE Crash
    BY <1>1, <1>9, CrashTold
  <1>10. CASE Hydrate
    BY <1>1, <1>10, HydrateTold
  <1>11. CASE UNCHANGED vars
    <2>1. UNCHANGED <<running, active, log, lost, stale, eventBuffer, eventsToDo, table>>
      BY <1>11 DEF vars, memVars, bufVars, dbVars, histVars
    <2>2. Events' = Events /\ stale' = {}
      BY <2>1 DEF Events, EInv
    <2>3. QED
      BY <1>1, <2>1, <2>2, EventsAlone
  <1>12. QED
    BY <1>2, <1>3, <1>4, <1>5, <1>6, <1>7, <1>8, <1>9, <1>10, <1>11 DEF Next, InsertStep

LEMMA TellsAll == EInv => EventsTellAll
  <1> SUFFICES ASSUME EInv PROVE EventsTellAll
    OBVIOUS
  <1> DEFINE Last(m, n) == LastEvent(log[m], SubSeq(Events, 1, n), m)
  <1>1. Linked(log, lost, Events) /\ (running => Told(log, lost, Events, active))
    BY DEF EInv, EventsInv
  <1>2. ASSUME NEW i \in 1..Len(Events), Events[i].id \notin lost
        PROVE  Continues(Last(Events[i].id, i - 1), Events[i])
    BY <1>1, <1>2 DEF Linked, Known, LastIn
  <1>3. ASSUME running, NEW m \in Machines \ lost
        PROVE  Tells(Last(m, Len(Events)), active, m)
    BY <1>1, <1>3 DEF Told, Known, LastIn
  <1>4. QED
    BY <1>2, <1>3 DEF EventsTellAll, Events
-------------------------------------------------------------------------------
(* The theorems.                                                              *)

\* Every variable keeps its type: among the rows and events of polls, in both buffers,
\* in the tables and in the memory that is loaded from them.
THEOREM TypeCorrect == Spec => []TypeOK
  <1>1. IInv => TypeOK
    BY DEF IInv, TypeInv
  <1>2. QED
    BY <1>1, Initially, NextStep, PTL DEF Spec

\* PollLocations, EnqueueRVM, flush, ReplacingMergeTree(updated_at) and
\* HydrateFromStorage together: memory and the database, with the rows on their way,
\* agree on every machine but those whose last row was dropped or not loaded, whatever
\* is polled, dropped, inserted twice or in part, lost in a crash or reloaded.
THEOREM DatabaseFollowsCorrect == Spec => []DatabaseFollows
  BY Initially, NextStep, Follows, PTL DEF Spec

\* PollLocations, DiffState and all of the above: after one poll with a full answer the
\* database, with the rows on their way, says what upstream says, and a row that the poll
\* writes holds the upstream JSON.  It is the safety half of Reconciled, for any number
\* of machines, crashes and rows that wait.
THEOREM PollSettlesCorrect == Spec => PollSettles
  <1> DEFINE Settled ==
                /\ \A m \in (Machines \ stale) \cup Writing' : Says(Newest(m)', upstream[m])
                /\ \A m \in Writing' :
                      upstream[m] # None => Newest(m)'.raw = upstream[m].raw
  <1>1. Spec => []IInv
    BY Initially, NextStep, PTL DEF Spec
  <1>2. IInv /\ IInv' /\ [Next]_vars => [PollLocations => Settled]_vars
    <2>1. IInv' => WritingFollows' /\ WritingNewest'
      BY Follows, Newer, PTL
    <2>2. QED
      BY <2>1, PollAgrees, PollStores
  <1>3. QED
    BY <1>1, <1>2, PTL DEF Spec, PollSettles

\* DiffState, EnqueueEvent and flush together: as long as the buffer loses and repeats
\* nothing, a machine's events in rvm_events tell its life without a gap, through any
\* polls, partial inserts and crashes, but for machines of which a crash lost something.
THEOREM EventsTellAllCorrect == Spec => []EventsTellAll
  <1>1. CASE Quiet
    BY <1>1, InitiallyTold, NextTold, TellsAll, PTL DEF Spec
  <1>2. CASE ~Quiet
    <2>1. EventsTellAll
      BY <1>2 DEF EventsTellAll, Quiet
    <2>2. QED
      BY <2>1, PTL
  <1>3. QED
    BY <1>1, <1>2
===============================================================================

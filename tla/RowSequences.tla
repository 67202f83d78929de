------------------------------ MODULE RowSequences ------------------------------
(* Facts about finite sequences of rows (numbers), for the proofs about the   *)
(* batch writer's channels, slices and tables.                                *)
EXTENDS Naturals, Sequences, TLAPS

\* Append puts one row at the end and moves no other.
LEMMA AppendRow ==
    ASSUME NEW s \in Seq(Nat), NEW row \in Nat
    PROVE  /\ Append(s, row) \in Seq(Nat)
           /\ Len(Append(s, row)) = Len(s) + 1
           /\ Append(s, row)[Len(s) + 1] = row
           /\ \A i \in 1..Len(s) : Append(s, row)[i] = s[i]
  OBVIOUS
\* Tail removes the first row, which Head returns.
LEMMA TailRow ==
    ASSUME NEW s \in Seq(Nat), s # <<>>
    PROVE  /\ Head(s) \in Nat /\ Head(s) = s[1]
           /\ Tail(s) \in Seq(Nat)
           /\ Len(s) \in Nat \ {0}
           /\ Len(Tail(s)) = Len(s) - 1
           /\ \A i \in 1..Len(Tail(s)) : Tail(s)[i] = s[i + 1]
  OBVIOUS
\* The rows of a concatenation, by position.
LEMMA ConcatRow ==
    ASSUME NEW s \in Seq(Nat), NEW r \in Seq(Nat)
    PROVE  /\ s \o r \in Seq(Nat)
           /\ Len(s \o r) = Len(s) + Len(r)
           /\ \A i \in 1..Len(s) : (s \o r)[i] = s[i]
           /\ \A i \in 1..Len(r) : (s \o r)[Len(s) + i] = r[i]
           /\ \A i \in (Len(s) + 1)..(Len(s) + Len(r)) : (s \o r)[i] = r[i - Len(s)]
  OBVIOUS
\* Sequences with the same length and the same rows are equal.
LEMMA SameRows ==
    ASSUME NEW s \in Seq(Nat), NEW r \in Seq(Nat), Len(s) = Len(r), \A i \in 1..Len(s) : s[i] = r[i]
    PROVE  s = r
  OBVIOUS
\* The rows of a suffix.
LEMMA SubSeqRows ==
    ASSUME NEW s \in Seq(Nat), NEW m \in Nat, m <= Len(s)
    PROVE  /\ SubSeq(s, m + 1, Len(s)) \in Seq(Nat)
           /\ Len(SubSeq(s, m + 1, Len(s))) = Len(s) - m
           /\ \A i \in 1..(Len(s) - m) : SubSeq(s, m + 1, Len(s))[i] = s[m + i]
  OBVIOUS
\* b and then q are the last rows of acc, in order.
Ends(acc, b, q) ==
    LET m == Len(acc) - Len(b) - Len(q)
    IN  /\ m \in Nat
        /\ \A i \in 1..Len(b) : b[i] = acc[m + i]
        /\ \A i \in 1..Len(q) : q[i] = acc[m + Len(b) + i]

\* How long the rest of acc is, and what remains of it when b and q change length.
LEMMA EndsLengths ==
    ASSUME NEW acc \in Seq(Nat), NEW b \in Seq(Nat), NEW q \in Seq(Nat), Ends(acc, b, q)
    PROVE  /\ Len(acc) \in Nat /\ Len(b) \in Nat /\ Len(q) \in Nat
           /\ Len(acc) - Len(b) - Len(q) \in Nat
           /\ Len(acc) - Len(b) - Len(q) <= Len(acc)
           /\ Len(acc) = (Len(acc) - Len(b) - Len(q)) + Len(b) + Len(q)
           /\ Len(acc) - (Len(b) + 1) - (Len(q) - 1) = Len(acc) - Len(b) - Len(q)
           /\ Len(acc) - 0 - Len(q) = (Len(acc) - Len(b) - Len(q)) + Len(b)
  <1>1. Len(acc) \in Nat /\ Len(b) \in Nat /\ Len(q) \in Nat /\ Len(acc) - Len(b) - Len(q) \in Nat
    BY DEF Ends
  <1>2. QED
    BY <1>1

\* A row put at the end of both acc and q leaves b and q the last rows of acc.
LEMMA EndsAppend ==
    ASSUME NEW acc \in Seq(Nat), NEW b \in Seq(Nat), NEW q \in Seq(Nat), NEW row \in Nat,
           Ends(acc, b, q)
    PROVE  Ends(Append(acc, row), b, Append(q, row))
  <1> DEFINE a2 == Append(acc, row)  q2 == Append(q, row)
             m == Len(acc) - Len(b) - Len(q)
  <1>1. /\ Len(acc) \in Nat /\ Len(b) \in Nat /\ Len(q) \in Nat /\ m \in Nat
        /\ Len(acc) = m + Len(b) + Len(q)
    BY DEF Ends
  <1>2. /\ Len(a2) = Len(acc) + 1 /\ a2[Len(acc) + 1] = row
        /\ \A i \in 1..Len(acc) : a2[i] = acc[i]
        /\ Len(q2) = Len(q) + 1 /\ q2[Len(q) + 1] = row
        /\ \A i \in 1..Len(q) : q2[i] = q[i]
    BY AppendRow
  <1>3. Len(a2) - Len(b) - Len(q2) = m
    BY <1>1, <1>2
  <1>4. /\ \A i \in 1..Len(b) : b[i] = acc[m + i]
        /\ \A i \in 1..Len(q) : q[i] = acc[m + Len(b) + i]
    BY DEF Ends
  <1> HIDE DEF a2, q2, m
  <1>5. ASSUME NEW i \in 1..Len(b) PROVE b[i] = a2[m + i]
    <2>1. m + i \in 1..Len(acc)
      BY <1>1
    <2>2. QED
      BY <1>2, <1>4, <2>1
  <1>6. ASSUME NEW i \in 1..Len(q2) PROVE q2[i] = a2[m + Len(b) + i]
    <2>1. CASE i \in 1..Len(q)
      <3>1. m + Len(b) + i \in 1..Len(acc)
        BY <1>1, <2>1
      <3>2. QED
        BY <1>2, <1>4, <2>1, <3>1
    <2>2. CASE i = Len(q) + 1
      BY <1>1, <1>2, <2>2
    <2>3. i \in 1..Len(q) \/ i = Len(q) + 1
      BY <1>1, <1>2
    <2>4. QED
      BY <2>1, <2>2, <2>3
  <1>7. QED
    BY <1>1, <1>3, <1>5, <1>6 DEF Ends, a2, q2

\* So does moving q's first row to the end of b ...
LEMMA EndsTake ==
    ASSUME NEW acc \in Seq(Nat), NEW b \in Seq(Nat), NEW q \in Seq(Nat),
           Ends(acc, b, q), q # <<>>
    PROVE  Ends(acc, Append(b, Head(q)), Tail(q))
  <1> DEFINE b2 == Append(b, Head(q))  q2 == Tail(q)
             m == Len(acc) - Len(b) - Len(q)
  <1>1. /\ Len(acc) \in Nat /\ Len(b) \in Nat /\ m \in Nat
        /\ Len(acc) = m + Len(b) + Len(q)
    BY DEF Ends
  <1>2. /\ Len(q) \in Nat \ {0} /\ Len(q2) = Len(q) - 1
        /\ \A i \in 1..Len(q2) : q2[i] = q[i + 1]
        /\ Len(b2) = Len(b) + 1 /\ b2[Len(b) + 1] = q[1]
        /\ \A i \in 1..Len(b) : b2[i] = b[i]
    BY AppendRow, TailRow
  <1>4. /\ \A i \in 1..Len(b) : b[i] = acc[m + i]
        /\ \A i \in 1..Len(q) : q[i] = acc[m + Len(b) + i]
    BY DEF Ends
  <1>m. m = Len(acc) - Len(b) - Len(q)
    OBVIOUS
  <1> HIDE DEF b2, q2, m
  <1>3. Len(acc) - Len(b2) - Len(q2) = m
    BY <1>1, <1>2, <1>m
  <1>5. ASSUME NEW i \in 1..Len(b2) PROVE b2[i] = acc[m + i]
    <2>1. CASE i \in 1..Len(b)
      BY <1>2, <1>4, <2>1
    <2>2. CASE i = Len(b) + 1
      <3>1. 1 \in 1..Len(q) /\ m + Len(b) + 1 = m + i
        BY <1>1, <1>2, <2>2
      <3>2. QED
        BY <1>2, <1>4, <2>2, <3>1
    <2>3. QED
      BY <1>1, <1>2, <2>1, <2>2
  <1>6. ASSUME NEW i \in 1..Len(q2) PROVE q2[i] = acc[m + Len(b2) + i]
    <2>1. i + 1 \in 1..Len(q)
      BY <1>2
    <2>2. m + Len(b2) + i = m + Len(b) + (i + 1)
      BY <1>1, <1>2
    <2>3. QED
      BY <1>2, <1>4, <2>1, <2>2
  <1>7. QED
    BY <1>1, <1>3, <1>5, <1>6 DEF Ends, b2, q2

\* ... and forgetting b.
LEMMA EndsInsert ==
    ASSUME NEW acc \in Seq(Nat), NEW b \in Seq(Nat), NEW q \in Seq(Nat), Ends(acc, b, q)
    PROVE  Ends(acc, <<>>, q)
  <1>1. Len(<<>>) = 0
    OBVIOUS
  <1> DEFINE m == Len(acc) - Len(b) - Len(q)
  <1>2. /\ Len(acc) \in Nat /\ Len(b) \in Nat /\ Len(q) \in Nat /\ m \in Nat
        /\ Len(acc) = m + Len(b) + Len(q)
        /\ \A i \in 1..Len(q) : q[i] = acc[m + Len(b) + i]
    BY DEF Ends
  <1> HIDE DEF m
  <1>3. Len(acc) - 0 - Len(q) = m + Len(b)
    BY <1>2
  <1>4. QED
    BY <1>1, <1>2, <1>3 DEF Ends

\* b and q together are a suffix of acc.
LEMMA EndsSubSeq ==
    ASSUME NEW acc \in Seq(Nat), NEW b \in Seq(Nat), NEW q \in Seq(Nat), Ends(acc, b, q)
    PROVE  b \o q = SubSeq(acc, (Len(acc) - Len(b) - Len(q)) + 1, Len(acc))
  <1> DEFINE m == Len(acc) - Len(b) - Len(q)
             s == SubSeq(acc, m + 1, Len(acc))
             r == b \o q
  <1>1. /\ Len(acc) \in Nat /\ Len(b) \in Nat /\ Len(q) \in Nat /\ m \in Nat
        /\ m <= Len(acc) /\ Len(acc) - m = Len(b) + Len(q)
        /\ \A i \in 1..Len(b) : b[i] = acc[m + i]
        /\ \A i \in 1..Len(q) : q[i] = acc[m + Len(b) + i]
    BY DEF Ends
  <1> HIDE DEF m
  <1>2. /\ s \in Seq(Nat) /\ Len(s) = Len(acc) - m
        /\ \A i \in 1..(Len(acc) - m) : s[i] = acc[m + i]
    BY <1>1, SubSeqRows
  <1>3. /\ r \in Seq(Nat) /\ Len(r) = Len(b) + Len(q)
        /\ \A i \in 1..Len(b) : r[i] = b[i]
        /\ \A i \in (Len(b) + 1)..(Len(b) + Len(q)) : r[i] = q[i - Len(b)]
    BY ConcatRow
  <1> HIDE DEF s, r
  <1>4. ASSUME NEW i \in 1..Len(r) PROVE r[i] = s[i]
    <2>1. CASE i \in 1..Len(b)
      BY <1>1, <1>2, <1>3, <2>1
    <2>2. CASE i \in (Len(b) + 1)..(Len(b) + Len(q))
      <3> SUFFICES ASSUME i - Len(b) \in 1..Len(q), m + Len(b) + (i - Len(b)) = m + i
                   PROVE  r[i] = s[i]
        <4>1. Len(b) \in Nat /\ Len(q) \in Nat /\ m \in Nat
          BY <1>1
        <4>2. QED
          BY <4>1, <2>2
      <3>1. i - Len(b) \in 1..Len(q) /\ m + Len(b) + (i - Len(b)) = m + i
        OBVIOUS
      <3>2. r[i] = acc[m + i]
        BY <1>1, <1>3, <2>2, <3>1
      <3>3. i \in 1..(Len(acc) - m)
        BY <1>1, <2>2
      <3>4. QED
        BY <1>2, <3>2, <3>3
    <2>3. QED
      BY <1>1, <1>3, <2>1, <2>2
  <1>5. r = s
    BY <1>1, <1>2, <1>3, <1>4, SameRows
  <1>6. QED
    BY <1>5 DEF r, s, m

\* Concatenation and Append, which the channel and the slice do in turn.
LEMMA ConcatAppend ==
    ASSUME NEW s \in Seq(Nat), NEW q \in Seq(Nat), NEW row \in Nat
    PROVE  s \o Append(q, row) = Append(s \o q, row)
  OBVIOUS

\* Concatenation is associative.
LEMMA ConcatAssoc ==
    ASSUME NEW s \in Seq(Nat), NEW b \in Seq(Nat), NEW q \in Seq(Nat)
    PROVE  (s \o b) \o q = s \o (b \o q)
  OBVIOUS

\* What the slice and the channel hold together does not change when a row moves.
LEMMA HeldTake ==
    ASSUME NEW b \in Seq(Nat), NEW q \in Seq(Nat), q # <<>>
    PROVE  Append(b, Head(q)) \o Tail(q) = b \o q
  <1> DEFINE h == <<Head(q)>>
  <1>1. /\ Head(q) \in Nat /\ Tail(q) \in Seq(Nat) /\ h \in Seq(Nat)
        /\ q = h \o Tail(q)
    BY TailRow
  <1>2. Append(b, Head(q)) = b \o h
    BY <1>1
  <1> HIDE DEF h
  <1>3. (b \o h) \o Tail(q) = b \o (h \o Tail(q))
    BY <1>1, ConcatAssoc
  <1>4. QED
    BY <1>1, <1>2, <1>3

\* Moving a row across the boundary of b and q leaves the whole unchanged.
LEMMA ConcatTake ==
    ASSUME NEW s \in Seq(Nat), NEW b \in Seq(Nat), NEW q \in Seq(Nat), q # <<>>
    PROVE  (s \o Append(b, Head(q))) \o Tail(q) = (s \o b) \o q
  <1>1. Append(b, Head(q)) \in Seq(Nat) /\ Tail(q) \in Seq(Nat)
    BY TailRow, AppendRow
  <1>2. /\ (s \o Append(b, Head(q))) \o Tail(q) = s \o (Append(b, Head(q)) \o Tail(q))
        /\ (s \o b) \o q = s \o (b \o q)
    BY <1>1, ConcatAssoc
  <1>3. Append(b, Head(q)) \o Tail(q) = b \o q
    BY HeldTake
  <1>4. QED
    BY <1>2, <1>3

\* The empty sequence is neutral.
LEMMA ConcatEmpty ==
    ASSUME NEW s \in Seq(Nat)
    PROVE  s \o <<>> = s
  OBVIOUS

\* The rows of a concatenation, as a set.
LEMMA RowSetConcat ==
    ASSUME NEW s \in Seq(Nat), NEW r \in Seq(Nat)
    PROVE  {(s \o r)[i] : i \in 1..Len(s \o r)}
             = {s[i] : i \in 1..Len(s)} \cup {r[i] : i \in 1..Len(r)}
  <1> DEFINE c == s \o r
  <1>1. /\ Len(s) \in Nat /\ Len(r) \in Nat
        /\ Len(c) = Len(s) + Len(r)
        /\ \A i \in 1..Len(s) : c[i] = s[i]
        /\ \A i \in 1..Len(r) : c[Len(s) + i] = r[i]
        /\ \A i \in (Len(s) + 1)..(Len(s) + Len(r)) : c[i] = r[i - Len(s)]
    BY ConcatRow
  <1> HIDE DEF c
  <1>2. ASSUME NEW i \in 1..Len(c)
        PROVE  c[i] \in {s[j] : j \in 1..Len(s)} \cup {r[j] : j \in 1..Len(r)}
    <2>1. CASE i \in 1..Len(s)
      BY <1>1, <2>1
    <2>2. CASE i \in (Len(s) + 1)..(Len(s) + Len(r))
      <3>1. i - Len(s) \in 1..Len(r)
        BY <1>1, <2>2
      <3>2. QED
        BY <1>1, <2>2, <3>1
    <2>3. i \in 1..Len(s) \/ i \in (Len(s) + 1)..(Len(s) + Len(r))
      BY <1>1
    <2>4. QED
      BY <2>1, <2>2, <2>3
  <1>3. ASSUME NEW j \in 1..Len(s) PROVE s[j] \in {c[i] : i \in 1..Len(c)}
    <2>1. j \in 1..Len(c)
      BY <1>1
    <2>2. QED
      BY <1>1, <2>1
  <1>4. ASSUME NEW j \in 1..Len(r) PROVE r[j] \in {c[i] : i \in 1..Len(c)}
    <2>1. Len(s) + j \in 1..Len(c)
      BY <1>1
    <2>2. QED
      BY <1>1, <2>1
  <1>5. {c[i] : i \in 1..Len(c)} = {s[i] : i \in 1..Len(s)} \cup {r[i] : i \in 1..Len(r)}
    BY <1>2, <1>3, <1>4
  <1>6. QED
    BY <1>5 DEF c

\* The rows of b, as a set of rows of acc.
LEMMA EndsRowSet ==
    ASSUME NEW acc \in Seq(Nat), NEW b \in Seq(Nat), NEW q \in Seq(Nat), Ends(acc, b, q),
           NEW m, m = Len(acc) - Len(b) - Len(q)
    PROVE  /\ {b[i] : i \in 1..Len(b)} = {acc[i] : i \in (m + 1)..(m + Len(b))}
           /\ (m + 1)..(m + Len(b)) \subseteq 1..Len(acc)
           /\ b # <<>> => m + Len(b) \in (m + 1)..Len(acc)
  <1>1. /\ Len(acc) \in Nat /\ Len(b) \in Nat /\ Len(q) \in Nat /\ m \in Nat
        /\ Len(acc) = m + Len(b) + Len(q)
    BY EndsLengths
  <1>2. \A i \in 1..Len(b) : b[i] = acc[m + i]
    BY DEF Ends
  <1>3. ASSUME NEW i \in 1..Len(b) PROVE b[i] \in {acc[j] : j \in (m + 1)..(m + Len(b))}
    <2>1. m + i \in (m + 1)..(m + Len(b))
      BY <1>1
    <2>2. QED
      BY <1>2, <2>1
  <1>4. ASSUME NEW j \in (m + 1)..(m + Len(b)) PROVE acc[j] \in {b[i] : i \in 1..Len(b)}
    <2>1. j - m \in 1..Len(b) /\ m + (j - m) = j
      BY <1>1
    <2>2. b[j - m] = acc[j]
      BY <1>2, <2>1
    <2>3. QED
      BY <2>1, <2>2
  <1>5. (m + 1)..(m + Len(b)) \subseteq 1..Len(acc)
    BY <1>1
  <1>6. b # <<>> => Len(b) > 0
    BY <1>1
  <1>7. b # <<>> => m + Len(b) \in (m + 1)..Len(acc)
    BY <1>1, <1>6
  <1>8. QED
    BY <1>3, <1>4, <1>5, <1>7

\* Taking the whole of b from the front of b and q leaves q.
LEMMA ConcatRest ==
    ASSUME NEW b \in Seq(Nat), NEW q \in Seq(Nat)
    PROVE  /\ SubSeq(b \o q, Len(b) + 1, Len(b \o q)) = q
           /\ {(b \o q)[i] : i \in 1..Len(b)} = {b[i] : i \in 1..Len(b)}
           /\ b # <<>> => Len(b) \in 1..Len(b \o q)
  <1> DEFINE c == b \o q
             rest == SubSeq(c, Len(b) + 1, Len(c))
  <1>1. /\ Len(b) \in Nat /\ Len(q) \in Nat
        /\ c \in Seq(Nat) /\ Len(c) = Len(b) + Len(q)
        /\ \A i \in 1..Len(b) : c[i] = b[i]
        /\ \A i \in 1..Len(q) : c[Len(b) + i] = q[i]
    BY ConcatRow
  <1> HIDE DEF c
  <1>2. /\ rest \in Seq(Nat)
        /\ Len(rest) = Len(c) - Len(b)
        /\ \A i \in 1..(Len(c) - Len(b)) : rest[i] = c[Len(b) + i]
    <2>1. Len(b) <= Len(c)
      BY <1>1
    <2>2. QED
      BY <1>1, <2>1, SubSeqRows
  <1>3. b # <<>> => Len(b) # 0
    OBVIOUS
  <1> HIDE DEF rest
  <1>4. Len(rest) = Len(q) /\ \A i \in 1..Len(rest) : rest[i] = q[i]
    BY <1>1, <1>2
  <1>5. rest = q
    BY <1>2, <1>4, SameRows
  <1>6. {c[i] : i \in 1..Len(b)} = {b[i] : i \in 1..Len(b)}
    BY <1>1
  <1>7. b # <<>> => Len(b) \in 1..Len(c)
    BY <1>1, <1>3
  <1>8. QED
    BY <1>5, <1>6, <1>7 DEF c, rest
=================================================================================

------------------------------- MODULE TableLog -------------------------------
(***************************************************************************)
(* What the batch writer promises for each ClickHouse table: rows wait in  *)
(* the order in which they were taken in, and leave memory only from the   *)
(* front and for the table.  A failed insert may still have reached the    *)
(* table, so a row can be in the table while it waits.                     *)
(*                                                                         *)
(* BatchBuffer implements this specification (see Log there);              *)
(* LocationTracker and BinDelta take no more for granted of their buffers. *)
(***************************************************************************)
EXTENDS Naturals, Sequences

CONSTANTS
    Tables,
    Rows,       \* Rows[t]: the rows (numbers) that may be offered for table t
    MayRepeat   \* an insert may be committed without being acknowledged

VARIABLES
    waiting,    \* waiting[t]: the rows of table t that the process holds, in order
    durable     \* durable[t]: the set of rows present in the table

logVars == <<waiting, durable>>

FirstRows(s, k) == {s[i] : i \in 1..k}

LogInit ==
    /\ waiting = [t \in Tables |-> <<>>]
    /\ durable = [t \in Tables |-> {}]

\* A new row, never seen before, is taken in after those that wait.
Accept(t) ==
    /\ \E row \in Rows[t] :
          /\ \A old \in durable[t] \cup FirstRows(waiting[t], Len(waiting[t])) : old < row
          /\ waiting' = [waiting EXCEPT ![t] = Append(@, row)]
    /\ UNCHANGED durable

\* The first k rows reach the table.  They wait no longer, unless the insert was
\* committed without an answer: then all of them will be inserted again.
Persist(t, k) ==
    /\ durable' = [durable EXCEPT ![t] = @ \cup FirstRows(waiting[t], k)]
    /\ \/ waiting' = [waiting EXCEPT ![t] = SubSeq(@, k + 1, Len(@))]
       \/ MayRepeat /\ UNCHANGED waiting

LogNext == \E t \in Tables : Accept(t) \/ \E k \in 1..Len(waiting[t]) : Persist(t, k)

LogSpec == LogInit /\ [][LogNext]_logVars
===============================================================================

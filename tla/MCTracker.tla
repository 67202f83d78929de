----------------------------- MODULE MCTracker -----------------------------
(* Small instances of Tracker for TLC. *)
EXTENDS Tracker

Channels == [t \in Tables |-> IF t = "rvm_events" THEN 1 ELSE 2]

NothingRefused == [t \in Tables |-> {}]

\* A row of each table, so that one of them can arrive while the buffer drains or later.
OneRow == [t \in Tables |-> 1]

\* Below zero, the boundary, and above.
SomeNumbers == {-1, 0, 1, 1000}
=============================================================================

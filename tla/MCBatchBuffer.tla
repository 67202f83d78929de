---------------------------- MODULE MCBatchBuffer ----------------------------
(* Small instances of BatchBuffer for TLC. *)
EXTENDS BatchBuffer

\* Channels of one and of two slots.
SmallChannels == [t \in Tables |-> IF t = "rvm_events" THEN 1 ELSE 2]

\* A row for each of two tables.
TwoTables == [t \in Tables |-> IF t = "rvm_bin_snapshots" THEN 0 ELSE 1]

\* The row of the table that is flushed first is refused.
FirstRefused == [t \in Tables |-> IF t = "rvm_current" THEN {1} ELSE {}]
===============================================================================

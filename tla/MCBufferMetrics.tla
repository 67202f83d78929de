--------------------------- MODULE MCBufferMetrics ---------------------------
(* Small instances of BufferMetrics for TLC. *)
EXTENDS BufferMetrics

\* A channel of one slot: a row is dropped when it is full.
OneSlot == [t \in Tables |-> 1]

\* Every row is accepted by batch.Append.
NothingRefused == [t \in Tables |-> {}]

\* One table sees a full batch, a full channel and a retry.
EventsOnly == [t \in Tables |-> IF t = "rvm_events" THEN 3 ELSE 0]
===============================================================================

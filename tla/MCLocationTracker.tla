-------------------------- MODULE MCLocationTracker --------------------------
(* Small instances of LocationTracker for TLC. *)
EXTENDS LocationTracker, TLC

\* The machines are interchangeable, and so are the values of their fields.
Perms == Permutations(Machines) \cup Permutations(Statuses) \cup Permutations(Names)
             \cup Permutations(Raws)

\* lost is a history that only EventsTellAll reads: where that property claims
\* nothing, states that differ in it alone are one.
NoLost == <<envVars, clock, memVars, bufVars, dbVars, stale>>
===============================================================================

---------------------------- MODULE MCTokenClient -----------------------------
(* Small instances of TokenClient for TLC.  A unit of TokenResponse is 1e5 s. *)
EXTENDS TokenClient
===============================================================================

------------------------------ MODULE MCBinDelta ------------------------------
(* Small instances of BinDelta for TLC. *)
EXTENDS BinDelta
===============================================================================

------------------------------ MODULE MCBinPoll -------------------------------
(* Small instances of BinPoll for TLC. *)
EXTENDS BinPoll
===============================================================================

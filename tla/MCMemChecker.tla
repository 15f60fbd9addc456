---------------------------- MODULE MCMemChecker ----------------------------
(* Small instances of MemChecker for TLC. *)
EXTENDS MemChecker
=============================================================================

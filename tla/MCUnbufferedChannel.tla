------------------------- MODULE MCUnbufferedChannel -------------------------
(* Small instances of UnbufferedChannel for TLC. *)
EXTENDS UnbufferedChannel
=============================================================================

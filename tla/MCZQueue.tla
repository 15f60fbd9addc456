------------------------------ MODULE MCZQueue ------------------------------
(* Small instances of ZQueue for TLC. *)
EXTENDS ZQueue

=============================================================================

------------------------ MODULE MCStackTraceService ------------------------
(* Small instances of StackTraceService for TLC. *)
EXTENDS StackTraceService
=============================================================================

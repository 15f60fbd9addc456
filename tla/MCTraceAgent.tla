---------------------------- MODULE MCTraceAgent ----------------------------
(* Small instances of TraceAgent for TLC. *)
EXTENDS TraceAgent

=============================================================================

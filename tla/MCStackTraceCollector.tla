----------------------- MODULE MCStackTraceCollector -----------------------
(* A small instance of StackTraceCollector for TLC: stacks of the same     *)
(* depth that differ below the first address, one of them deeper than      *)
(* kMaxDepth.                                                              *)
EXTENDS StackTraceCollector

MCStacks == [t \in Threads |-> IF t = Self THEN {<<1, 1>>} ELSE {<<1, 2>>, <<1, 2, 3>>}]
=============================================================================

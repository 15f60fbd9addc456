------------------------- MODULE MCStackTraceSystem -------------------------
(* A small instance of StackTraceSystem for TLC.  The service thread is    *)
(* always at the same place when it signals itself; the other may be as    *)
(* deep as kMaxDepth or deeper.                                            *)
EXTENDS StackTraceSystem, SequencesExt

MCStacks == [t \in Threads |-> IF t = Service THEN {<<1>>} ELSE {<<1>>, <<2, 3>>}]

(* Groups and PrettyTids on all slots of up to three forms with traces of  *)
(* up to two addresses, against what they stand for: one group for each    *)
(* trace, with its tids in the order of slot, and every tid listed once.   *)
G == INSTANCE StackGrouping
Forms == [tid : {7}, trace : BoundedSeq({1, 2}, 2)]
Numbered(s) == [i \in DOMAIN s |-> [s[i] EXCEPT !.tid = i]]
TidsWith(slot, trace) == SelectSeq([i \in DOMAIN slot |-> i], LAMBDA i : slot[i].trace = trace)
ASSUME GroupingCorrect ==
  \A slot \in {Numbered(s) : s \in BoundedSeq(Forms, 3)} :
    LET groups == G!Groups(slot)
    IN  /\ groups = {[trace |-> f.trace, tids |-> TidsWith(slot, f.trace)] : f \in ToSet(slot)}
        /\ IsInjective(G!PrettyTids(groups)) /\ ToSet(G!PrettyTids(groups)) = DOMAIN slot
=============================================================================

--------------------------- MODULE StackGrouping ---------------------------
(***************************************************************************)
(* The last part of StackTraceCollector::Collect: forms with the same      *)
(* stack trace are merged, through a std::map ordered by StackComparator;  *)
(* and ToPrettyString, which lists the threads of each group.              *)
(* A trace is a sequence of addresses, a form a record [tid, trace].       *)
(***************************************************************************)
EXTENDS Integers, Sequences, FiniteSets

(* StackComparator: by depth, then by the first address that differs. *)
Less(a, b) ==
  IF Len(a) # Len(b) THEN Len(a) < Len(b)
  ELSE \E i \in 1 .. Len(a) : a[i] < b[i] /\ \A j \in 1 .. i - 1 : a[j] = b[j]

(* What std::map takes for the same key. *)
SameKey(a, b) == ~Less(a, b) /\ ~Less(b, a)

(* unique_traces.find and the two branches on its result. *)
AddForm(unique_traces, form) ==
  LET same == {g \in unique_traces : SameKey(g.trace, form.trace)}
  IN  IF same = {}
      THEN unique_traces \cup {[trace |-> form.trace, tids |-> <<form.tid>>]}
      ELSE (unique_traces \ same)
             \cup {[trace |-> g.trace, tids |-> Append(g.tids, form.tid)] : g \in same}

(* The loop over slot. *)
Groups(slot) ==
  LET unique_traces[i \in 0 .. Len(slot)] ==
        IF i = 0 THEN {} ELSE AddForm(unique_traces[i - 1], slot[i])
  IN  unique_traces[Len(slot)]

(* The i-th result, in the order of the map. *)
ResultAt(results, i) ==
  CHOOSE r \in results : Cardinality({s \in results : Less(s.trace, r.trace)}) = i - 1

(* ToPrettyString: the tids it lists, and passes to backtrace_cb_, for the *)
(* results in the order of the map.                                        *)
PrettyTids(results) ==
  LET listed[i \in 0 .. Cardinality(results)] ==
        IF i = 0 THEN <<>> ELSE listed[i - 1] \o ResultAt(results, i).tids
  IN  listed[Cardinality(results)]
=============================================================================

---------------------------- MODULE HsperfParser ----------------------------
(***************************************************************************)
(* hsperfdata_parser::parse, the whole of the program main.cpp is with     *)
(* PERF_DATA defined (stack_trace has a call of it that is switched off).  *)
(* It reads the performance counters of a JVM from a file the JVM has      *)
(* mapped and goes on writing while fread copies it.                       *)
(*                                                                         *)
(* An entry is its place in the file and its kind: a counter of a type     *)
(* parse knows (a long, or a vector of bytes that is a string), one of     *)
(* these with a generation's name, or one of an unknown type.  Values are  *)
(* not modelled, nor is the name printed of an entry of an unknown type    *)
(* before parse gives up.                                                  *)
(* External: the JVM.  It counts an entry in num_entries_ when it sets the *)
(* space aside, all zeros, and then stores the entry's fields; entries are *)
(* never moved or removed.                                                 *)
(***************************************************************************)
EXTENDS Integers, Sequences

CONSTANT MaxEntries     \* bound: entries the file comes to have

ASSUME MaxEntriesAssumption == MaxEntries \in Nat

Entry == {"generation", "counter", "unknown"}

(* What is in an entry's space: nothing yet, some of its fields, or all. *)
Blank == [stored |-> "blank"]
Torn(e) == [stored |-> "torn", entry |-> e]
Whole(e) == [stored |-> "whole", entry |-> e]
Cell == {Blank} \union {Torn(e) : e \in Entry} \union {Whole(e) : e \in Entry}

(* What the copy shows of an entry.  entry_length_ may be the entry's own, *)
(* still zero, or put together from bytes of two moments.                  *)
Lengths == {"own", "zero", "wrong"}
View == [kind : Entry, length : Lengths]

Astray == 0     \* pos is at no entry

VARIABLES
  file,       \* the entries' space; num_entries_ is its length
  pc,         \* "open", "copy", "parse", "done", "crashed"
  num,        \* num_entries_ as fread copied it
  buf,        \* the entries fread has copied
  i,          \* rounds the loop has done
  pos,        \* the entry the loop has come to
  reported,   \* entries whose name and value were printed
  atOpen      \* ghost: the entries when fread began

vars == <<file, pc, num, buf, i, pos, reported, atOpen>>

TypeOK ==
  /\ file \in Seq(Cell) /\ Len(file) <= MaxEntries
  /\ pc \in {"open", "copy", "parse", "done", "crashed"}
  /\ num \in 0 .. Len(file)
  /\ buf \in Seq(View) /\ Len(buf) <= num
  /\ i \in 0 .. num
  /\ pos \in {1, Astray} \union 1 .. num
  /\ reported \in Seq(0 .. num)
  /\ atOpen \in Seq(Cell) /\ Len(atOpen) = num

Init ==
  /\ \E n \in 0 .. MaxEntries : \E es \in [1 .. n -> Entry] :
       file = [k \in 1 .. n |-> Whole(es[k])]
  /\ pc = "open" /\ num = 0 /\ buf = <<>> /\ i = 0 /\ pos = 1
  /\ reported = <<>> /\ atOpen = <<>>

parser == <<pc, num, buf, i, pos, reported, atOpen>>

-----------------------------------------------------------------------------
Ended == pc \in {"done", "crashed"}

(* The JVM sets space aside for an entry, and fills it in.  What it writes *)
(* once fread is over parse does not see, and the model leaves it out.     *)
Copying == pc \in {"open", "copy"}

Alloc ==
  /\ Copying /\ Len(file) < MaxEntries
  /\ file' = Append(file, Blank)
  /\ UNCHANGED parser

Store(k) ==
  /\ Copying
  /\ \/ file[k] = Blank /\ \E e \in Entry : file' = [file EXCEPT ![k] = Torn(e)]
     \/ \E e \in Entry : file[k] = Torn(e) /\ file' = [file EXCEPT ![k] = Whole(e)]
  /\ UNCHANGED parser

-----------------------------------------------------------------------------
(* fopen fails, or the header has another magic, version or byte order. *)
Refuse ==
  /\ pc = "open"
  /\ pc' = "done"
  /\ UNCHANGED <<file, num, buf, i, pos, reported, atOpen>>

CopyPrologueOneMore ==      \* mutant: i <= num_entries_
  /\ pc = "open"
  /\ pc' = "copy"
  /\ num' = Len(file) + 1
  /\ atOpen' = file
  /\ UNCHANGED <<file, buf, i, pos, reported>>

(* fread begins at the front: the prologue is copied before the entries. *)
CopyPrologue ==
  /\ pc = "open"
  /\ pc' = "copy"
  /\ num' = Len(file)
  /\ atOpen' = file
  /\ UNCHANGED <<file, buf, i, pos, reported>>

(* What a copy of an entry may come to show: zeros are a scalar that is    *)
(* not a long, and of an entry being stored there may be any of the        *)
(* fields.  Where the type is unknown parse ends and the length is not     *)
(* used: one value stands for all.                                         *)
Views(c) ==
  {v \in View :
     \/ c.stored = "blank" /\ v = [kind |-> "unknown", length |-> "zero"]
     \/ /\ c.stored = "torn"
        /\ v.kind = "generation" => c.entry = "generation"
        /\ v.kind = "unknown" => v.length = "zero"
     \/ c.stored = "whole" /\ v = [kind |-> c.entry, length |-> "own"]}

(* It goes on entry by entry; the JVM may write between any two. *)
CopyEntry ==
  /\ pc = "copy" /\ Len(buf) < num
  /\ \E v \in Views(file[Len(buf) + 1]) : buf' = Append(buf, v)
  /\ UNCHANGED <<file, pc, num, i, pos, reported, atOpen>>

CopyDone ==
  /\ pc = "copy" /\ Len(buf) = num
  /\ pc' = "parse"
  /\ UNCHANGED <<file, num, buf, i, pos, reported, atOpen>>

-----------------------------------------------------------------------------
(* pos += entry.entry_length_: a zero leads to the same entry again, and   *)
(* past the entries num_entries_ counted pos is at none.                   *)
Advance(length) ==
  CASE length = "own"   -> IF pos < num THEN pos + 1 ELSE Astray
    [] length = "zero"  -> pos
    [] length = "wrong" -> Astray

ParseEntrySkips ==          \* mutant: continue on an unexpected type
  /\ pc = "parse" /\ i < num /\ pos # Astray
  /\ i' = i + 1 /\ pos' = Advance(buf[pos].length)
  /\ reported' = IF buf[pos].kind = "generation"
                   THEN Append(reported, pos) ELSE reported
  /\ UNCHANGED <<file, pc, num, buf, atOpen>>

(* One round of the loop: name and value are printed, or parse returns     *)
(* because the type is not one it knows.                                   *)
ParseEntry ==
  /\ pc = "parse" /\ i < num /\ pos # Astray
  /\ IF buf[pos].kind # "unknown"
       THEN /\ i' = i + 1 /\ pos' = Advance(buf[pos].length)
            /\ reported' = IF buf[pos].kind = "generation"
                             THEN Append(reported, pos) ELSE reported
            /\ UNCHANGED pc
       ELSE pc' = "done" /\ UNCHANGED <<i, pos, reported>>
  /\ UNCHANGED <<file, num, buf, atOpen>>

(* A round at no entry: whatever bytes are there are taken for a header.   *)
(* They may have an unexpected type, lead memcpy or std::string out of the *)
(* buffer, be printed under any name, and lead anywhere, to an entry too.  *)
ParseAstray ==
  /\ pc = "parse" /\ i < num /\ pos = Astray
  /\ \/ pc' \in {"done", "crashed"} /\ UNCHANGED <<i, pos, reported>>
     \/ /\ i' = i + 1
        /\ pos' \in 0 .. num
        /\ reported' \in {reported, Append(reported, Astray)}
        /\ UNCHANGED pc
  /\ UNCHANGED <<file, num, buf, atOpen>>

ParseDoneEarly ==           \* mutant: i < num_entries_ - 1
  /\ pc = "parse" /\ i >= num - 1
  /\ pc' = "done"
  /\ UNCHANGED <<file, num, buf, i, pos, reported, atOpen>>

ParseDone ==
  /\ pc = "parse" /\ i = num
  /\ pc' = "done"
  /\ UNCHANGED <<file, num, buf, i, pos, reported, atOpen>>

Next ==
  \/ Alloc \/ \E k \in DOMAIN file : Store(k)
  \/ Refuse \/ CopyPrologue \/ CopyEntry \/ CopyDone
  \/ ParseEntry \/ ParseAstray \/ ParseDone

Spec == Init /\ [][Next]_vars

-----------------------------------------------------------------------------
Readable(c) == c.stored = "whole" /\ c.entry # "unknown"

(* A generation entry that was complete when fread began and had only      *)
(* complete entries of known types before it.                              *)
Due(k) == (\A j \in 1 .. k : Readable(atOpen[j])) /\ atOpen[k].entry = "generation"

(* The first n reports are the entries due, each once and in file order. *)
DueFirst(n) ==
  /\ \A j, k \in 1 .. n : j < k => reported[j] < reported[k]
  /\ {reported[j] : j \in 1 .. n} = {k \in DOMAIN atOpen : Due(k)}

(* What the JVM writes during fread costs parse no counter that was there: *)
(* the report begins with every generation entry that was complete when    *)
(* fread began and had only readable entries before it, whatever the torn  *)
(* entries behind them make of the rest.                                   *)
ReportsWhatWasThere == Ended => \E n \in 0 .. Len(reported) : DueFirst(n)

(* parse reports nothing else, no entry twice and none out of order,       *)
(* unless the first entry it cannot read was still being stored when fread *)
(* began (whose entry_length_ it then goes by).                            *)
NothingElseReported ==
  Ended => \/ DueFirst(Len(reported))
           \/ \E k \in DOMAIN atOpen : /\ atOpen[k].stored # "whole"
                                       /\ \A j \in 1 .. k - 1 : Readable(atOpen[j])
=============================================================================

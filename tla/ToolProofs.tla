----------------------------- MODULE ToolProofs -----------------------------
(***************************************************************************)
(* The two programs that look into a JVM from outside.                     *)
(*                                                                         *)
(* The parser of hsperfdata (HsperfParser), for a file of any number of    *)
(* counters: what parse reports while the JVM goes on writing.  The symbol *)
(* tool (SymbolTool), for any libraries, loaded in any number and order:   *)
(* its types, that libraries with a hash table are searched exactly, and   *)
(* that the process gets its registers back.                               *)
(***************************************************************************)
EXTENDS HsperfParser, SymbolTool, SequenceTheorems, WellFoundedInduction, TLAPS

(* Nothing has been read yet. *)
Fresh == num = 0 /\ buf = <<>> /\ i = 0 /\ pos = 1 /\ reported = <<>> /\ atOpen = <<>>

Stages ==
  /\ pc = "open" => Fresh
  /\ pc = "copy" => i = 0 /\ pos = 1 /\ reported = <<>>
  /\ pc = "parse" => Len(buf) = num

(* An entry that was whole when fread began still is as it was, in the     *)
(* file and in the copy.                                                   *)
Kept ==
  \A k \in 1 .. num : atOpen[k].stored = "whole" =>
    /\ file[k] = atOpen[k]
    /\ k <= Len(buf) => buf[k] = [kind |-> atOpen[k].entry, length |-> "own"]

(* The first m entries were readable when fread began. *)
Clear(m) == \A j \in 1 .. m : Readable(atOpen[j])

Rising(s, n) == \A j, k \in 1 .. n : j < k => s[j] < s[k]
Firsts(s, n) == {s[j] : j \in 1 .. n}

(* The first n reports are what is due of the first m entries, in order.   *)
DueOf(n, m) == Rising(reported, n) /\ Firsts(reported, n) = {k \in 1 .. m : Due(k)}

(* On readable entries each round takes the loop one entry on,             *)
InStep ==
  Clear(i) => (i < num => pos = i + 1) /\ DueOf(Len(reported), i)

(* and once it is past the first other one, which was not yet whole when   *)
(* fread began, the report still begins with what is due.                  *)
PastTorn ==
  ~Clear(i) =>
    /\ \E n \in 0 .. Len(reported) : DueOf(n, num)
    /\ \E k \in 1 .. i : atOpen[k].stored # "whole" /\ Clear(k - 1)

(* The loop has ended on readable entries only after the last, or before   *)
(* one that was not readable.                                              *)
Halted == Ended /\ Clear(i) /\ i < num => ~Readable(atOpen[i + 1])

ParserInv == TypeOK /\ Stages /\ Kept /\ InStep /\ PastTorn /\ Halted

-----------------------------------------------------------------------------
(* What is in an entry's space. *)
LEMMA CellFields ==
  ASSUME NEW c \in Cell
  PROVE  /\ c.stored \in {"blank", "torn", "whole"}
         /\ c.stored = "whole" => c.entry \in Entry
         /\ Views(c) \subseteq View
BY DEF Cell, Blank, Torn, Whole, Views

(* With no entries before them there is nothing due and nothing unclear. *)
LEMMA NothingYet ==
  ASSUME reported = <<>>
  PROVE  Clear(0) /\ DueOf(Len(reported), 0)
BY DEF Clear, DueOf, Rising, Firsts

(* Before parse opens the file nothing is read. *)
LEMMA InitInv == Init => ParserInv
<1> SUFFICES ASSUME Init PROVE ParserInv
  OBVIOUS
<1>1. PICK n \in 0 .. MaxEntries : \E es \in [1 .. n -> Entry] :
        file = [k \in 1 .. n |-> Whole(es[k])]
  BY DEF Init
<1>2. PICK es \in [1 .. n -> Entry] : file = [k \in 1 .. n |-> Whole(es[k])]
  BY <1>1
<1>3. file \in [1 .. n -> Cell] /\ n \in Nat /\ n <= MaxEntries
  BY <1>2, MaxEntriesAssumption DEF Cell
<1>4. file \in Seq(Cell) /\ Len(file) = n
  BY <1>3
<1>5. TypeOK
  BY <1>3, <1>4, EmptySeq DEF Init, TypeOK
<1>6. Clear(0) /\ DueOf(Len(reported), 0) /\ i = 0 /\ num = 0
  BY NothingYet DEF Init
<1> QED
  BY <1>5, <1>6 DEF Init, ParserInv, Stages, Fresh, Kept, InStep, PastTorn, Halted

-----------------------------------------------------------------------------
(* The JVM writes: what was whole stays as it is. *)
Grows ==
  /\ file' \in Seq(Cell) /\ Len(file') <= MaxEntries /\ Len(file) <= Len(file')
  /\ \A k \in 1 .. Len(file) : file[k].stored = "whole" => file'[k] = file[k]

(* Alloc and Store only add to the file. *)
LEMMA FileGrows ==
  ASSUME TypeOK, Alloc \/ \E k \in DOMAIN file : Store(k)
  PROVE  Grows
<1>0. file \in Seq(Cell) /\ Len(file) \in Nat /\ DOMAIN file = 1 .. Len(file)
  BY LenProperties DEF TypeOK
<1>1. CASE Alloc
  <2>1. Blank \in Cell
    BY DEF Cell
  <2> QED
    BY <1>0, <1>1, <2>1, AppendProperties, MaxEntriesAssumption DEF Alloc, Grows
<1>2. ASSUME NEW k \in DOMAIN file, Store(k)
      PROVE  Grows
  <2>1. PICK c \in Cell : file' = [file EXCEPT ![k] = c]
    BY <1>2 DEF Store, Cell
  <2>2. file[k].stored # "whole"
    BY <1>2 DEF Store, Blank, Torn
  <2>3. k \in 1 .. Len(file)
    BY <1>0
  <2>4. /\ file' \in Seq(Cell) /\ Len(file') = Len(file)
        /\ \A j \in 1 .. Len(file) : j # k => file'[j] = file[j]
    BY <1>0, <2>1, <2>3, ExceptSeq
  <2>5. ASSUME NEW j \in 1 .. Len(file), file[j].stored = "whole"
        PROVE  file'[j] = file[j]
    BY <2>2, <2>4, <2>5
  <2>6. Len(file) <= MaxEntries
    BY DEF TypeOK
  <2> QED
    BY <1>0, <2>4, <2>5, <2>6 DEF Grows
<1> QED
  BY <1>1, <1>2

(* What is due and in order depends on the report, on how far the loop has *)
(* come and on the entries when fread began.                               *)
LEMMA SameReport ==
  ASSUME InStep, PastTorn, UNCHANGED <<num, i, pos, reported, atOpen>>
  PROVE  InStep' /\ PastTorn'
<1>1. InStep'
  BY DEF InStep, Clear, DueOf, Rising, Firsts, Due
<1>2. (Clear(i) <=> Clear(i)') /\ \A k : Clear(k - 1) => Clear(k - 1)'
  BY DEF Clear
<1>3. \A n : DueOf(n, num) => DueOf(n, num)'
  BY DEF DueOf, Rising, Firsts, Due
<1>4. PastTorn'
  BY <1>2, <1>3 DEF PastTorn
<1> QED
  BY <1>1, <1>4

(* What the JVM writes disturbs nothing parse has copied. *)
LEMMA JvmStep ==
  ASSUME ParserInv, Alloc \/ \E k \in DOMAIN file : Store(k)
  PROVE  ParserInv'
<1>1. UNCHANGED <<pc, num, buf, i, pos, reported, atOpen>>
  BY DEF Alloc, Store, parser
<1>2. Grows
  BY FileGrows DEF ParserInv
<1>3. TypeOK'
  <2>1. num \in 0 .. Len(file) /\ Len(file) \in Nat /\ Len(file') \in Nat
    BY <1>2, LenProperties DEF ParserInv, TypeOK, Grows
  <2> QED
    BY <1>1, <1>2, <2>1 DEF ParserInv, TypeOK, Grows
<1>4. Kept'
  <2>1. num \in 0 .. Len(file) /\ Len(file) \in Nat
    BY LenProperties DEF ParserInv, TypeOK
  <2>2. ASSUME NEW k \in 1 .. num, atOpen[k].stored = "whole"
        PROVE  file'[k] = atOpen[k]
    <3>1. file[k] = atOpen[k]
      BY <2>2 DEF ParserInv, Kept
    <3>2. k \in 1 .. Len(file)
      BY <2>1
    <3> QED
      BY <1>2, <2>2, <3>1, <3>2 DEF Grows
  <2> QED
    BY <1>1, <2>2 DEF ParserInv, Kept
<1>5. InStep' /\ PastTorn'
  BY <1>1, SameReport DEF ParserInv
<1> QED
  BY <1>1, <1>3, <1>4, <1>5 DEF ParserInv, Stages, Fresh, Halted, Ended, Clear

-----------------------------------------------------------------------------
(* parse turns the file down: nothing was due. *)
LEMMA RefuseStep ==
  ASSUME ParserInv, Refuse
  PROVE  ParserInv'
<1>1. Fresh /\ UNCHANGED <<file, num, buf, i, pos, reported, atOpen>> /\ pc' = "done"
  BY DEF ParserInv, Stages, Refuse
<1>2. InStep' /\ PastTorn'
  BY <1>1, SameReport DEF ParserInv
<1> QED
  BY <1>1, <1>2 DEF ParserInv, TypeOK, Fresh, Stages, Kept, Halted

(* fread begins: the ghost atOpen is the file as it is now. *)
LEMMA CopyPrologueStep ==
  ASSUME ParserInv, CopyPrologue
  PROVE  ParserInv'
<1>1. Fresh /\ file \in Seq(Cell) /\ Len(file) \in Nat
  BY LenProperties DEF ParserInv, Stages, CopyPrologue, TypeOK
<1>2. TypeOK'
  BY <1>1, EmptySeq DEF ParserInv, CopyPrologue, TypeOK, Fresh
<1>3. reported' = <<>> /\ i' = 0 /\ pos' = 1 /\ buf' = <<>> /\ pc' = "copy"
  BY <1>1 DEF CopyPrologue, Fresh
<1>4. InStep' /\ PastTorn' /\ Halted'
  BY <1>3 DEF InStep, PastTorn, Halted, Ended, Clear, DueOf, Rising, Firsts
<1>5. Kept'
  BY <1>1, <1>3 DEF CopyPrologue, Kept
<1> QED
  BY <1>2, <1>3, <1>4, <1>5 DEF ParserInv, Stages

(* fread copies one more entry; a whole one is as it was. *)
LEMMA CopyEntryStep ==
  ASSUME ParserInv, CopyEntry
  PROVE  ParserInv'
<1>1. /\ buf \in Seq(View) /\ file \in Seq(Cell) /\ Len(buf) \in Nat /\ Len(file) \in Nat
      /\ Len(buf) + 1 \in 1 .. num /\ num \in 0 .. Len(file)
  BY LenProperties DEF ParserInv, TypeOK, CopyEntry
<1> DEFINE c == file[Len(buf) + 1]
<1>2. c \in Cell
  BY <1>1, ElementOfSeq
<1>3. PICK v \in Views(c) : buf' = Append(buf, v)
  BY DEF CopyEntry
<1>4. v \in View
  BY <1>2, <1>3, CellFields
<1>5. /\ buf' \in Seq(View) /\ Len(buf') = Len(buf) + 1
      /\ \A k \in 1 .. Len(buf) : buf'[k] = buf[k]
      /\ buf'[Len(buf) + 1] = v
  BY <1>1, <1>3, <1>4, AppendProperties
<1>6. pc = "copy" /\ UNCHANGED <<file, pc, num, i, pos, reported, atOpen>>
  BY DEF CopyEntry
<1>7. TypeOK'
  BY <1>1, <1>5, <1>6 DEF ParserInv, TypeOK
<1>8. Kept'
  <2>1. c.stored = "whole" => v = [kind |-> c.entry, length |-> "own"]
    BY <1>3 DEF Views
  <2> HIDE DEF c
  <2>2. ASSUME NEW k \in 1 .. num, atOpen[k].stored = "whole", k <= Len(buf) + 1
        PROVE  buf'[k] = [kind |-> atOpen[k].entry, length |-> "own"]
    <3>1. CASE k \in 1 .. Len(buf)
      <4>1. buf[k] = [kind |-> atOpen[k].entry, length |-> "own"]
        BY <1>1, <2>2, <3>1 DEF ParserInv, Kept
      <4> QED
        BY <1>5, <3>1, <4>1
    <3>2. CASE k = Len(buf) + 1
      <4>1. c = atOpen[k]
        BY <2>2, <3>2 DEF ParserInv, Kept, c
      <4> QED
        BY <1>5, <2>1, <2>2, <3>2, <4>1
    <3> QED
      BY <1>1, <2>2, <3>1, <3>2
  <2> QED
    BY <1>1, <1>5, <1>6, <2>2 DEF ParserInv, Kept
<1>9. InStep' /\ PastTorn'
  BY <1>6, SameReport DEF ParserInv
<1> QED
  BY <1>6, <1>7, <1>8, <1>9 DEF ParserInv, Stages, Halted, Ended

(* fread ends with num_entries_ entries in the copy. *)
LEMMA CopyDoneStep ==
  ASSUME ParserInv, CopyDone
  PROVE  ParserInv'
<1>1. UNCHANGED <<file, num, buf, i, pos, reported, atOpen>> /\ pc' = "parse" /\ Len(buf) = num
  BY DEF CopyDone
<1>2. InStep' /\ PastTorn'
  BY <1>1, SameReport DEF ParserInv
<1> QED
  BY <1>1, <1>2 DEF ParserInv, TypeOK, Stages, Kept, Halted, Ended

(* The loop ends after num_entries_ rounds. *)
LEMMA ParseDoneStep ==
  ASSUME ParserInv, ParseDone
  PROVE  ParserInv'
<1>1. UNCHANGED <<file, num, buf, i, pos, reported, atOpen>> /\ pc' = "done" /\ i = num
  BY DEF ParseDone
<1>2. InStep' /\ PastTorn'
  BY <1>1, SameReport DEF ParserInv
<1>3. num \in Nat
  BY LenProperties DEF ParserInv, TypeOK
<1> QED
  BY <1>1, <1>2, <1>3 DEF ParserInv, TypeOK, Stages, Kept, Halted

-----------------------------------------------------------------------------
(* A longer report begins as the shorter one did. *)
LEMMA SameFirsts ==
  ASSUME NEW s, NEW t, NEW n \in Nat, \A j \in 1 .. n : t[j] = s[j]
  PROVE  Firsts(t, n) = Firsts(s, n) /\ (Rising(s, n) => Rising(t, n))
BY DEF Firsts, Rising

(* The entry after m, reported after entries up to m. *)
LEMMA OneMore ==
  ASSUME NEW m \in Nat, NEW n \in Nat,
         Rising(reported, n), Firsts(reported, n) \subseteq 1 .. m,
         \A j \in 1 .. n : reported'[j] = reported[j], reported'[n + 1] = m + 1
  PROVE  /\ Rising(reported', n + 1)
         /\ Firsts(reported', n + 1) = Firsts(reported, n) \union {m + 1}
<1> DEFINE s == reported
           t == reported'
<1>1. \A j \in 1 .. n + 1 : j \in 1 .. n \/ j = n + 1
  OBVIOUS
<1>2. \A j \in 1 .. n : s[j] \in 1 .. m
  BY DEF Firsts
<1>3. Firsts(t, n + 1) = Firsts(s, n) \union {m + 1}
  <2>1. n + 1 \in 1 .. n + 1 /\ 1 .. n \subseteq 1 .. n + 1
    OBVIOUS
  <2> QED
    BY <1>1, <2>1 DEF Firsts
<1>4. ASSUME NEW j \in 1 .. n + 1, NEW k \in 1 .. n + 1, j < k
      PROVE  t[j] < t[k]
  <2>1. j \in 1 .. n /\ t[j] = s[j] /\ s[j] \in 1 .. m
    BY <1>2, <1>4
  <2>2. CASE k \in 1 .. n
    BY <1>4, <2>1, <2>2 DEF Rising
  <2>3. CASE k = n + 1
    BY <2>1, <2>3
  <2> QED
    BY <1>1, <2>2, <2>3
<1> QED
  BY <1>3, <1>4 DEF Rising

(* Nothing is due behind an entry that was not readable. *)
LEMMA DueEnds ==
  ASSUME NEW m \in Nat, m < num, num \in Nat, ~Readable(atOpen[m + 1])
  PROVE  {k \in 1 .. num : Due(k)} = {k \in 1 .. m : Due(k)}
<1>1. ASSUME NEW k \in 1 .. num, Due(k)
      PROVE  k \in 1 .. m
  <2>1. k >= m + 1 => Readable(atOpen[m + 1])
    BY <1>1 DEF Due
  <2> QED
    BY <2>1
<1> QED
  BY <1>1

(* What a round of the loop does to the report: at most one more entry.    *)
Longer ==
  /\ Len(reported') \in Nat /\ Len(reported) <= Len(reported')
  /\ \A j \in 1 .. Len(reported) : reported'[j] = reported[j]

(* A round that is past, or at, an entry that was not readable.            *)
LEMMA TornRound ==
  ASSUME ParserInv, pc = "parse", i < num, i' = i + 1, Longer,
         UNCHANGED <<num, atOpen>>,
         Clear(i) => atOpen[i + 1].stored # "whole"
  PROVE  ~Clear(i + 1) /\ InStep' /\ PastTorn'
<1>1. num \in Nat /\ i \in Nat /\ Len(reported) \in Nat
  BY LenProperties DEF ParserInv, TypeOK
<1>2. ~Clear(i + 1)
  <2>1. CASE Clear(i)
    BY <1>1, <2>1 DEF Clear, Readable
  <2>2. CASE ~Clear(i)
    BY <1>1, <2>2 DEF Clear
  <2> QED
    BY <2>1, <2>2
<1>3. PICK n \in 0 .. Len(reported) : DueOf(n, num)
  <2>1. CASE Clear(i)
    <3>1. DueOf(Len(reported), i) /\ ~Readable(atOpen[i + 1])
      BY <2>1 DEF ParserInv, InStep, Readable
    <3>2. DueOf(Len(reported), num)
      BY <1>1, <3>1, DueEnds DEF DueOf
    <3> QED
      BY <1>1, <3>2
  <2>2. CASE ~Clear(i)
    BY <2>2 DEF ParserInv, PastTorn
  <2> QED
    BY <2>1, <2>2
<1>4. DueOf(n, num)'
  <2>1. n \in Nat /\ \A j \in 1 .. n : reported'[j] = reported[j]
    BY <1>1, <1>3 DEF Longer
  <2>2. Firsts(reported', n) = Firsts(reported, n) /\ (Rising(reported, n) => Rising(reported', n))
    BY <2>1, SameFirsts
  <2> QED
    BY <1>3, <2>2 DEF DueOf, Due, Rising, Firsts
<1>5. n \in 0 .. Len(reported')
  BY <1>1 DEF Longer
<1>6. PICK k \in 1 .. i + 1 : atOpen[k].stored # "whole" /\ Clear(k - 1)
  <2>1. CASE Clear(i)
    BY <1>1, <2>1
  <2>2. CASE ~Clear(i)
    BY <1>1, <2>2 DEF ParserInv, PastTorn
  <2> QED
    BY <2>1, <2>2
<1>7. Clear(i)' <=> Clear(i + 1)
  BY DEF Clear
<1>8. Clear(k - 1)' <=> Clear(k - 1)
  BY DEF Clear
<1>9. InStep'
  BY <1>2, <1>7 DEF InStep
<1>10. PastTorn'
  BY <1>4, <1>5, <1>6, <1>8 DEF PastTorn
<1> QED
  BY <1>2, <1>9, <1>10

-----------------------------------------------------------------------------
(* A round at an entry.  One that was readable when fread began takes the  *)
(* loop one on and is reported if it is a generation's; one that was whole *)
(* and of an unknown type ends parse; any other was still being stored.    *)
LEMMA ParseEntryStep ==
  ASSUME ParserInv, ParseEntry
  PROVE  ParserInv'
<1>1. /\ num \in Nat /\ i \in Nat /\ i < num /\ Len(buf) = num /\ buf \in Seq(View)
      /\ pos \in 1 .. num /\ reported \in Seq(0 .. num) /\ Len(reported) \in Nat
      /\ pc = "parse" /\ UNCHANGED <<file, num, buf, atOpen>>
  BY LenProperties DEF ParserInv, TypeOK, ParseEntry, Stages, Astray
<1> DEFINE v == buf[pos]
<1>2. v \in View
  BY <1>1, ElementOfSeq
<1>3. Clear(i) => pos = i + 1
  BY <1>1 DEF ParserInv, InStep
<1>4. /\ Clear(i) /\ atOpen[i + 1].stored = "whole"
         => v = [kind |-> atOpen[i + 1].entry, length |-> "own"]
  BY <1>1, <1>3 DEF ParserInv, Kept
<1>5. Kept' /\ Stages'
  BY <1>1 DEF ParserInv, Kept, Stages, ParseEntry
<1>6. CASE v.kind = "unknown"
  <2>1. pc' = "done" /\ UNCHANGED <<i, pos, reported>>
    BY <1>6 DEF ParseEntry
  <2>2. TypeOK'
    BY <1>1, <2>1 DEF ParserInv, TypeOK
  <2>3. InStep' /\ PastTorn'
    BY <1>1, <2>1, SameReport DEF ParserInv
  <2>4. Clear(i) => ~Readable(atOpen[i + 1])
    BY <1>4, <1>6 DEF Readable
  <2>5. Halted'
    BY <1>1, <2>1, <2>4 DEF Halted, Clear
  <2> QED
    BY <1>5, <2>2, <2>3, <2>5 DEF ParserInv
<1>7. CASE v.kind # "unknown"
  <2> DEFINE more == v.kind = "generation"
  <2>1. /\ i' = i + 1 /\ pos' = Advance(v.length) /\ UNCHANGED pc
        /\ reported' = IF more THEN Append(reported, pos) ELSE reported
    BY <1>7 DEF ParseEntry
  <2>2. /\ reported' \in Seq(0 .. num)
        /\ Len(reported') = IF more THEN Len(reported) + 1 ELSE Len(reported)
        /\ \A j \in 1 .. Len(reported) : reported'[j] = reported[j]
        /\ more => reported'[Len(reported) + 1] = pos
    <3>1. pos \in 0 .. num
      BY <1>1
    <3>2. CASE more
      <4>1. reported' = Append(reported, pos)
        BY <2>1, <3>2
      <4> QED
        BY <1>1, <3>1, <3>2, <4>1, AppendProperties
    <3>3. CASE ~more
      BY <1>1, <2>1, <3>3
    <3> QED
      BY <3>2, <3>3
  <2>3. pos' \in {1, Astray} \union 1 .. num
    <3>1. v.length \in Lengths
      BY <1>2 DEF View
    <3> QED
      BY <1>1, <2>1, <3>1 DEF Advance, Astray, Lengths
  <2>4. TypeOK'
    BY <1>1, <2>1, <2>2, <2>3 DEF ParserInv, TypeOK
  <2>5. Halted'
    BY <1>1, <2>1 DEF Halted, Ended
  <2>6. Longer
    BY <1>1, <2>2 DEF Longer
  <2>7. InStep' /\ PastTorn'
    <3>1. CASE Clear(i) => atOpen[i + 1].stored # "whole"
      BY <1>1, <2>1, <2>6, <3>1, TornRound
    <3>2. CASE Clear(i) /\ atOpen[i + 1].stored = "whole"
      <4>1. v.kind = atOpen[i + 1].entry /\ v.length = "own" /\ pos = i + 1
        BY <1>3, <1>4, <3>2
      <4>2. Readable(atOpen[i + 1])
        BY <1>7, <3>2, <4>1 DEF Readable
      <4>3. Clear(i + 1)
        <5>1. \A j \in 1 .. i + 1 : j \in 1 .. i \/ j = i + 1
          BY <1>1
        <5> QED
          BY <3>2, <4>2, <5>1 DEF Clear
      <4>4. Due(i + 1) <=> more
        BY <4>1, <4>3 DEF Due, Clear
      <4>5. DueOf(Len(reported), i)
        BY <3>2 DEF ParserInv, InStep
      <4> HIDE DEF more
      <4> DEFINE D == {k \in 1 .. i : Due(k)}
      <4>6. {k \in 1 .. i + 1 : Due(k)} = IF more THEN D \union {i + 1} ELSE D
        <5>1. \A k : k \in 1 .. i + 1 <=> (k \in 1 .. i \/ k = i + 1)
          BY <1>1
        <5> QED
          BY <4>4, <5>1
      <4>7. Rising(reported', Len(reported')) /\ Firsts(reported', Len(reported')) = {k \in 1 .. i + 1 : Due(k)}
        <5>1. D \subseteq 1 .. i /\ Rising(reported, Len(reported)) /\ Firsts(reported, Len(reported)) = D
          BY <4>5 DEF DueOf
        <5> HIDE DEF D
        <5>2. CASE more
          <6> DEFINE n == Len(reported)
          <6>1. n \in Nat /\ i \in Nat
            BY <1>1
          <6>2. (\A j \in 1 .. n : reported'[j] = reported[j]) /\ reported'[n + 1] = i + 1
            BY <2>2, <4>1, <5>2
          <6>3. Rising(reported, n) /\ Firsts(reported, n) \subseteq 1 .. i
            BY <5>1
          <6> HIDE DEF n
          <6>4. /\ Rising(reported', n + 1)
                /\ Firsts(reported', n + 1) = Firsts(reported, n) \union {i + 1}
            BY <6>1, <6>2, <6>3, OneMore
          <6> USE DEF n
          <6> QED
            BY <2>2, <4>6, <5>1, <5>2, <6>4
        <5>3. CASE ~more
          <6>1. Firsts(reported', Len(reported)) = D /\ Rising(reported', Len(reported))
            BY <1>1, <2>2, <5>1, SameFirsts
          <6> QED
            BY <2>2, <4>6, <5>3, <6>1
        <5> QED
          BY <5>2, <5>3
      <4>8. DueOf(Len(reported), i)'
        BY <1>1, <2>1, <4>7 DEF DueOf, Due, Rising, Firsts
      <4>9. i + 1 < num => pos' = i + 2
        BY <1>1, <2>1, <4>1 DEF Advance
      <4>10. Clear(i)'
        BY <1>1, <2>1, <4>3 DEF Clear
      <4> QED
        BY <1>1, <2>1, <4>8, <4>9, <4>10 DEF InStep, PastTorn
    <3> QED
      BY <3>1, <3>2
  <2> QED
    BY <1>5, <2>4, <2>5, <2>7 DEF ParserInv
<1> QED
  BY <1>6, <1>7

(* A round at no entry.  The loop is past a torn entry: it only adds to    *)
(* the report.                                                             *)
LEMMA ParseAstrayStep ==
  ASSUME ParserInv, ParseAstray
  PROVE  ParserInv'
<1>1. /\ num \in Nat /\ i \in Nat /\ i < num /\ pos = 0
      /\ reported \in Seq(0 .. num) /\ Len(reported) \in Nat
      /\ pc = "parse" /\ UNCHANGED <<file, num, buf, atOpen>>
  BY LenProperties DEF ParserInv, TypeOK, ParseAstray, Stages, Astray
<1>2. ~Clear(i)
  BY <1>1 DEF ParserInv, InStep
<1>3. Kept' /\ Stages'
  BY <1>1 DEF ParserInv, Kept, Stages, ParseAstray
<1>4. CASE pc' \in {"done", "crashed"} /\ UNCHANGED <<i, pos, reported>>
  <2>1. InStep' /\ PastTorn'
    BY <1>1, <1>4, SameReport DEF ParserInv
  <2>2. TypeOK'
    BY <1>1, <1>4 DEF ParserInv, TypeOK
  <2>3. Halted'
    BY <1>1, <1>2, <1>4 DEF Halted, Clear
  <2> QED
    BY <1>3, <2>1, <2>2, <2>3 DEF ParserInv
<1>5. CASE /\ i' = i + 1 /\ pos' \in 0 .. num /\ UNCHANGED pc
           /\ reported' \in {reported, Append(reported, Astray)}
  <2>1. reported' \in Seq(0 .. num) /\ Longer
    <3>1. CASE reported' = reported
      BY <1>1, <3>1 DEF Longer
    <3>2. CASE reported' = Append(reported, 0)
      <4>1. 0 \in 0 .. num
        BY <1>1
      <4> QED
        BY <1>1, <3>2, <4>1, AppendProperties DEF Longer
    <3> QED
      BY <1>5, <3>1, <3>2 DEF Astray
  <2>2. InStep' /\ PastTorn'
    BY <1>1, <1>2, <1>5, <2>1, TornRound
  <2>3. TypeOK'
    BY <1>1, <1>5, <2>1 DEF ParserInv, TypeOK, Astray
  <2>4. Halted'
    BY <1>1, <1>5 DEF Halted, Ended
  <2> QED
    BY <1>3, <2>2, <2>3, <2>4 DEF ParserInv
<1> QED
  BY <1>4, <1>5 DEF ParseAstray

(* The invariant is inductive. *)
LEMMA StepInv == ParserInv /\ [Next]_vars => ParserInv'
<1> SUFFICES ASSUME ParserInv, [Next]_vars PROVE ParserInv'
  OBVIOUS
<1>1. CASE Next
  BY <1>1, JvmStep, RefuseStep, CopyPrologueStep, CopyEntryStep, CopyDoneStep,
     ParseEntryStep, ParseAstrayStep, ParseDoneStep DEF Next
<1>2. CASE UNCHANGED vars
  <2>1. UNCHANGED <<file, pc, num, buf, i, pos, reported, atOpen>>
    BY <1>2 DEF vars
  <2>2. InStep' /\ PastTorn'
    BY <2>1, SameReport DEF ParserInv
  <2> QED
    BY <2>1, <2>2 DEF ParserInv, TypeOK, Stages, Fresh, Kept, Halted, Ended, Clear
<1> QED
  BY <1>1, <1>2

(* The invariant holds whatever the JVM and parse do. *)
THEOREM ParserInvariant == Spec => []ParserInv
BY InitInv, StepInv, PTL DEF Spec

-----------------------------------------------------------------------------
(* Every reachable state is well typed: parse stays inside the entries     *)
(* that num_entries_ counted, or knows of none it is at.                   *)
THEOREM TypeCorrect == Spec => []TypeOK
BY ParserInvariant, PTL DEF ParserInv

(* The end of the loop on readable entries: all that is due is reported,   *)
(* and nothing else.                                                       *)
LEMMA EndClear ==
  ASSUME ParserInv, Ended, Clear(i)
  PROVE  DueOf(Len(reported), num)
<1>1. num \in Nat /\ i \in 0 .. num /\ DueOf(Len(reported), i)
  BY LenProperties DEF ParserInv, TypeOK, InStep
<1>2. CASE i = num
  BY <1>1, <1>2
<1>3. CASE i < num
  <2>1. {k \in 1 .. num : Due(k)} = {k \in 1 .. i : Due(k)}
    BY <1>1, <1>3, DueEnds DEF ParserInv, Halted
  <2> QED
    BY <1>1, <2>1 DEF DueOf
<1> QED
  BY <1>1, <1>2, <1>3

(* The entries due, as the properties and as the invariant count them. *)
LEMMA SameDue ==
  ASSUME TypeOK, NEW n
  PROVE  DueOf(n, num) => DueFirst(n)
<1>1. DOMAIN atOpen = 1 .. num
  BY LenProperties DEF TypeOK
<1> QED
  BY <1>1 DEF DueOf, DueFirst, Rising, Firsts

(* Whatever the JVM writes during fread, and whatever the torn entries     *)
(* lead parse to, its report begins with every generation entry that was   *)
(* there and readable when fread began, each once and in file order.       *)
THEOREM ReportCorrect == Spec => []ReportsWhatWasThere
<1>1. ParserInv => ReportsWhatWasThere
  <2> SUFFICES ASSUME ParserInv, Ended
               PROVE  \E n \in 0 .. Len(reported) : DueFirst(n)
    BY DEF ReportsWhatWasThere
  <2>1. Len(reported) \in Nat /\ TypeOK
    BY LenProperties DEF ParserInv, TypeOK
  <2>2. PICK n \in 0 .. Len(reported) : DueOf(n, num)
    BY <2>1, EndClear DEF ParserInv, PastTorn
  <2> QED
    BY <2>1, <2>2, SameDue
<1> QED
  BY <1>1, ParserInvariant, PTL

(* parse reports nothing else, unless the first entry it could not read    *)
(* was still being stored when fread began.                                *)
THEOREM NothingElseCorrect == Spec => []NothingElseReported
<1>1. ParserInv => NothingElseReported
  <2> SUFFICES ASSUME ParserInv, Ended, ~DueFirst(Len(reported))
               PROVE  \E k \in DOMAIN atOpen : /\ atOpen[k].stored # "whole"
                                               /\ \A j \in 1 .. k - 1 : Readable(atOpen[j])
    BY DEF NothingElseReported
  <2>1. DOMAIN atOpen = 1 .. num /\ num \in Nat /\ i \in 0 .. num /\ TypeOK
    BY LenProperties DEF ParserInv, TypeOK
  <2>2. ~Clear(i)
    BY <2>1, EndClear, SameDue
  <2>3. PICK k \in 1 .. i : atOpen[k].stored # "whole" /\ Clear(k - 1)
    BY <2>2 DEF ParserInv, PastTorn
  <2> QED
    BY <2>1, <2>3 DEF Clear
<1> QED
  BY <1>1, ParserInvariant, PTL

-----------------------------------------------------------------------------
(* The list is not empty and never changes. *)
LibsOK == libs \in Seq(Libraries) /\ Len(libs) >= 1

(* get_linkmap gives a list of at least one library: the program itself.   *)
LEMMA InitLibs == ToolInit => LibsOK
BY MaxLibsAssumption DEF ToolInit, LibsOK

(* What a library record holds. *)
LEMMA LibraryFacts ==
  ASSUME LibsOK, NEW j \in 1 .. Len(libs)
  PROVE  /\ libs[j] \in Libraries
         /\ libs[j].hash \in BOOLEAN /\ libs[j].relent \in BOOLEAN
         /\ libs[j].syms \in Seq(Entries)
         /\ Len(libs[j].syms) \in Nat
<1>1. libs[j] \in Libraries
  BY DEF LibsOK
<1>2. libs[j] \in [named : BOOLEAN, hash : BOOLEAN, relent : BOOLEAN, syms : Seq(Entries)]
  BY <1>1, LibrariesAssumption
<1> QED
  BY <1>1, <1>2

(* A set of naturals that is not empty has a Min. *)
LEMMA MinFacts ==
  ASSUME NEW S \in SUBSET Nat, S # {}
  PROVE  Min(S) \in S /\ \A y \in S : Min(S) <= y
<1>1. PICK x \in S : \A y \in S : ~(<<y, x>> \in OpToRel(<, Nat))
  BY NatLessThanWellFounded, WFMin
<1>2. ASSUME NEW y \in S PROVE x <= y
  <2>1. <<y, x>> \in Nat \X Nat /\ <<y, x>>[1] = y /\ <<y, x>>[2] = x
    OBVIOUS
  <2>2. ~(y < x)
    BY <1>1, <2>1, Zenon DEF OpToRel
  <2> QED
    BY <2>2
<1> QED
  BY <1>2 DEF Min

(* After(k) holds what find_symbol visits behind library k. *)
LEMMA AfterFacts ==
  ASSUME LibsOK, NEW k \in 1 .. Len(libs)
  PROVE  /\ After(k) \subseteq k + 1 .. Len(libs)
         /\ \A j \in k + 1 .. Len(libs) : Visited(j) => j \in After(k)
         /\ After(k) # {} => /\ Min(After(k)) \in k + 1 .. Len(libs)
                             /\ \A j \in After(k) : Min(After(k)) <= j
<1>1. After(k) \subseteq k + 1 .. Len(libs) /\ After(k) \in SUBSET Nat
  BY DEF After, LibsOK
<1>2. \A j \in k + 1 .. Len(libs) : Visited(j) => j \in After(k)
  BY DEF After, Visited, LibsOK
<1> QED
  BY <1>1, <1>2, MinFacts

-----------------------------------------------------------------------------
(* Where the search is, and what it has passed over. *)
SearchKnown ==
  /\ tool \in {"start", "attached", "search"} => sym_addr = NotFound
  /\ tool = "search" =>
       /\ lm \in 1 .. Len(libs)
       /\ \A j \in DOMAIN libs : j < lm /\ Visited(j) /\ libs[j].hash => ~Defines(libs[j])

(* Registers, and the status that nobody wrote. *)
RegsKnown ==
  /\ process \in {"running", "stopped", "dead"}
  /\ tool \in {"start", "attached", "search", "call", "done", "crashed"} => regs = "own"
  /\ tool # "start" /\ Traced => oldregs = "own"
  /\ tool \in {"waitSignal", "detach"} /\ ~unwaited => process # "running"
  /\ tool = "failed" => regs = "own" \/ unwaited \/ process = "dead"

(* The steps of the tool and of the process keep the list. *)
LEMMA LibsStep == LibsOK /\ [ToolNext]_toolVars => LibsOK'
BY DEF LibsOK, ToolNext, toolVars, elf, Attach, GetLinkmap, SearchLibrary, DivideByZero, Call,
       Stopped, Signalled, Detach, CallEnds, Killed

(* What ptrace_call and ptrace_detach do to the registers.                 *)
LEMMA RegsStep == RegsKnown /\ [ToolNext]_toolVars => RegsKnown'
<1> SUFFICES ASSUME RegsKnown, [ToolNext]_toolVars PROVE RegsKnown'
  OBVIOUS
<1> USE DEF RegsKnown, Traced
<1>1. CASE Attach
  BY <1>1 DEF Attach
<1>2. CASE GetLinkmap
  BY <1>2 DEF GetLinkmap
<1>3. CASE SearchLibrary
  BY <1>3 DEF SearchLibrary
<1>4. CASE DivideByZero
  BY <1>4 DEF DivideByZero
<1>5. CASE Call
  BY <1>5 DEF Call
<1>6. CASE Stopped
  BY <1>6 DEF Stopped
<1>7. CASE Signalled
  BY <1>7 DEF Signalled
<1>8. CASE Detach
  BY <1>8 DEF Detach
<1>9. CASE CallEnds
  BY <1>9 DEF CallEnds
<1>10. CASE Killed
  BY <1>10 DEF Killed
<1>11. CASE UNCHANGED toolVars
  BY <1>11 DEF toolVars
<1> QED
  BY <1>1, <1>2, <1>3, <1>4, <1>5, <1>6, <1>7, <1>8, <1>9, <1>10, <1>11 DEF ToolNext

(* A process the tool lets go of has its own registers, unless the tool    *)
(* took a status it had not written for the stop.                          *)
THEOREM RegistersRestored == ToolSpec => []TargetRestored
<1>1. ToolInit => RegsKnown
  BY DEF ToolInit, RegsKnown, Traced
<1>2. RegsKnown => TargetRestored
  BY DEF RegsKnown, TargetRestored, Traced
<1> QED
  BY <1>1, <1>2, RegsStep, PTL DEF ToolSpec

-----------------------------------------------------------------------------
SearchInv == LibsOK /\ ToolTypeOK /\ SearchKnown /\ SearchExact

(* find_symbol stops at a library: it is the first that defines the symbol *)
(* among those with a hash table.                                          *)
LEMMA FoundStep ==
  ASSUME SearchInv, tool = "search", NEW e \in Stops(libs[lm], Chains(libs[lm])),
         UNCHANGED <<libs, lm>>, tool' = "call", sym_addr' = [lib |-> lm, sym |-> e]
  PROVE  SearchExact'
<1> DEFINE l == libs[lm]
           S == {n \in DOMAIN l.syms : l.syms[n] = "mtrace"}
<1>1. /\ lm \in 1 .. Len(libs) /\ DOMAIN libs = 1 .. Len(libs) /\ Len(libs) \in Nat
      /\ \A j \in DOMAIN libs : j < lm /\ Visited(j) /\ libs[j].hash => ~Defines(libs[j])
  BY DEF SearchInv, SearchKnown, LibsOK
<1>2. l.syms \in Seq(Entries) /\ Len(l.syms) \in Nat /\ DOMAIN l.syms = 1 .. Len(l.syms)
  BY <1>1, LibraryFacts DEF SearchInv
<1>3. l.hash => e = Min(S)
  <2> SUFFICES ASSUME l.hash PROVE e = Min(S)
    OBVIOUS
  <2>1. e \in 1 .. Len(l.syms) /\ IsSym(l, e) /\ \A j \in 1 .. e - 1 : ~IsSym(l, j)
    BY <1>2 DEF Stops, Chains, IsSym
  <2>2. e \in S /\ \A y \in S : e <= y
    BY <1>2, <2>1 DEF IsSym
  <2>3. S \in SUBSET Nat /\ S # {}
    BY <1>2, <2>2
  <2> HIDE DEF S
  <2>4. Min(S) \in S /\ \A y \in S : Min(S) <= y
    BY <2>3, MinFacts
  <2>5. e \in Nat /\ Min(S) \in Nat /\ e <= Min(S) /\ Min(S) <= e
    BY <2>2, <2>3, <2>4
  <2> QED
    BY <2>5
<1>4. \A j \in {j \in DOMAIN libs : Visited(j) /\ libs[j].hash /\ Defines(libs[j])} : lm <= j
  BY <1>1
<1>5. sym_addr'.lib = lm /\ sym_addr'.sym = e /\ lm # 0
  BY <1>1
<1>6. libs' = libs
  OBVIOUS
<1> HIDE DEF l, S
<1> QED
  BY <1>3, <1>4, <1>5, <1>6 DEF SearchExact, Visited, Defines, l, S

(* find_symbol does not stop at a library with a hash table: it does not   *)
(* define the symbol.                                                      *)
LEMMA MissStep ==
  ASSUME SearchInv, tool = "search", MayMiss(libs[lm], Chains(libs[lm]))
  PROVE  \A j \in DOMAIN libs : j <= lm /\ Visited(j) /\ libs[j].hash => ~Defines(libs[j])
<1>1. /\ lm \in 1 .. Len(libs) /\ DOMAIN libs = 1 .. Len(libs) /\ Len(libs) \in Nat
      /\ \A j \in DOMAIN libs : j < lm /\ Visited(j) /\ libs[j].hash => ~Defines(libs[j])
  BY DEF SearchInv, SearchKnown, LibsOK
<1>2. libs[lm].syms \in Seq(Entries) /\ DOMAIN libs[lm].syms = 1 .. Len(libs[lm].syms)
  BY <1>1, LibraryFacts DEF SearchInv
<1>3. libs[lm].hash => ~Defines(libs[lm])
  BY <1>2 DEF MayMiss, Chains, IsSym, Defines
<1> QED
  BY <1>1, <1>3

(* One turn of find_symbol. *)
LEMMA SearchTurn == SearchInv /\ SearchLibrary => SearchInv'
<1> SUFFICES ASSUME SearchInv, SearchLibrary PROVE SearchInv'
  OBVIOUS
<1> DEFINE l == libs[lm]
           n == Chains(l)
<1>0. /\ tool = "search" /\ UNCHANGED <<libs, oldregs, regs, process, unwaited>>
      /\ nchains' = n /\ relsize' = TRUE /\ lm \in 1 .. Len(libs) /\ sym_addr = NotFound
      /\ DOMAIN libs = 1 .. Len(libs) /\ Len(libs) \in Nat
  BY DEF SearchLibrary, SearchInv, SearchKnown, LibsOK
<1>1. LibsOK'
  BY <1>0 DEF SearchInv, LibsOK
<1>2. nchains' \in Nat /\ relsize' \in BOOLEAN
  BY <1>0, LibraryFacts DEF SearchInv, ToolTypeOK, Chains
<1>3. CASE \E e \in Stops(l, n) : /\ sym_addr' = [lib |-> lm, sym |-> e]
                                  /\ tool' = "call" /\ UNCHANGED lm
  <2>1. PICK e \in Stops(l, n) : /\ sym_addr' = [lib |-> lm, sym |-> e]
                                 /\ tool' = "call" /\ UNCHANGED lm
    BY <1>3
  <2>2. SearchExact'
    BY <1>0, <2>1, FoundStep
  <2>3. ToolTypeOK' /\ SearchKnown'
    BY <1>0, <1>2, <2>1 DEF SearchInv, ToolTypeOK, SearchKnown
  <2> QED
    BY <1>1, <2>2, <2>3 DEF SearchInv
<1>4. CASE MayMiss(l, n) /\ After(lm) = {} /\ tool' = "call" /\ UNCHANGED <<lm, sym_addr>>
  <2>1. \A j \in DOMAIN libs : j <= lm /\ Visited(j) /\ libs[j].hash => ~Defines(libs[j])
    BY <1>0, <1>4, MissStep
  <2>2. \A j \in DOMAIN libs : Visited(j) /\ libs[j].hash => ~Defines(libs[j])
    BY <1>0, <1>4, <2>1, AfterFacts DEF SearchInv
  <2>3. sym_addr'.lib = 0
    BY <1>0, <1>4 DEF NotFound
  <2>4. SearchExact'
    BY <1>0, <2>2, <2>3 DEF SearchExact, Visited, Defines
  <2>5. ToolTypeOK' /\ SearchKnown'
    BY <1>0, <1>2, <1>4 DEF SearchInv, ToolTypeOK, SearchKnown
  <2> QED
    BY <1>1, <2>4, <2>5 DEF SearchInv
<1>5. CASE MayMiss(l, n) /\ After(lm) # {} /\ lm' = Min(After(lm)) /\ UNCHANGED <<tool, sym_addr>>
  <2>1. \A j \in DOMAIN libs : j <= lm /\ Visited(j) /\ libs[j].hash => ~Defines(libs[j])
    BY <1>0, <1>5, MissStep
  <2>2. lm' \in lm + 1 .. Len(libs) /\ \A j \in lm + 1 .. Len(libs) : Visited(j) => lm' <= j
    BY <1>0, <1>5, AfterFacts DEF SearchInv
  <2>3. \A j \in DOMAIN libs : j < lm' /\ Visited(j) /\ libs[j].hash => ~Defines(libs[j])
    BY <1>0, <2>1, <2>2
  <2>4. SearchKnown'
    <3>1. libs' = libs /\ tool' = "search" /\ sym_addr' = NotFound /\ lm' \in 1 .. Len(libs)
      BY <1>0, <1>5, <2>2
    <3>2. \A j \in DOMAIN libs' :
            j < lm' /\ Visited(j)' /\ libs'[j].hash => ~Defines(libs'[j])
      BY <2>3, <3>1 DEF Visited, Defines
    <3> QED
      BY <3>1, <3>2 DEF SearchKnown, Visited, Defines
  <2>5. SearchExact'
    BY <1>0, <1>5 DEF SearchExact
  <2>6. ToolTypeOK'
    BY <1>0, <1>2, <1>5, <2>2 DEF SearchInv, ToolTypeOK
  <2> QED
    BY <1>1, <2>4, <2>5, <2>6 DEF SearchInv
<1> QED
  BY <1>3, <1>4, <1>5 DEF SearchLibrary

(* The other steps leave the search alone. *)
LEMMA SearchStep == SearchInv /\ RegsKnown /\ [ToolNext]_toolVars => SearchInv'
<1> SUFFICES ASSUME SearchInv, RegsKnown, [ToolNext]_toolVars PROVE SearchInv'
  OBVIOUS
<1>0. LibsOK'
  BY LibsStep DEF SearchInv
<1>1. CASE SearchLibrary
  BY <1>1, SearchTurn
<1>2. CASE GetLinkmap
  <2>1. ToolTypeOK'
    BY <1>2 DEF GetLinkmap, SearchInv, ToolTypeOK, LibsOK
  <2>2. SearchExact'
    BY <1>2 DEF GetLinkmap, SearchExact
  <2>3. SearchKnown'
    BY <1>2 DEF GetLinkmap, SearchInv, SearchKnown, LibsOK
  <2> QED
    BY <1>0, <2>1, <2>2, <2>3 DEF SearchInv
<1>3. ASSUME UNCHANGED elf,
             \/ tool' = tool
             \/ tool = "start" /\ tool' = "attached"
             \/ tool' \in {"failed", "crashed"}
             \/ tool \in {"call", "waitStop", "waitSignal", "detach"}
                  /\ tool' \in {"waitStop", "waitSignal", "detach", "done"}
      PROVE  SearchKnown' /\ SearchExact'
  <2>1. SearchKnown'
    BY <1>3 DEF elf, SearchInv, SearchKnown, Visited, Defines
  <2>2. SearchExact'
    BY <1>3 DEF elf, SearchInv, SearchExact, Visited, Defines
  <2> QED
    BY <2>1, <2>2
<1>4. CASE Attach
  BY <1>0, <1>3, <1>4 DEF Attach, SearchInv, ToolTypeOK, elf
<1>5. CASE DivideByZero
  BY <1>0, <1>3, <1>5 DEF DivideByZero, SearchInv, ToolTypeOK, elf
<1>6. CASE Call
  BY <1>0, <1>3, <1>6 DEF Call, SearchInv, ToolTypeOK, elf
<1>7. CASE Stopped
  BY <1>0, <1>3, <1>7 DEF Stopped, SearchInv, ToolTypeOK, elf
<1>8. CASE Signalled
  BY <1>0, <1>3, <1>8 DEF Signalled, SearchInv, ToolTypeOK, elf
<1>9. CASE Detach
  BY <1>0, <1>3, <1>9 DEF Detach, SearchInv, RegsKnown, Traced, ToolTypeOK, elf
<1>10. CASE CallEnds
  BY <1>0, <1>3, <1>10 DEF CallEnds, SearchInv, ToolTypeOK, elf
<1>11. CASE Killed
  BY <1>0, <1>3, <1>11 DEF Killed, SearchInv, ToolTypeOK, elf
<1>12. CASE UNCHANGED toolVars
  BY <1>0, <1>3, <1>12 DEF toolVars, SearchInv, ToolTypeOK, elf
<1> QED
  BY <1>1, <1>2, <1>4, <1>5, <1>6, <1>7, <1>8, <1>9, <1>10, <1>11, <1>12 DEF ToolNext

(* The search starts with nothing found. *)
LEMMA InitSearch == ToolInit => SearchInv /\ RegsKnown
<1> SUFFICES ASSUME ToolInit PROVE SearchInv /\ RegsKnown
  OBVIOUS
<1>1. LibsOK
  BY InitLibs
<1>2. RegsKnown
  BY DEF ToolInit, RegsKnown, Traced
<1>3. ToolTypeOK
  <2>1. relsize \in BOOLEAN /\ unwaited \in BOOLEAN
    BY Zenon DEF ToolInit
  <2> QED
    BY <1>1, <2>1 DEF ToolInit, ToolTypeOK, LibsOK, NotFound
<1>4. SearchKnown /\ SearchExact
  BY DEF ToolInit, SearchKnown, SearchExact
<1> QED
  BY <1>1, <1>2, <1>3, <1>4 DEF SearchInv

(* For any libraries: the types of the tool's globals, *)
THEOREM ToolTypeCorrect == ToolSpec => []ToolTypeOK
<1>1. SearchInv => ToolTypeOK
  BY DEF SearchInv
<1> QED
  BY <1>1, InitSearch, SearchStep, RegsStep, PTL DEF ToolSpec

(* and that a stale nchains never hides a definition that a library with a *)
(* hash table has, nor stops find_symbol at a wrong entry of one.          *)
THEOREM SearchCorrect == ToolSpec => []SearchExact
<1>1. SearchInv => SearchExact
  BY DEF SearchInv
<1> QED
  BY <1>1, InitSearch, SearchStep, RegsStep, PTL DEF ToolSpec
=============================================================================

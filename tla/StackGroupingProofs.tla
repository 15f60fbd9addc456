------------------------ MODULE StackGroupingProofs ------------------------
(***************************************************************************)
(* What Groups and PrettyTids return, for any number of forms and any      *)
(* traces.                                                                 *)
(***************************************************************************)
EXTENDS StackGrouping, FiniteSetTheorems, SequenceTheorems, WellFoundedInduction, TLAPS

(* A set of naturals has a least element: what the inductions below use.   *)
LEMMA LeastNat ==
  ASSUME NEW T, T \subseteq Nat, T # {}
  PROVE  \E n \in T : \A m \in T : n <= m
<1> DEFINE R == {p \in Nat \X Nat : p[1] < p[2]}
<1>1. IsWellFoundedOn(R, Nat)
  BY NatLessThanWellFounded DEF OpToRel
<1>2. PICK n \in T : \A m \in T : <<m, n>> \notin R
  <2> HIDE DEF R
  <2> QED
    BY <1>1, WFMin
<1>3. \A m \in T : ~(m < n)
  BY <1>2
<1> QED
  BY <1>3

(* StackComparator is irreflexive,                                         *)
LEMMA LessIrreflexive ==
  ASSUME NEW a \in Seq(Nat)
  PROVE  ~Less(a, a)
BY DEF Less

(* transitive,                                                             *)
LEMMA LessTransitive ==
  ASSUME NEW a \in Seq(Nat), NEW b \in Seq(Nat), NEW c \in Seq(Nat), Less(a, b), Less(b, c)
  PROVE  Less(a, c)
<1>1. Len(a) \in Nat /\ Len(b) \in Nat /\ Len(c) \in Nat
  OBVIOUS
<1>2. CASE Len(a) # Len(b) \/ Len(b) # Len(c)
  BY <1>1, <1>2 DEF Less
<1>3. CASE Len(a) = Len(b) /\ Len(b) = Len(c)
  <2>1. PICK i \in 1 .. Len(a) : a[i] < b[i] /\ \A j \in 1 .. i - 1 : a[j] = b[j]
    BY <1>3 DEF Less
  <2>2. PICK k \in 1 .. Len(b) : b[k] < c[k] /\ \A j \in 1 .. k - 1 : b[j] = c[j]
    BY <1>3 DEF Less
  <2>3. \A j \in 1 .. Len(a) : a[j] \in Nat /\ b[j] \in Nat /\ c[j] \in Nat
    BY <1>3, ElementOfSeq
  <2>4. ASSUME NEW m \in 1 .. Len(a), a[m] < c[m], \A j \in 1 .. m - 1 : a[j] = c[j]
        PROVE  Less(a, c)
    BY <1>3, <2>4 DEF Less
  <2>5. CASE i < k
    <3>1. a[i] < c[i] /\ \A j \in 1 .. i - 1 : a[j] = c[j]
      BY <1>1, <2>1, <2>2, <2>5
    <3> QED
      BY <2>4, <3>1
  <2>6. CASE k <= i
    <3>1. k \in 1 .. Len(a) /\ a[k] <= b[k]
      <4>1. CASE k = i
        BY <2>1, <2>3, <4>1
      <4>2. CASE k < i
        <5>1. k \in 1 .. i - 1 /\ k \in 1 .. Len(a)
          BY <1>1, <1>3, <4>2
        <5>2. a[k] = b[k]
          BY <2>1, <5>1
        <5> QED
          BY <2>3, <5>1, <5>2
      <4> QED
        BY <1>1, <1>3, <2>6, <4>1, <4>2
    <3>2. a[k] < c[k]
      <4>1. a[k] \in Nat /\ b[k] \in Nat /\ c[k] \in Nat /\ b[k] < c[k]
        BY <2>2, <2>3, <3>1
      <4>2. \A x, y, z \in Nat : x <= y /\ y < z => x < z
        OBVIOUS
      <4> QED
        BY <3>1, <4>1, <4>2, Zenon
    <3>3. \A j \in 1 .. k - 1 : a[j] = c[j]
      BY <1>1, <2>1, <2>2, <2>6
    <3> QED
      BY <2>4, <3>1, <3>2, <3>3
  <2> QED
    BY <1>1, <2>5, <2>6
<1> QED
  BY <1>2, <1>3

(* and total: the keys it takes for the same are the same.                 *)
LEMMA SameKeySame ==
  ASSUME NEW a \in Seq(Nat), NEW b \in Seq(Nat)
  PROVE  SameKey(a, b) <=> a = b
<1>1. a = b => SameKey(a, b)
  BY LessIrreflexive DEF SameKey
<1>2. ASSUME SameKey(a, b), a # b PROVE FALSE
  <2>1. Len(a) = Len(b) /\ Len(a) \in Nat
    BY <1>2 DEF SameKey, Less
  <2> DEFINE T == {i \in 1 .. Len(a) : a[i] # b[i]}
  <2>2. T \subseteq Nat /\ T # {}
    <3>1. \E i \in 1 .. Len(a) : a[i] # b[i]
      BY <1>2, <2>1, SeqEqual, Zenon
    <3>2. T # {}
      BY <3>1, Zenon
    <3> QED
      BY <2>1, <3>2
  <2>3. PICK n \in T : \A m \in T : n <= m
    BY <2>2, LeastNat
  <2>4. n \in 1 .. Len(a) /\ a[n] \in Nat /\ b[n] \in Nat /\ a[n] # b[n]
    BY <2>1, <2>3, ElementOfSeq
  <2>5. \A j \in 1 .. n - 1 : a[j] = b[j]
    <3> SUFFICES ASSUME NEW j \in 1 .. n - 1, a[j] # b[j] PROVE FALSE
      OBVIOUS
    <3>1. j \in T /\ ~(n <= j)
      BY <2>1, <2>4
    <3> QED
      BY <2>3, <3>1
  <2>6. Less(a, b) \/ Less(b, a)
    <3>1. CASE a[n] < b[n]
      BY <2>1, <2>4, <2>5, <3>1 DEF Less
    <3>2. CASE b[n] < a[n]
      BY <2>1, <2>4, <2>5, <3>2 DEF Less
    <3> QED
      BY <2>4, <3>1, <3>2
  <2> QED
    BY <1>2, <2>6 DEF SameKey
<1> QED
  BY <1>1, <1>2

-----------------------------------------------------------------------------
Results == [trace : Seq(Nat), tids : Seq(Int)]

(* The forms of a forms: no two of them belong to the same thread.          *)
IsSlot(forms) ==
  /\ forms \in Seq([tid : Int, trace : Seq(Nat)])
  /\ \A i, j \in 1 .. Len(forms) : forms[i].tid = forms[j].tid => i = j

(* Thread t is in result r; r lists no thread twice. *)
Holds(r, t) == \E k \in 1 .. Len(r.tids) : r.tids[k] = t
OnceEach(r) == \A k, l \in 1 .. Len(r.tids) : r.tids[k] = r.tids[l] => k = l

(* What the loop over forms has made of the first m forms. *)
Grouped(results, forms, m) ==
  /\ results \subseteq Results /\ IsFiniteSet(results)
  /\ \A r \in results : r.tids # <<>> /\ OnceEach(r)
  /\ \A r \in results : \A t : Holds(r, t) =>
       \E i \in 1 .. m : forms[i].tid = t /\ forms[i].trace = r.trace
  /\ \A i \in 1 .. m : \E r \in results : Holds(r, forms[i].tid)
  /\ \A r, s \in results : r.trace = s.trace => r = s

(* A form whose trace is new, and one whose trace the map has.             *)
LEMMA AddFormCases ==
  ASSUME NEW results \in SUBSET Results, NEW form \in [tid : Int, trace : Seq(Nat)],
         \A r, s \in results : r.trace = s.trace => r = s
  PROVE  \/ /\ \A r \in results : r.trace # form.trace
            /\ AddForm(results, form) =
                 results \cup {[trace |-> form.trace, tids |-> <<form.tid>>]}
         \/ \E r \in results :
              /\ r.trace = form.trace
              /\ AddForm(results, form) =
                   (results \ {r})
                     \cup {[trace |-> form.trace, tids |-> Append(r.tids, form.tid)]}
<1> DEFINE same == {r \in results : SameKey(r.trace, form.trace)}
<1>1. same = {r \in results : r.trace = form.trace}
  BY SameKeySame DEF Results
<1>2. AddForm(results, form) =
        IF same = {} THEN results \cup {[trace |-> form.trace, tids |-> <<form.tid>>]}
        ELSE (results \ same) \cup {[trace |-> r.trace, tids |-> Append(r.tids, form.tid)] : r \in same}
  BY DEF AddForm
<1> HIDE DEF same
<1>3. CASE same = {}
  BY <1>1, <1>2, <1>3
<1>4. CASE same # {}
  <2>1. PICK r \in results : r.trace = form.trace /\ same = {r}
    BY <1>1, <1>4
  <2>2. {[trace |-> x.trace, tids |-> Append(x.tids, form.tid)] : x \in same}
          = {[trace |-> form.trace, tids |-> Append(r.tids, form.tid)]}
    BY <2>1
  <2> QED
    BY <1>2, <2>1, <2>2
<1> QED
  BY <1>3, <1>4

(* What one turn of the loop needs of the result it adds or changes.       *)
LEMMA ResultGrouped ==
  ASSUME NEW forms, NEW m \in Nat, NEW results, Grouped(results, forms, m),
         NEW old \in SUBSET results, NEW g \in Results,
         g.tids # <<>>, OnceEach(g), g.trace = forms[m + 1].trace, Holds(g, forms[m + 1].tid),
         \A t : Holds(g, t) => t = forms[m + 1].tid \/ \E r \in old : Holds(r, t),
         \A r \in old : \A t : Holds(r, t) => Holds(g, t),
         \A r \in results : r.trace = g.trace <=> r \in old
  PROVE  Grouped((results \ old) \cup {g}, forms, m + 1)
<1> DEFINE new == (results \ old) \cup {g}
<1>1. new \subseteq Results /\ IsFiniteSet(new)
  <2>1. IsFiniteSet(results \ old)
    BY FS_Subset DEF Grouped
  <2> QED
    BY <2>1, FS_AddElement DEF Grouped
<1>2. \A r \in new : r.tids # <<>> /\ OnceEach(r)
  BY DEF Grouped
<1>3. ASSUME NEW r \in new, NEW t, Holds(r, t)
      PROVE  \E i \in 1 .. m + 1 : forms[i].tid = t /\ forms[i].trace = r.trace
  <2>1. \A q \in results : Holds(q, t) =>
          \E i \in 1 .. m + 1 : forms[i].tid = t /\ forms[i].trace = q.trace
    BY DEF Grouped
  <2>2. m + 1 \in 1 .. m + 1
    OBVIOUS
  <2> QED
    BY <1>3, <2>1, <2>2
<1>4. ASSUME NEW i \in 1 .. m + 1 PROVE \E r \in new : Holds(r, forms[i].tid)
  <2>1. CASE i = m + 1
    BY <2>1
  <2>2. CASE i \in 1 .. m
    <3>1. PICK r \in results : Holds(r, forms[i].tid)
      BY <2>2 DEF Grouped
    <3> QED
      BY <3>1
  <2> QED
    BY <2>1, <2>2
<1>5. \A r, s \in new : r.trace = s.trace => r = s
  BY DEF Grouped
<1> QED
  BY <1>1, <1>2, <1>3, <1>4, <1>5 DEF Grouped

(* One turn of the loop.                                                   *)
LEMMA AddFormGrouped ==
  ASSUME NEW forms, IsSlot(forms), NEW m \in Nat, m < Len(forms),
         NEW results, Grouped(results, forms, m)
  PROVE  Grouped(AddForm(results, forms[m + 1]), forms, m + 1)
<1> DEFINE form == forms[m + 1]
<1>1. Len(forms) \in Nat /\ m + 1 \in 1 .. Len(forms)
  BY DEF IsSlot
<1>2. form \in [tid : Int, trace : Seq(Nat)]
  BY <1>1, ElementOfSeq, Zenon DEF IsSlot
<1>3. form.tid \in Int /\ form.trace \in Seq(Nat)
  BY <1>2
<1>4. \A i \in 1 .. m : forms[i].tid # form.tid
  <2>1. \A i \in 1 .. m : i \in 1 .. Len(forms) /\ i # m + 1
    BY <1>1
  <2> QED
    BY <1>1, <2>1 DEF IsSlot
<1>5. \A r \in results : ~Holds(r, form.tid)
  BY <1>4 DEF Grouped
<1>6. results \subseteq Results /\ \A r, s \in results : r.trace = s.trace => r = s
  BY DEF Grouped
<1> HIDE DEF form
<1>7. ASSUME \A r \in results : r.trace # form.trace,
             AddForm(results, form) = results \cup {[trace |-> form.trace, tids |-> <<form.tid>>]}
      PROVE  Grouped(AddForm(results, form), forms, m + 1)
  <2> DEFINE g == [trace |-> form.trace, tids |-> <<form.tid>>]
  <2>1. g \in Results /\ g.trace = form.trace /\ g.tids = <<form.tid>>
    BY <1>3 DEF Results
  <2>2. g.tids # <<>> /\ Len(g.tids) = 1 /\ g.tids[1] = form.tid
    BY <2>1
  <2> HIDE DEF g
  <2>3. OnceEach(g) /\ \A t : Holds(g, t) <=> t = form.tid
    BY <2>2 DEF OnceEach, Holds
  <2>4. Grouped((results \ {}) \cup {g}, forms, m + 1)
    BY <1>7, <2>1, <2>2, <2>3, ResultGrouped DEF form
  <2> QED
    BY <1>7, <2>4 DEF g
<1>8. ASSUME NEW q \in results, q.trace = form.trace,
             AddForm(results, form) =
               (results \ {q}) \cup {[trace |-> form.trace, tids |-> Append(q.tids, form.tid)]}
      PROVE  Grouped(AddForm(results, form), forms, m + 1)
  <2> DEFINE g == [trace |-> form.trace, tids |-> Append(q.tids, form.tid)]
  <2>1. q.tids \in Seq(Int) /\ Len(q.tids) \in Nat
    BY <1>6, LenProperties DEF Results
  <2>2. Append(q.tids, form.tid) \in Seq(Int)
    BY <1>3, <2>1
  <2>3. g \in Results /\ g.trace = form.trace /\ g.tids = Append(q.tids, form.tid)
    BY <1>3, <2>2 DEF Results
  <2> HIDE DEF g
  <2>4. /\ Len(g.tids) = Len(q.tids) + 1 /\ g.tids[Len(q.tids) + 1] = form.tid
        /\ \A k \in 1 .. Len(q.tids) : g.tids[k] = q.tids[k]
    BY <1>3, <2>1, <2>3
  <2>5. g.tids # <<>>
    BY <2>1, <2>4
  <2>6. \A k \in 1 .. Len(g.tids) : k \in 1 .. Len(q.tids) \/ k = Len(q.tids) + 1
    BY <2>1, <2>4
  <2>7. \A k \in 1 .. Len(q.tids) : k \in 1 .. Len(g.tids) /\ q.tids[k] # form.tid
    BY <1>5, <2>1, <2>4 DEF Holds
  <2>8. Len(q.tids) + 1 \in 1 .. Len(g.tids)
    BY <2>1, <2>4
  <2>9. OnceEach(g)
    <3>1. OnceEach(q)
      BY DEF Grouped
    <3> QED
      BY <2>4, <2>6, <2>7, <3>1 DEF OnceEach
  <2>10. \A t : Holds(g, t) <=> t = form.tid \/ Holds(q, t)
    BY <2>4, <2>6, <2>7, <2>8 DEF Holds
  <2>11. Grouped((results \ {q}) \cup {g}, forms, m + 1)
    <3>1. \A r \in results : r.trace = g.trace <=> r \in {q}
      BY <1>6, <1>8, <2>3
    <3>2. /\ {q} \in SUBSET results /\ g.trace = form.trace /\ Holds(g, form.tid)
          /\ \A t : Holds(g, t) => t = form.tid \/ \E r \in {q} : Holds(r, t)
          /\ \A r \in {q} : \A t : Holds(r, t) => Holds(g, t)
      BY <2>3, <2>10
    <3> QED
      BY <2>3, <2>5, <2>9, <3>1, <3>2, ResultGrouped DEF form
  <2> QED
    BY <1>8, <2>11 DEF g
<1> QED
  <2>1. \/ /\ \A r \in results : r.trace # form.trace
           /\ AddForm(results, form) =
                results \cup {[trace |-> form.trace, tids |-> <<form.tid>>]}
        \/ \E r \in results :
             /\ r.trace = form.trace
             /\ AddForm(results, form) =
                  (results \ {r})
                     \cup {[trace |-> form.trace, tids |-> Append(r.tids, form.tid)]}
    BY <1>2, <1>6, AddFormCases
  <2>2. Grouped(AddForm(results, form), forms, m + 1)
    BY <1>7, <1>8, <2>1
  <2> QED
    BY <2>2 DEF form

(* The function by which Groups is defined, for the first n forms. *)
IsLoop(f, forms, n) ==
  f = [i \in 0 .. n |-> IF i = 0 THEN {} ELSE AddForm(f[i - 1], forms[i])]

(* There is such a function.                                               *)
LEMMA LoopExists ==
  ASSUME NEW forms, NEW n \in Nat
  PROVE  \E f : IsLoop(f, forms, n)
<1> DEFINE T == {k \in Nat : ~\E f : IsLoop(f, forms, k)}
<1>1. SUFFICES ASSUME T # {} PROVE FALSE
  OBVIOUS
<1>2. PICK k \in T : \A j \in T : k <= j
  BY <1>1, LeastNat
<1>3. CASE k = 0
  <2>1. IsLoop([i \in 0 .. 0 |-> {}], forms, 0)
    BY DEF IsLoop
  <2> QED
    BY <1>2, <1>3, <2>1
<1>4. CASE k # 0
  <2>1. k - 1 \in Nat /\ k - 1 \notin T
    BY <1>2, <1>4
  <2>2. PICK f : IsLoop(f, forms, k - 1)
    BY <2>1
  <2> DEFINE g == [i \in 0 .. k |-> IF i = k THEN AddForm(f[k - 1], forms[k]) ELSE f[i]]
  <2>3. \A i \in 0 .. k : g[i] = IF i = 0 THEN {} ELSE AddForm(g[i - 1], forms[i])
    <3> SUFFICES ASSUME NEW i \in 0 .. k
                 PROVE  g[i] = IF i = 0 THEN {} ELSE AddForm(g[i - 1], forms[i])
      OBVIOUS
    <3>1. CASE i = k
      <4>1. k - 1 \in 0 .. k /\ k - 1 # k /\ k \in 0 .. k
        BY <1>4
      <4>2. g[k - 1] = f[k - 1]
        BY <4>1
      <4> QED
        BY <1>4, <3>1, <4>1, <4>2
    <3>2. CASE i # k
      <4>1. i \in 0 .. k - 1 /\ g[i] = f[i] /\ (i # 0 => i - 1 \in 0 .. k /\ g[i - 1] = f[i - 1])
        BY <3>2
      <4>2. f[i] = IF i = 0 THEN {} ELSE AddForm(f[i - 1], forms[i])
        BY <2>2, <4>1 DEF IsLoop
      <4> QED
        BY <4>1, <4>2
    <3> QED
      BY <3>1, <3>2
  <2>4. IsLoop(g, forms, k)
    <3>1. g = [i \in 0 .. k |-> g[i]]
      OBVIOUS
    <3> HIDE DEF g
    <3> QED
      BY <2>3, <3>1 DEF IsLoop
  <2> HIDE DEF g
  <2> QED
    BY <1>2, <2>4
<1> QED
  BY <1>3, <1>4

(* Groups merges the forms as Grouped says.                                *)
THEOREM GroupsCorrect ==
  ASSUME NEW forms, IsSlot(forms)
  PROVE  Grouped(Groups(forms), forms, Len(forms))
<1> DEFINE n == Len(forms)
           f == CHOOSE g : IsLoop(g, forms, n)
<1>1. n \in Nat
  BY LenProperties DEF IsSlot
<1>2. IsLoop(f, forms, n)
  BY <1>1, LoopExists
<1>3. Groups(forms) = f[n]
  BY DEF Groups, IsLoop
<1> HIDE DEF n, f
<1>4. f[0] = {} /\ \A i \in 1 .. n : f[i] = AddForm(f[i - 1], forms[i])
  <2>1. \A i \in 0 .. n : f[i] = IF i = 0 THEN {} ELSE AddForm(f[i - 1], forms[i])
    BY <1>2, Zenon DEF IsLoop
  <2> QED
    BY <1>1, <2>1
<1> DEFINE T == {k \in 0 .. n : ~Grouped(f[k], forms, k)}
<1>5. SUFFICES T = {}
  BY <1>1, <1>3 DEF n
<1>6. SUFFICES ASSUME T # {} PROVE FALSE
  OBVIOUS
<1>7. PICK k \in T : \A j \in T : k <= j
  <2>1. T \subseteq Nat
    OBVIOUS
  <2> HIDE DEF T
  <2> QED
    BY <1>6, <2>1, LeastNat
<1>8. CASE k = 0
  <2>1. Grouped({}, forms, 0)
    BY FS_EmptySet DEF Grouped
  <2> QED
    BY <1>4, <1>7, <1>8, <2>1
<1>9. CASE k # 0
  <2>1. k - 1 \in 0 .. n /\ k - 1 \notin T /\ k \in 1 .. n
    BY <1>1, <1>7, <1>9
  <2>2. Grouped(f[k - 1], forms, k - 1)
    BY <2>1
  <2>3. Grouped(AddForm(f[k - 1], forms[k]), forms, k)
    <3>1. k - 1 \in Nat /\ k - 1 < Len(forms) /\ (k - 1) + 1 = k
      BY <1>1, <2>1 DEF n
    <3> QED
      BY <2>2, <3>1, AddFormGrouped
  <2> QED
    BY <1>4, <1>7, <2>1, <2>3
<1> QED
  BY <1>8, <1>9

-----------------------------------------------------------------------------
(* The elements of S before x in the order R. *)
Before(S, R, x) == {y \in S : <<y, x>> \in R}

(* In a finite set that R orders, each element has a place, which tells it *)
(* from the others, and each place has an element.                         *)
LEMMA PlacesInOrder ==
  ASSUME NEW S, IsFiniteSet(S), NEW R,
         \A x \in S : <<x, x>> \notin R,
         \A x, y, z \in S : <<x, y>> \in R /\ <<y, z>> \in R => <<x, z>> \in R,
         \A x, y \in S : x # y => <<x, y>> \in R \/ <<y, x>> \in R
  PROVE  /\ \A x \in S : Cardinality(Before(S, R, x)) \in 0 .. Cardinality(S) - 1
         /\ \A x, z \in S : Cardinality(Before(S, R, x))
                            = Cardinality(Before(S, R, z)) => x = z
         /\ \A i \in 1 .. Cardinality(S) :
              \E x \in S : Cardinality(Before(S, R, x)) = i - 1
<1> USE DEF Before
<1> DEFINE Below(x) == Before(S, R, x)
           n == Cardinality(S)
           f == [x \in S |-> Cardinality(Below(x)) + 1]
<1>1. n \in Nat
  BY FS_CardinalityType
<1>2. \A x \in S : IsFiniteSet(Below(x)) /\ Cardinality(Below(x)) \in Nat
  <2>1. \A x \in S : Below(x) \in SUBSET S
    OBVIOUS
  <2> HIDE DEF Below
  <2> QED
    BY <2>1, FS_Subset, FS_CardinalityType
<1>3. \A x \in S : Cardinality(Below(x)) < n
  <2> SUFFICES ASSUME NEW x \in S PROVE Cardinality(Below(x)) < n
    OBVIOUS
  <2>1. Below(x) \in SUBSET S /\ Below(x) # S
    OBVIOUS
  <2> HIDE DEF Below
  <2> QED
    BY <1>1, <1>2, <2>1, FS_Subset
<1>4. \A x, z \in S : <<x, z>> \in R => Cardinality(Below(x)) < Cardinality(Below(z))
  <2> SUFFICES ASSUME NEW x \in S, NEW z \in S, <<x, z>> \in R
               PROVE  Cardinality(Below(x)) < Cardinality(Below(z))
    OBVIOUS
  <2>1. Below(x) \in SUBSET Below(z) /\ x \in Below(z) /\ x \notin Below(x)
    OBVIOUS
  <2>2. Below(x) # Below(z)
    BY <2>1
  <2> HIDE DEF Below
  <2> QED
    BY <1>2, <2>1, <2>2, FS_Subset
<1>5. \A x, z \in S : Cardinality(Below(x)) = Cardinality(Below(z)) => x = z
  <2> SUFFICES ASSUME NEW x \in S, NEW z \in S, x # z
               PROVE  Cardinality(Below(x)) # Cardinality(Below(z))
    OBVIOUS
  <2>1. <<x, z>> \in R \/ <<z, x>> \in R
    OBVIOUS
  <2> HIDE DEF Below
  <2> QED
    BY <1>2, <1>4, <2>1
<1>6. f \in Injection(S, 1 .. n)
  <2> HIDE DEF Below
  <2>1. f \in [S -> 1 .. n]
    BY <1>1, <1>2, <1>3
  <2>2. \A x, z \in S : f[x] = f[z] => x = z
    BY <1>2, <1>5
  <2> HIDE DEF f
  <2> QED
    BY <2>1, <2>2 DEF Injection, IsInjective
<1>7. IsFiniteSet(1 .. n) /\ Cardinality(1 .. n) = n
  BY <1>1, FS_Interval
<1>8. f \in Surjection(S, 1 .. n)
  <2> HIDE DEF f, n
  <2>1. Cardinality(S) = n
    BY DEF n
  <2> QED
    BY <1>6, <1>7, <2>1, FS_Injection
<1>9. \A i \in 1 .. n : \E x \in S : Cardinality(Below(x)) = i - 1
  <2> HIDE DEF Below
  <2>1. \A i \in 1 .. n : \E x \in S : f[x] = i
    <3> HIDE DEF f
    <3> QED
      BY <1>8 DEF Surjection
  <2> QED
    BY <1>2, <2>1
<1>10. \A x \in S : Cardinality(Below(x)) \in 0 .. n - 1
  <2> HIDE DEF Below, n
  <2> QED
    BY <1>1, <1>2, <1>3
<1> QED
  BY <1>5, <1>9, <1>10

(* The results in the order of the map: each once.                         *)
LEMMA ResultsInOrder ==
  ASSUME NEW results \in SUBSET Results, IsFiniteSet(results),
         \A r, s \in results : r.trace = s.trace => r = s
  PROVE  /\ \A i \in 1 .. Cardinality(results) : ResultAt(results, i) \in results
         /\ \A r \in results : \E j \in 1 .. Cardinality(results) :
              \A i \in 1 .. Cardinality(results) : ResultAt(results, i) = r <=> i = j
<1> DEFINE R == {p \in results \X results : Less(p[1].trace, p[2].trace)}
           Rank(r) == Cardinality({s \in results : Less(s.trace, r.trace)})
           n == Cardinality(results)
<1>1. \A r \in results : r.trace \in Seq(Nat)
  BY DEF Results
<1>2. \A r, s \in results : <<r, s>> \in R <=> Less(r.trace, s.trace)
  OBVIOUS
<1> HIDE DEF R
<1>3. \A r \in results : <<r, r>> \notin R
  BY <1>1, <1>2, LessIrreflexive
<1>4. \A r, s, u \in results : <<r, s>> \in R /\ <<s, u>> \in R => <<r, u>> \in R
  BY <1>1, <1>2, LessTransitive
<1>5. \A r, s \in results : r # s => <<r, s>> \in R \/ <<s, r>> \in R
  BY <1>1, <1>2, SameKeySame DEF SameKey
<1>6. \A r \in results : Before(results, R, r) = {s \in results : Less(s.trace, r.trace)}
  BY <1>2 DEF Before
<1>7. /\ \A r \in results : Cardinality(Before(results, R, r)) \in 0 .. n - 1
      /\ \A r, u \in results : Cardinality(Before(results, R, r))
                                = Cardinality(Before(results, R, u)) => r = u
      /\ \A i \in 1 .. n : \E r \in results : Cardinality(Before(results, R, r)) = i - 1
  BY <1>3, <1>4, <1>5, PlacesInOrder
<1>8. /\ \A r \in results : Rank(r) \in 0 .. n - 1
      /\ \A r, u \in results : Rank(r) = Rank(u) => r = u
      /\ \A i \in 1 .. n : \E r \in results : Rank(r) = i - 1
  BY <1>6, <1>7
<1>9. n \in Nat
  BY FS_CardinalityType
<1>10. \A i : ResultAt(results, i) = CHOOSE r \in results : Rank(r) = i - 1
  BY DEF ResultAt
<1> HIDE DEF Rank, n
<1>11. \A i \in 1 .. n : ResultAt(results, i) \in results /\ Rank(ResultAt(results, i)) = i - 1
  BY <1>8, <1>10
<1>12. ASSUME NEW r \in results
       PROVE  \E j \in 1 .. n : \A i \in 1 .. n : ResultAt(results, i) = r <=> i = j
  <2>1. Rank(r) + 1 \in 1 .. n /\ Rank(r) \in Int
    BY <1>8, <1>9
  <2>2. \A i \in 1 .. n : ResultAt(results, i) = r <=> i = Rank(r) + 1
    <3> SUFFICES ASSUME NEW i \in 1 .. n PROVE ResultAt(results, i) = r <=> i = Rank(r) + 1
      OBVIOUS
    <3>1. ResultAt(results, i) = r <=> Rank(r) = i - 1
      BY <1>8, <1>11
    <3> QED
      BY <1>9, <2>1, <3>1
  <2> QED
    BY <2>1, <2>2
<1> QED
  BY <1>11, <1>12 DEF n

(* A thread is not in a list of tids, and it is in it once. *)
Absent(s, t) == \A i \in 1 .. Len(s) : s[i] # t
Once(s, t) == \E p \in 1 .. Len(s) : \A i \in 1 .. Len(s) : s[i] = t <=> i = p

(* Of two lists put together.                                              *)
LEMMA ConcatOnce ==
  ASSUME NEW s \in Seq(Int), NEW u \in Seq(Int), NEW t
  PROVE  /\ s \o u \in Seq(Int)
         /\ Absent(s, t) /\ Absent(u, t) => Absent(s \o u, t)
         /\ Once(s, t) /\ Absent(u, t) => Once(s \o u, t)
         /\ Absent(s, t) /\ Once(u, t) => Once(s \o u, t)
<1> DEFINE w == s \o u
<1>1. /\ w \in Seq(Int) /\ Len(w) = Len(s) + Len(u) /\ Len(s) \in Nat /\ Len(u) \in Nat
      /\ \A i \in 1 .. Len(w) : w[i] = IF i <= Len(s) THEN s[i] ELSE u[i - Len(s)]
  BY ConcatProperties
<1> HIDE DEF w
<1>2. \A i \in 1 .. Len(s) : i \in 1 .. Len(w) /\ w[i] = s[i]
  BY <1>1
<1>3. \A i \in 1 .. Len(w) :
        i \notin 1 .. Len(s) => i - Len(s) \in 1 .. Len(u) /\ w[i] = u[i - Len(s)]
  BY <1>1
<1>4. Absent(s, t) /\ Absent(u, t) => Absent(w, t)
  BY <1>2, <1>3 DEF Absent
<1>5. ASSUME Once(s, t), Absent(u, t) PROVE Once(w, t)
  <2>1. PICK p \in 1 .. Len(s) : \A i \in 1 .. Len(s) : s[i] = t <=> i = p
    BY <1>5 DEF Once
  <2>2. p \in 1 .. Len(w) /\ \A i \in 1 .. Len(w) : w[i] = t <=> i = p
    BY <1>2, <1>3, <1>5, <2>1 DEF Absent
  <2> QED
    BY <2>2 DEF Once
<1>6. ASSUME Absent(s, t), Once(u, t) PROVE Once(w, t)
  <2>1. PICK p \in 1 .. Len(u) : \A i \in 1 .. Len(u) : u[i] = t <=> i = p
    BY <1>6 DEF Once
  <2>2. p + Len(s) \in 1 .. Len(w) /\ p + Len(s) \notin 1 .. Len(s)
    BY <1>1
  <2>3. ASSUME NEW i \in 1 .. Len(w) PROVE w[i] = t <=> i = p + Len(s)
    <3>1. CASE i \in 1 .. Len(s)
      BY <1>2, <1>6, <2>2, <3>1 DEF Absent
    <3>2. CASE i \notin 1 .. Len(s)
      <4>1. w[i] = t <=> i - Len(s) = p
        BY <1>3, <2>1, <3>2
      <4> QED
        BY <1>1, <4>1
    <3> QED
      BY <3>1, <3>2
  <2> QED
    BY <2>2, <2>3 DEF Once
<1> QED
  BY <1>1, <1>4, <1>5, <1>6 DEF w

(* The function by which PrettyTids is defined, for the first n results. *)
IsListing(f, results, n) ==
  f = [i \in 0 .. n |-> IF i = 0 THEN <<>> ELSE f[i - 1] \o ResultAt(results, i).tids]

(* There is such a function.                                               *)
LEMMA ListingExists ==
  ASSUME NEW results, NEW n \in Nat
  PROVE  \E f : IsListing(f, results, n)
<1> DEFINE T == {k \in Nat : ~\E f : IsListing(f, results, k)}
<1>1. SUFFICES ASSUME T # {} PROVE FALSE
  OBVIOUS
<1>2. PICK k \in T : \A j \in T : k <= j
  BY <1>1, LeastNat
<1>3. CASE k = 0
  <2>1. IsListing([i \in 0 .. 0 |-> <<>>], results, 0)
    BY DEF IsListing
  <2> QED
    BY <1>2, <1>3, <2>1
<1>4. CASE k # 0
  <2>1. k - 1 \in Nat /\ k - 1 \notin T
    BY <1>2, <1>4
  <2>2. PICK f : IsListing(f, results, k - 1)
    BY <2>1
  <2> DEFINE g == [i \in 0 .. k |-> IF i = k THEN f[k - 1] \o ResultAt(results, k).tids ELSE f[i]]
  <2>3. \A i \in 0 .. k : g[i] = IF i = 0 THEN <<>> ELSE g[i - 1] \o ResultAt(results, i).tids
    <3> SUFFICES ASSUME NEW i \in 0 .. k
                 PROVE  g[i] = IF i = 0 THEN <<>> ELSE g[i - 1] \o ResultAt(results, i).tids
      OBVIOUS
    <3>1. CASE i = k
      <4>1. k - 1 \in 0 .. k /\ k - 1 # k /\ k \in 0 .. k
        BY <1>4
      <4>2. g[k - 1] = f[k - 1]
        BY <4>1
      <4> QED
        BY <1>4, <3>1, <4>1, <4>2
    <3>2. CASE i # k
      <4>1. i \in 0 .. k - 1 /\ g[i] = f[i] /\ (i # 0 => i - 1 \in 0 .. k /\ g[i - 1] = f[i - 1])
        BY <3>2
      <4>2. f[i] = IF i = 0 THEN <<>> ELSE f[i - 1] \o ResultAt(results, i).tids
        BY <2>2, <4>1 DEF IsListing
      <4> QED
        BY <4>1, <4>2
    <3> QED
      BY <3>1, <3>2
  <2>4. IsListing(g, results, k)
    <3>1. g = [i \in 0 .. k |-> g[i]]
      OBVIOUS
    <3> HIDE DEF g
    <3> QED
      BY <2>3, <3>1 DEF IsListing
  <2> HIDE DEF g
  <2> QED
    BY <1>2, <2>4
<1> QED
  BY <1>3, <1>4

(* ToPrettyString lists a thread once that is once in one of the results.  *)
LEMMA ListedOnce ==
  ASSUME NEW results \in SUBSET Results, IsFiniteSet(results),
         \A r, s \in results : r.trace = s.trace => r = s,
         NEW t, NEW r \in results, Once(r.tids, t),
         \A s \in results : s # r => Absent(s.tids, t)
  PROVE  PrettyTids(results) \in Seq(Int) /\ Once(PrettyTids(results), t)
<1> DEFINE n == Cardinality(results)
           f == CHOOSE g : IsListing(g, results, n)
<1>1. n \in Nat
  BY FS_CardinalityType
<1>2. IsListing(f, results, n)
  BY <1>1, ListingExists
<1>3. PrettyTids(results) = f[n]
  BY DEF PrettyTids, IsListing
<1>4. PICK j \in 1 .. n : \A i \in 1 .. n : ResultAt(results, i) = r <=> i = j
  BY ResultsInOrder
<1>5. \A i \in 1 .. n : ResultAt(results, i) \in results
  BY ResultsInOrder
<1> HIDE DEF n, f
<1>6. f[0] = <<>> /\ \A i \in 1 .. n : f[i] = f[i - 1] \o ResultAt(results, i).tids
  <2>1. \A i \in 0 .. n : f[i] = IF i = 0 THEN <<>> ELSE f[i - 1] \o ResultAt(results, i).tids
    BY <1>2, Zenon DEF IsListing
  <2>2. 0 \in 0 .. n /\ \A i \in 1 .. n : i \in 0 .. n /\ i # 0
    BY <1>1
  <2> QED
    BY <2>1, <2>2, Zenon
<1> DEFINE Good(i) == /\ f[i] \in Seq(Int)
                      /\ i < j => Absent(f[i], t)
                      /\ j <= i => Once(f[i], t)
           T == {i \in 0 .. n : ~Good(i)}
<1>7. SUFFICES T = {}
  BY <1>1, <1>3
<1>8. SUFFICES ASSUME T # {} PROVE FALSE
  OBVIOUS
<1>9. PICK k \in T : \A i \in T : k <= i
  <2>1. T \subseteq Nat
    OBVIOUS
  <2> HIDE DEF T
  <2> QED
    BY <1>8, <2>1, LeastNat
<1>10. CASE k = 0
  <2>1. Good(0)
    BY <1>6 DEF Absent
  <2> QED
    BY <1>9, <1>10, <2>1
<1>11. CASE k # 0
  <2>1. k - 1 \in 0 .. n /\ k - 1 \notin T /\ k \in 1 .. n
    BY <1>1, <1>9, <1>11
  <2>2. Good(k - 1)
    BY <2>1
  <2> DEFINE u == ResultAt(results, k).tids
  <2>3. u \in Seq(Int) /\ (k = j => Once(u, t)) /\ (k # j => Absent(u, t))
    BY <1>4, <1>5, <2>1 DEF Results
  <2>4. f[k] = f[k - 1] \o u
    BY <1>6, <2>1
  <2> HIDE DEF u
  <2>5. Good(k)
    <3>1. CASE k < j
      BY <2>1, <2>2, <2>3, <2>4, <3>1, ConcatOnce
    <3>2. CASE k = j
      BY <2>1, <2>2, <2>3, <2>4, <3>2, ConcatOnce
    <3>3. CASE j < k
      BY <2>1, <2>2, <2>3, <2>4, <3>3, ConcatOnce
    <3> QED
      BY <1>1, <2>1, <3>1, <3>2, <3>3
  <2> QED
    BY <1>9, <2>1, <2>5
<1> QED
  BY <1>10, <1>11

(* When all forms are merged, the thread of each is once in one result,    *)
(* which has its trace.                                                    *)
LEMMA OneResult ==
  ASSUME NEW forms, IsSlot(forms), NEW results, Grouped(results, forms, Len(forms)),
         NEW i \in 1 .. Len(forms)
  PROVE  \E r \in results :
           /\ r.trace = forms[i].trace /\ Once(r.tids, forms[i].tid)
           /\ \A s \in results : s # r => Absent(s.tids, forms[i].tid)
<1> DEFINE t == forms[i].tid
<1>1. PICK r \in results : Holds(r, t)
  BY DEF Grouped
<1>2. ASSUME NEW s \in results, Holds(s, t) PROVE s.trace = forms[i].trace
  <2>1. PICK j \in 1 .. Len(forms) : forms[j].tid = t /\ forms[j].trace = s.trace
    BY <1>2 DEF Grouped
  <2>2. j = i
    BY <2>1 DEF IsSlot
  <2> QED
    BY <2>1, <2>2
<1>3. \A s \in results : Holds(s, t) => s = r
  BY <1>1, <1>2 DEF Grouped
<1>4. \A s \in results : s # r => Absent(s.tids, t)
  BY <1>3 DEF Holds, Absent
<1>5. Once(r.tids, t)
  <2>1. OnceEach(r)
    BY DEF Grouped
  <2> QED
    BY <1>1, <2>1 DEF Holds, OnceEach, Once
<1> QED
  BY <1>1, <1>2, <1>4, <1>5
=============================================================================

--------------------------- MODULE PreloadProofs ---------------------------
(***************************************************************************)
(* The libraries loaded with LD_PRELOAD: libhook (MemChecker) and libmm    *)
(* (MmapShim).                                                             *)
(*                                                                         *)
(* Of libhook, for any number of threads: types, and that map_ has the     *)
(* blocks in use and their sizes.  That mem_ covers map_ and is the memory *)
(* in use is shown if one thread at a time is between lock and unlock in   *)
(* add and del, which is what trace_lock is there to ensure, and while the *)
(* sizes asked for do not add up to Word.  Of libmm, for any number of     *)
(* threads: the calls through NULL.                                        *)
(***************************************************************************)
EXTENDS MemChecker, MmapShim, FiniteSetTheorems, TLAPS

(* The bytes of f are finitely many. *)
LEMMA BytesFinite ==
  ASSUME NEW S, IsFiniteSet(S), NEW f, \A a \in S : f[a] \in Nat
  PROVE  /\ IsFiniteSet(UNION {{a} \X (1 .. f[a]) : a \in S})
         /\ Bytes(f, S) \in Nat
<1> DEFINE B(a) == {a} \X (1 .. f[a])
           F == {B(a) : a \in S}
<1>1. \A a \in S : IsFiniteSet(B(a))
  <2> TAKE a \in S
  <2>1. IsFiniteSet({a})
    BY FS_Singleton
  <2>2. IsFiniteSet(1 .. f[a])
    BY FS_Interval
  <2> QED
    BY <2>1, <2>2, FS_Product
<1>2. IsFiniteSet(F)
  <2> DEFINE g == [a \in S |-> B(a)]
  <2> HIDE DEF B
  <2>1. g \in Surjection(S, F)
    BY DEF Surjection
  <2> HIDE DEF g, F
  <2> QED
    BY <2>1, FS_Surjection
<1>3. IsFiniteSet(UNION F)
  <2>1. \A T \in F : IsFiniteSet(T)
    BY <1>1
  <2> HIDE DEF F
  <2> QED
    BY <1>2, <2>1, FS_UNION
<1> QED
  BY <1>3, FS_CardinalityType DEF Bytes

(* They depend on what f is on S only,                                     *)
LEMMA BytesAgree ==
  ASSUME NEW S, NEW f, NEW g, \A a \in S : f[a] = g[a]
  PROVE  Bytes(f, S) = Bytes(g, S)
<1>1. {{a} \X (1 .. f[a]) : a \in S} = {{a} \X (1 .. g[a]) : a \in S}
  OBVIOUS
<1> QED
  BY <1>1 DEF Bytes

(* and are none if f is None there.                                        *)
LEMMA BytesNone ==
  ASSUME NEW S, NEW f, \A a \in S : f[a] = 0
  PROVE  Bytes(f, S) = 0
<1>1. UNION {{a} \X (1 .. f[a]) : a \in S} = {}
  OBVIOUS
<1> QED
  BY <1>1, FS_EmptySet DEF Bytes

(* The bytes at one address and the others.                                *)
LEMMA BytesSplit ==
  ASSUME NEW S, IsFiniteSet(S), NEW f, \A b \in S : f[b] \in Nat, NEW a \in S
  PROVE  Bytes(f, S) = Bytes(f, S \ {a}) + f[a]
<1> DEFINE here == {a} \X (1 .. f[a])
           rest == UNION {{b} \X (1 .. f[b]) : b \in S \ {a}}
<1>1. UNION {{b} \X (1 .. f[b]) : b \in S} = rest \cup here
  OBVIOUS
<1>2. rest \cap here = {}
  OBVIOUS
<1>3. IsFiniteSet(here) /\ Cardinality(here) = f[a]
  <2>1. IsFiniteSet({a}) /\ Cardinality({a}) = 1
    BY FS_Singleton
  <2>2. IsFiniteSet(1 .. f[a]) /\ Cardinality(1 .. f[a]) = f[a]
    BY FS_Interval
  <2>3. IsFiniteSet(here) /\ Cardinality(here) = Cardinality({a}) * Cardinality(1 .. f[a])
    BY <2>1, <2>2, FS_Product
  <2> HIDE DEF here
  <2> QED
    BY <2>1, <2>2, <2>3
<1>4. IsFiniteSet(rest) /\ Cardinality(rest) \in Nat
  <2>1. IsFiniteSet(S \ {a}) /\ \A b \in S \ {a} : f[b] \in Nat
    BY FS_Subset
  <2>2. IsFiniteSet(rest)
    BY <2>1, BytesFinite
  <2> HIDE DEF rest
  <2> QED
    BY <2>2, FS_CardinalityType
<1>5. Cardinality(rest \cup here) = Cardinality(rest) + Cardinality(here) - Cardinality(rest \cap here)
  <2> HIDE DEF rest, here
  <2> QED
    BY <1>3, <1>4, FS_Union
<1>6. Cardinality(rest \cap here) = 0
  BY <1>2, FS_EmptySet
<1>7. Bytes(f, S) = Cardinality(rest \cup here) /\ Bytes(f, S \ {a}) = Cardinality(rest)
  BY <1>1 DEF Bytes
<1> HIDE DEF rest, here
<1> QED
  BY <1>3, <1>4, <1>5, <1>6, <1>7

(* What changing f at one address does to them.                            *)
LEMMA BytesUpdate ==
  ASSUME NEW S, IsFiniteSet(S), NEW f, NEW g, NEW a \in S,
         \A b \in S : f[b] \in Nat, g[a] \in Nat,
         \A b \in S \ {a} : g[b] = f[b]
  PROVE  Bytes(f, S) \in Nat /\ Bytes(g, S) \in Nat /\ Bytes(g, S) + f[a] = Bytes(f, S) + g[a]
<1>1. \A b \in S : g[b] \in Nat
  OBVIOUS
<1>2. Bytes(f, S) = Bytes(f, S \ {a}) + f[a]
  BY BytesSplit
<1>3. Bytes(g, S) = Bytes(g, S \ {a}) + g[a]
  BY <1>1, BytesSplit
<1>4. Bytes(f, S \ {a}) = Bytes(g, S \ {a})
  BY BytesAgree
<1>5. Bytes(f, S \ {a}) \in Nat
  <2>1. IsFiniteSet(S \ {a}) /\ \A b \in S \ {a} : f[b] \in Nat
    BY FS_Subset
  <2> QED
    BY <2>1, BytesFinite
<1> QED
  BY <1>2, <1>3, <1>4, <1>5

-----------------------------------------------------------------------------
(* in_mem is set from malloc to the end of add, and at no other time. *)
Flagged == \A t \in Threads : in_mem[t] <=> pc[t] \in {"add", "addStore", "insert"}

HookInv == TypeOK /\ Flagged

(* Sizes are numbers. *)
LEMMA SizesNat == \A size \in Sizes \cup {None} : size \in Nat
<1> TAKE size \in Sizes \cup {None}
<1>1. CASE size \in Sizes
  BY <1>1, SizesAssumption
<1>2. CASE size = None
  BY <1>2 DEF None
<1> QED
  BY <1>1, <1>2

(* What mem_ becomes is a word. *)
LEMMA Wrapped == \A x \in Int : x % Word \in 0 .. Word - 1
BY BoundsAssumption

(* Nothing is traced before the first call.                                *)
LEMMA HookStart == Init => HookInv
<1> SUFFICES ASSUME Init PROVE HookInv
  OBVIOUS
<1>1. /\ live \in [Addrs -> Sizes \cup {None}]
      /\ map_ \in [Addrs \cup {NULL} -> Sizes \cup {None}]
      /\ pc \in [Threads -> {"app", "add", "addStore", "insert", "del", "delStore", "erase", "free"}]
      /\ ptr \in [Threads -> Addrs \cup {NULL}]
      /\ len \in [Threads -> Sizes \cup {None}]
  BY DEF Init
<1>2. mem_ \in 0 .. Word - 1 /\ reg \in [Threads -> 0 .. Word - 1]
  BY BoundsAssumption DEF Init
<1>3. calls \in 0 .. MaxCalls
  BY BoundsAssumption DEF Init
<1>4. in_mem \in [Threads -> BOOLEAN] /\ missed \in BOOLEAN
  BY Zenon DEF Init
<1> QED
  BY <1>1, <1>2, <1>3, <1>4 DEF Init, HookInv, TypeOK, Flagged

(* Every step of malloc, free, add and del, on whichever threads, keeps    *)
(* the types and the flag.                                                 *)
LEMMA HookStep == HookInv /\ [Next]_vars => HookInv'
<1> SUFFICES ASSUME HookInv, [Next]_vars
             PROVE  HookInv'
  OBVIOUS
<1> USE DEF HookInv, TypeOK, Flagged, Goto, None, NULL
<1>1. CASE UNCHANGED vars
  BY <1>1 DEF vars
<1>2. ASSUME NEW t \in Threads, NEW p \in Addrs \cup {NULL}, NEW size \in Sizes, Malloc(t, p, size)
      PROVE  HookInv'
  BY <1>2, BoundsAssumption DEF Malloc
<1>3. ASSUME NEW t \in Threads, NEW p \in Addrs, Free(t, p)
      PROVE  HookInv'
  BY <1>3 DEF Free
<1>4. ASSUME NEW t \in Threads, NEW p \in Addrs, NEW q \in Addrs, NEW size \in Sizes,
             Realloc(t, p, q, size)
      PROVE  HookInv'
  BY <1>4, BoundsAssumption DEF Realloc
<1>5. ASSUME NEW t \in Threads, AddLoad(t)
      PROVE  HookInv'
  BY <1>5 DEF AddLoad
<1>6. ASSUME NEW t \in Threads, AddStore(t)
      PROVE  HookInv'
  <2>1. mem_' \in 0 .. Word - 1
    <3>1. reg[t] + len[t] \in Int
      <4>1. len[t] \in Sizes \cup {None} /\ reg[t] \in 0 .. Word - 1
        OBVIOUS
      <4>2. len[t] \in Nat
        BY <4>1, SizesNat
      <4> QED
        BY <4>1, <4>2, BoundsAssumption
    <3> QED
      BY <1>6, <3>1, Wrapped DEF AddStore
  <2> QED
    BY <1>6, <2>1 DEF AddStore
<1>7. ASSUME NEW t \in Threads, AddInsert(t)
      PROVE  HookInv'
  BY <1>7 DEF AddInsert
<1>8. ASSUME NEW t \in Threads, DelLoad(t)
      PROVE  HookInv'
  BY <1>8 DEF DelLoad
<1>9. ASSUME NEW t \in Threads, DelStore(t)
      PROVE  HookInv'
  <2>1. mem_' \in 0 .. Word - 1
    <3>1. reg[t] - len[t] \in Int
      <4>1. len[t] \in Sizes \cup {None} /\ reg[t] \in 0 .. Word - 1
        OBVIOUS
      <4>2. len[t] \in Nat
        BY <4>1, SizesNat
      <4> QED
        BY <4>1, <4>2, BoundsAssumption
    <3> QED
      BY <1>9, <3>1, Wrapped DEF DelStore
  <2> QED
    BY <1>9, <2>1 DEF DelStore
<1>10. ASSUME NEW t \in Threads, DelErase(t)
       PROVE  HookInv'
  BY <1>10 DEF DelErase
<1>11. ASSUME NEW t \in Threads, LibcFree(t)
       PROVE  HookInv'
  BY <1>11 DEF LibcFree
<1> QED
  BY <1>1, <1>2, <1>3, <1>4, <1>5, <1>6, <1>7, <1>8, <1>9, <1>10, <1>11 DEF Next, Step

(* With any number of threads in the hooks at once, in_mem tells malloc    *)
(* whether it is inside add.                                               *)
THEOREM HookInvariant == Spec => []HookInv
BY HookStart, HookStep, PTL DEF Spec

(* Every variable of libhook keeps its type, whatever the threads do.      *)
THEOREM HookTypeCorrect == Spec => []TypeOK
<1>1. HookInv => TypeOK
  BY DEF HookInv
<1> QED
  BY <1>1, HookInvariant, PTL

-----------------------------------------------------------------------------
(* From malloc to the insert, and from the erase to __libc_free, a block   *)
(* has no entry.                                                           *)
Apart == {"add", "addStore", "insert", "free"}

(* Until a realloc or a failing malloc: each call is about a block of its  *)
(* own, of the size it knows; a block has an entry, of its size, unless a  *)
(* call has it apart.                                                      *)
Entries ==
  ~missed =>
    /\ map_[NULL] = None
    /\ \A t \in Threads : pc[t] # "app" =>
         ptr[t] \in Addrs /\ live[ptr[t]] = len[t] /\ len[t] # None
    /\ \A t, u \in Threads : pc[t] # "app" /\ pc[u] # "app" /\ ptr[t] = ptr[u] => t = u
    /\ \A t \in Threads : pc[t] \in Apart => map_[ptr[t]] = None
    /\ \A a \in Addrs : (\A t \in Threads : pc[t] \in Apart => ptr[t] # a) => map_[a] = live[a]

(* malloc takes a block that no call is about; it has no entry. *)
LEMMA EntriesMalloc ==
  ASSUME HookInv, Entries, NEW t \in Threads, NEW p \in Addrs \cup {NULL}, NEW size \in Sizes,
         Malloc(t, p, size)
  PROVE  Entries'
<1> SUFFICES ASSUME ~missed' PROVE Entries'
  BY DEF Entries
<1>1. ~missed /\ p \in Addrs /\ live[p] = None /\ size # None
  BY AddrsAssumption, SizesAssumption DEF Malloc, None, NULL
<1>2. /\ pc[t] = "app" /\ pc'[t] = "add" /\ ptr'[t] = p /\ len'[t] = size /\ live'[p] = size
      /\ \A u \in Threads \ {t} : pc'[u] = pc[u] /\ ptr'[u] = ptr[u] /\ len'[u] = len[u]
      /\ \A a \in Addrs \ {p} : live'[a] = live[a]
      /\ map_' = map_
  BY <1>1, AddrsAssumption DEF Malloc, Goto, HookInv, TypeOK, NULL
<1>3. \A u \in Threads : pc[u] # "app" => ptr[u] # p
  BY <1>1 DEF Entries
<1>4. map_[p] = None
  BY <1>1, <1>3 DEF Entries, Apart
<1>5. \A u \in Threads : pc'[u] # "app" => ptr'[u] \in Addrs /\ live'[ptr'[u]] = len'[u] /\ len'[u] # None
  BY <1>1, <1>2, <1>3 DEF Entries
<1>6. \A u, v \in Threads : pc'[u] # "app" /\ pc'[v] # "app" /\ ptr'[u] = ptr'[v] => u = v
  BY <1>1, <1>2, <1>3 DEF Entries
<1>7. \A u \in Threads : pc'[u] \in Apart => map_'[ptr'[u]] = None
  BY <1>1, <1>2, <1>4 DEF Entries
<1>8. ASSUME NEW a \in Addrs, \A u \in Threads : pc'[u] \in Apart => ptr'[u] # a
      PROVE  map_'[a] = live'[a]
  <2>1. a # p
    BY <1>2, <1>8 DEF Apart
  <2>2. \A u \in Threads : pc[u] \in Apart => ptr[u] # a
    BY <1>2, <1>8 DEF Apart
  <2> QED
    BY <1>1, <1>2, <2>1, <2>2 DEF Entries
<1> QED
  BY <1>1, <1>2, <1>5, <1>6, <1>7, <1>8 DEF Entries

(* free finds the entry of its block. *)
LEMMA EntriesFree ==
  ASSUME HookInv, Entries, NEW t \in Threads, NEW p \in Addrs, Free(t, p)
  PROVE  Entries'
<1> SUFFICES ASSUME ~missed' PROVE Entries'
  BY DEF Entries
<1>1. ~missed /\ live[p] # None /\ \A u \in Threads : pc[u] # "app" => ptr[u] # p
  BY DEF Free
<1>2. map_[p] = live[p]
  BY <1>1 DEF Entries, Apart
<1>3. /\ pc[t] = "app" /\ pc'[t] = "del" /\ ptr'[t] = p /\ len'[t] = live[p]
      /\ \A u \in Threads \ {t} : pc'[u] = pc[u] /\ ptr'[u] = ptr[u] /\ len'[u] = len[u]
      /\ live' = live /\ map_' = map_
  BY <1>1, <1>2 DEF Free, Goto, HookInv, TypeOK
<1>4. \A a \in Addrs : (\A u \in Threads : pc'[u] \in Apart => ptr'[u] # a) => map_'[a] = live'[a]
  BY <1>1, <1>3 DEF Entries, Apart
<1> QED
  BY <1>1, <1>3, <1>4 DEF Entries, Apart

(* add's insert puts the block and its entry together, *)
LEMMA EntriesInsert ==
  ASSUME HookInv, Entries, NEW t \in Threads, AddInsert(t)
  PROVE  Entries'
<1> SUFFICES ASSUME ~missed' PROVE Entries'
  BY DEF Entries
<1>1. ~missed /\ ptr[t] \in Addrs /\ live[ptr[t]] = len[t] /\ map_[ptr[t]] = None /\ ptr[t] # NULL
  BY AddrsAssumption DEF AddInsert, Entries, Apart, NULL
<1>2. /\ pc[t] = "insert" /\ pc'[t] = "app" /\ \A u \in Threads \ {t} : pc'[u] = pc[u]
      /\ map_'[ptr[t]] = len[t] /\ \A a \in (Addrs \cup {NULL}) \ {ptr[t]} : map_'[a] = map_[a]
      /\ UNCHANGED <<live, ptr, len>>
  BY <1>1 DEF AddInsert, Goto, HookInv, TypeOK
<1>3. \A u \in Threads \ {t} : pc[u] # "app" => ptr[u] # ptr[t] /\ ptr[u] \in Addrs
  BY <1>1, <1>2 DEF Entries
<1>4. \A u \in Threads : pc'[u] \in Apart => map_'[ptr'[u]] = None
  BY <1>1, <1>2, <1>3 DEF Entries, Apart
<1>5. \A a \in Addrs : (\A u \in Threads : pc'[u] \in Apart => ptr'[u] # a) => map_'[a] = live'[a]
  BY <1>1, <1>2 DEF Entries, Apart
<1> QED
  BY <1>1, <1>2, <1>4, <1>5 DEF Entries

(* del's erase takes them apart, *)
LEMMA EntriesErase ==
  ASSUME HookInv, Entries, NEW t \in Threads, DelErase(t)
  PROVE  Entries'
<1> SUFFICES ASSUME ~missed' PROVE Entries'
  BY DEF Entries
<1>1. ~missed /\ ptr[t] \in Addrs /\ ptr[t] # NULL
  BY AddrsAssumption DEF DelErase, Entries, NULL
<1>2. /\ pc[t] = "erase" /\ pc'[t] = "free" /\ \A u \in Threads \ {t} : pc'[u] = pc[u]
      /\ map_'[ptr[t]] = None /\ \A a \in (Addrs \cup {NULL}) \ {ptr[t]} : map_'[a] = map_[a]
      /\ UNCHANGED <<live, ptr, len>>
  BY <1>1 DEF DelErase, Goto, HookInv, TypeOK
<1>3. \A u \in Threads \ {t} : pc[u] # "app" => ptr[u] # ptr[t] /\ ptr[u] \in Addrs
  BY <1>1, <1>2 DEF Entries
<1>4. \A u \in Threads : pc'[u] \in Apart => map_'[ptr'[u]] = None
  BY <1>1, <1>2, <1>3 DEF Entries, Apart
<1>5. \A a \in Addrs : (\A u \in Threads : pc'[u] \in Apart => ptr'[u] # a) => map_'[a] = live'[a]
  BY <1>1, <1>2 DEF Entries, Apart
<1> QED
  BY <1>1, <1>2, <1>4, <1>5 DEF Entries

(* and __libc_free ends the block. *)
LEMMA EntriesLibcFree ==
  ASSUME HookInv, Entries, NEW t \in Threads, LibcFree(t)
  PROVE  Entries'
<1> SUFFICES ASSUME ~missed' PROVE Entries'
  BY DEF Entries
<1>1. ~missed /\ ptr[t] \in Addrs /\ map_[ptr[t]] = None
  BY DEF LibcFree, Entries, Apart
<1>2. /\ pc[t] = "free" /\ pc'[t] = "app" /\ \A u \in Threads \ {t} : pc'[u] = pc[u]
      /\ live'[ptr[t]] = None /\ \A a \in Addrs \ {ptr[t]} : live'[a] = live[a]
      /\ UNCHANGED <<map_, ptr, len>>
  BY <1>1 DEF LibcFree, Goto, HookInv, TypeOK
<1>3. \A u \in Threads \ {t} : pc[u] # "app" => ptr[u] # ptr[t] /\ ptr[u] \in Addrs
  BY <1>1, <1>2 DEF Entries
<1>4. \A u \in Threads : pc'[u] # "app" => ptr'[u] \in Addrs /\ live'[ptr'[u]] = len'[u] /\ len'[u] # None
  BY <1>1, <1>2, <1>3 DEF Entries
<1>5. \A a \in Addrs : (\A u \in Threads : pc'[u] \in Apart => ptr'[u] # a) => map_'[a] = live'[a]
  BY <1>1, <1>2 DEF Entries, Apart
<1> QED
  BY <1>1, <1>2, <1>4, <1>5 DEF Entries

(* Every step keeps the entries, with any number of calls at once.         *)
LEMMA EntriesStep == HookInv /\ Entries /\ [Next]_vars => Entries'
<1> SUFFICES ASSUME HookInv, Entries, [Next]_vars PROVE Entries'
  OBVIOUS
<1>1. ASSUME UNCHANGED <<live, map_, ptr, len, missed>>,
             \A t \in Threads : \/ pc'[t] = pc[t]
                                \/ pc[t] \in {"add", "addStore"} /\ pc'[t] \in {"addStore", "insert"}
                                \/ pc[t] \in {"del", "delStore"} /\ pc'[t] \in {"delStore", "erase"}
      PROVE  Entries'
  BY <1>1 DEF Entries, Apart
<1>2. CASE UNCHANGED vars
  BY <1>1, <1>2 DEF vars
<1>3. ASSUME NEW t \in Threads, AddLoad(t) \/ AddStore(t) \/ DelLoad(t) \/ DelStore(t)
      PROVE  Entries'
  <2>1. /\ UNCHANGED <<live, map_, ptr, len, missed>>
        /\ \A u \in Threads \ {t} : pc'[u] = pc[u]
        /\ \/ pc[t] \in {"add", "addStore"} /\ pc'[t] \in {"addStore", "insert"}
           \/ pc[t] \in {"del", "delStore"} /\ pc'[t] \in {"delStore", "erase"}
    BY <1>3 DEF AddLoad, AddStore, DelLoad, DelStore, Goto, HookInv, TypeOK
  <2> QED
    BY <1>1, <2>1
<1>4. ASSUME NEW t \in Threads, NEW p \in Addrs, NEW q \in Addrs, NEW size \in Sizes,
             Realloc(t, p, q, size)
      PROVE  Entries'
  BY <1>4 DEF Realloc, Entries
<1> QED
  BY <1>2, <1>3, <1>4, EntriesMalloc, EntriesFree, EntriesInsert, EntriesErase, EntriesLibcFree
  DEF Next, Step

(* With any number of threads in the hooks at once and no lock: when no    *)
(* call is under way map_ has an entry for each block in use, of its size, *)
(* and no other, until a realloc or a failing malloc.  What the missing    *)
(* lock spoils is mem_ (and the tree itself, each use of which is one step *)
(* here).                                                                  *)
THEOREM EntriesCorrect == Spec => []EntriesAreLive
<1>1. Init => Entries
  BY DEF Init, Entries
<1>2. Entries => EntriesAreLive
  BY DEF Entries, EntriesAreLive, Quiescent, Apart
<1> QED
  BY <1>1, <1>2, EntriesStep, HookInvariant, PTL DEF Spec

-----------------------------------------------------------------------------
(* Between lock and unlock of m_mutex_ in add and del, did trace_lock lock *)
(* the mutex and not a copy.  A call of add that has not loaded mem_ may   *)
(* be waiting for it.  (A lock that gives this has to be recursive: erase  *)
(* frees the node of map_ through free and del.)                           *)
InLock(t) == pc[t] \in {"addStore", "insert", "del", "delStore", "erase"}
Locked == \A t, u \in Threads : InLock(t) /\ InLock(u) => t = u

(* The calls cannot ask for Word bytes between them: no size is above m. *)
Fits(m) == m \in Nat /\ (\A size \in Sizes : size <= m) /\ MaxCalls * m < Word

Recorded == Bytes(map_, Addrs \cup {NULL})

(* What a thread holds in ptr, reg and len is still so. *)
Calling ==
  \A t \in Threads :
    /\ pc[t] \in {"del", "delStore", "erase", "free"} => ptr[t] \in Addrs
    /\ pc[t] \in {"addStore", "delStore"} => reg[t] = mem_
    /\ pc[t] \in {"del", "delStore", "erase"} => map_[ptr[t]] = len[t]

(* mem_ is changed before map_ is: add is ahead of the entries by what it  *)
(* adds, del behind by what it takes off.  An insert that finds an entry   *)
(* leaves mem_ ahead, which takes a realloc or a failing malloc.           *)
Balanced(listed, counted) == listed <= counted /\ (~missed => listed = counted)

Balance ==
  /\ (\A t \in Threads : pc[t] \notin {"insert", "erase"}) => Balanced(Recorded, mem_)
  /\ \A t \in Threads :
       /\ pc[t] = "insert" => Balanced(Recorded + len[t], mem_)
       /\ pc[t] = "erase" => Balanced(Recorded, mem_ + len[t])

(* mem_ is no more than what the calls have asked for, without those that  *)
(* have not stored it yet.                                                 *)
Adding == {t \in Threads : pc[t] \in {"add", "addStore"}}
Asked(m) ==
  /\ IsFiniteSet(Adding) /\ Cardinality(Adding) <= calls
  /\ mem_ <= (calls - Cardinality(Adding)) * m

LockInv(m) == HookInv /\ Entries /\ Calling /\ Balance /\ Asked(m)

(* The sizes are numbers, and so are their sums. *)
LEMMA HookFacts ==
  ASSUME TypeOK
  PROVE  /\ \A t \in Threads : len[t] \in Nat /\ reg[t] \in Nat
         /\ mem_ \in Nat /\ calls \in Nat /\ MaxCalls \in Nat /\ calls <= MaxCalls
         /\ Word \in Nat /\ mem_ < Word
         /\ \A a \in Addrs : live[a] \in Nat
         /\ \A a \in Addrs \cup {NULL} : map_[a] \in Nat
         /\ IsFiniteSet(Addrs) /\ IsFiniteSet(Addrs \cup {NULL})
         /\ Recorded \in Nat
<1>1. \A t \in Threads : len[t] \in Nat /\ reg[t] \in Nat
  <2> TAKE t \in Threads
  <2>1. len[t] \in Sizes \cup {None} /\ reg[t] \in 0 .. Word - 1
    BY DEF TypeOK
  <2> QED
    BY <2>1, SizesNat, BoundsAssumption
<1>2. mem_ \in Nat /\ calls \in Nat /\ calls <= MaxCalls /\ mem_ < Word
  BY BoundsAssumption DEF TypeOK
<1>3. /\ \A a \in Addrs : live[a] \in Nat
      /\ \A a \in Addrs \cup {NULL} : map_[a] \in Nat
  <2>1. /\ \A a \in Addrs : live[a] \in Sizes \cup {None}
        /\ \A a \in Addrs \cup {NULL} : map_[a] \in Sizes \cup {None}
    BY DEF TypeOK
  <2> QED
    BY <2>1, SizesNat
<1>4. IsFiniteSet(Addrs) /\ IsFiniteSet(Addrs \cup {NULL})
  BY AddrsAssumption, FS_AddElement
<1>5. Recorded \in Nat
  BY <1>3, <1>4, BytesFinite DEF Recorded
<1> QED
  BY <1>1, <1>2, <1>3, <1>4, <1>5, BoundsAssumption

(* A write of map_ at p changes the bytes recorded by what it changes.     *)
LEMMA RecordedUpdate ==
  ASSUME TypeOK, TypeOK', NEW p \in Addrs \cup {NULL},
         \A a \in (Addrs \cup {NULL}) \ {p} : map_'[a] = map_[a]
  PROVE  Recorded' \in Nat /\ Recorded' + map_[p] = Recorded + map_'[p]
<1> DEFINE D == Addrs \cup {NULL}
<1>1. IsFiniteSet(D) /\ (\A a \in D : map_[a] \in Nat)
  BY HookFacts
<1>2. map_'[p] \in Nat
  <2>1. map_'[p] \in Sizes \cup {None}
    BY DEF TypeOK
  <2> QED
    BY <2>1, SizesNat
<1>3. Bytes(map_', D) \in Nat /\ Bytes(map_', D) + map_[p] = Bytes(map_, D) + map_'[p]
  <2> HIDE DEF D
  <2>1. p \in D /\ \A a \in D \ {p} : map_'[a] = map_[a]
    BY DEF D
  <2> QED
    BY <1>1, <1>2, <2>1, BytesUpdate
<1> QED
  BY <1>3 DEF Recorded, Bytes

(* No entry is larger than all of them. *)
LEMMA EntryRecorded ==
  ASSUME TypeOK, NEW p \in Addrs \cup {NULL}
  PROVE  map_[p] <= Recorded
<1> DEFINE D == Addrs \cup {NULL}
<1>1. IsFiniteSet(D) /\ (\A a \in D : map_[a] \in Nat) /\ p \in D
  BY HookFacts
<1> HIDE DEF D
<1>2. Bytes(map_, D) = Bytes(map_, D \ {p}) + map_[p]
  BY <1>1, BytesSplit
<1>3. Bytes(map_, D \ {p}) \in Nat
  <2>1. IsFiniteSet(D \ {p}) /\ \A a \in D \ {p} : map_[a] \in Nat
    BY <1>1, FS_Subset
  <2> QED
    BY <2>1, BytesFinite
<1>4. Recorded = Bytes(map_, D) /\ map_[p] \in Nat
  BY <1>1 DEF Recorded, D
<1> QED
  BY <1>2, <1>3, <1>4

(* A step that leaves map_ alone leaves the bytes recorded. *)
LEMMA SameRecorded == UNCHANGED map_ => Recorded' = Recorded
BY DEF Recorded, Bytes

(* What up to MaxCalls calls ask for fits in a word. *)
LEMMA AskedFits ==
  ASSUME NEW m, Fits(m), NEW n \in Nat, n <= MaxCalls
  PROVE  n * m \in Nat /\ n * m < Word /\ (n + 1) * m = n * m + m
<1>1. m \in Nat /\ MaxCalls * m < Word /\ Word \in Nat /\ MaxCalls \in Nat
  BY BoundsAssumption DEF Fits
<1>2. \A c, d \in Nat : (c + d) * m = c * m + d * m /\ c * m \in Nat /\ d * m \in Nat
  BY <1>1
<1>3. PICK d \in Nat : MaxCalls = n + d
  BY <1>1
<1>4. MaxCalls * m = n * m + d * m /\ n * m \in Nat /\ d * m \in Nat
  BY <1>2, <1>3
<1>5. (n + 1) * m = n * m + 1 * m /\ 1 * m = m
  BY <1>1, <1>2
<1> QED
  BY <1>1, <1>4, <1>5

(* The calls of add under way are finitely many: numbers for Asked. *)
LEMMA AddingFacts ==
  ASSUME TypeOK, NEW m, Fits(m), Asked(m)
  PROVE  /\ Cardinality(Adding) \in Nat /\ calls - Cardinality(Adding) \in Nat
         /\ calls - Cardinality(Adding) <= MaxCalls
<1>1. Cardinality(Adding) \in Nat /\ Cardinality(Adding) <= calls
  BY FS_CardinalityType DEF Asked
<1>2. calls \in Nat /\ MaxCalls \in Nat /\ calls <= MaxCalls
  BY HookFacts
<1> QED
  BY <1>1, <1>2

(* What add stores is more by len: it does not reach Word, *)
LEMMA AddStores ==
  ASSUME NEW m, Fits(m), LockInv(m), NEW t \in Threads, AddStore(t)
  PROVE  /\ mem_' = mem_ + len[t]
         /\ Asked(m)'
<1> DEFINE n == calls - Cardinality(Adding)
<1>1. TypeOK /\ Asked(m) /\ pc[t] = "addStore" /\ reg[t] = mem_
  BY DEF LockInv, HookInv, Calling, AddStore
<1>2. /\ Cardinality(Adding) \in Nat /\ n \in Nat /\ calls \in Nat /\ MaxCalls \in Nat /\ calls <= MaxCalls
      /\ mem_ \in Nat /\ len[t] \in Nat /\ Word \in Nat
  BY <1>1, AddingFacts, HookFacts
<1>3. t \in Adding /\ Adding' = Adding \ {t}
  BY <1>1 DEF Adding, AddStore, Goto, TypeOK
<1>4. IsFiniteSet(Adding') /\ Cardinality(Adding') = Cardinality(Adding) - 1
  BY <1>1, <1>3, FS_RemoveElement DEF Asked
<1>5. n + 1 \in Nat /\ n + 1 <= MaxCalls /\ n <= MaxCalls
  <2>1. Cardinality(Adding') \in Nat
    BY <1>4, FS_CardinalityType
  <2> QED
    BY <1>2, <1>4, <2>1
<1>6. n * m \in Nat /\ (n + 1) * m = n * m + m /\ (n + 1) * m < Word /\ m \in Nat
  BY <1>2, <1>5, AskedFits DEF Fits
<1>7. len[t] <= m
  BY <1>1, <1>6 DEF TypeOK, Fits, None
<1>8. mem_ <= n * m
  BY <1>1 DEF Asked
<1>9. mem_' = (mem_ + len[t]) % Word
  BY <1>1 DEF AddStore
<1>10. mem_ + len[t] \in 0 .. Word - 1 /\ mem_ + len[t] <= (n + 1) * m
  <2> HIDE DEF n
  <2> QED
    BY <1>2, <1>6, <1>7, <1>8
<1>11. mem_' = mem_ + len[t]
  BY <1>2, <1>9, <1>10
<1>12. calls' = calls /\ calls' - Cardinality(Adding') = n + 1 /\ Cardinality(Adding') <= calls'
  BY <1>1, <1>2, <1>4 DEF AddStore, Asked
<1> QED
  BY <1>4, <1>10, <1>11, <1>12 DEF Asked

(* and what del takes off is there. *)
LEMMA DelStores ==
  ASSUME NEW m, Fits(m), LockInv(m), Locked, NEW t \in Threads, DelStore(t)
  PROVE  mem_' = mem_ - len[t] /\ len[t] <= mem_ /\ len[t] <= Recorded
<1>1. TypeOK /\ pc[t] = "delStore" /\ reg[t] = mem_ /\ ptr[t] \in Addrs /\ map_[ptr[t]] = len[t]
  BY DEF LockInv, HookInv, Calling, DelStore
<1>2. \A u \in Threads : pc[u] \notin {"insert", "erase"}
  BY <1>1 DEF Locked, InLock
<1>3. Recorded <= mem_
  BY <1>2 DEF LockInv, Balance, Balanced
<1>4. len[t] <= Recorded
  BY <1>1, EntryRecorded
<1>5. mem_ \in Nat /\ len[t] \in Nat /\ mem_ < Word /\ Word \in Nat /\ Recorded \in Nat
  BY <1>1, HookFacts
<1>6. mem_' = (mem_ - len[t]) % Word
  BY <1>1 DEF DelStore
<1>7. mem_ - len[t] \in 0 .. Word - 1
  BY <1>3, <1>4, <1>5
<1> QED
  BY <1>3, <1>4, <1>5, <1>6, <1>7

(* What a thread holds stays so: no other is in the lock to change it.     *)
LEMMA CallingStep ==
  ASSUME HookInv, Calling, Locked, [Next]_vars
  PROVE  Calling'
<1>0. TypeOK
  BY DEF HookInv
<1>1. CASE UNCHANGED vars
  BY <1>1 DEF vars, Calling
<1>2. ASSUME NEW t \in Threads, NEW p \in Addrs \cup {NULL}, NEW size \in Sizes, Malloc(t, p, size)
      PROVE  Calling'
  BY <1>0, <1>2 DEF Malloc, Goto, TypeOK, Calling
<1>3. ASSUME NEW t \in Threads, NEW p \in Addrs, Free(t, p)
      PROVE  Calling'
  BY <1>0, <1>3 DEF Free, Goto, TypeOK, Calling
<1>4. ASSUME NEW t \in Threads, NEW p \in Addrs, NEW q \in Addrs, NEW size \in Sizes,
             Realloc(t, p, q, size)
      PROVE  Calling'
  BY <1>4 DEF Realloc, Calling
<1>5. ASSUME NEW t \in Threads, AddLoad(t) \/ DelLoad(t) \/ LibcFree(t)
      PROVE  Calling'
  BY <1>0, <1>5 DEF AddLoad, DelLoad, LibcFree, Goto, TypeOK, Calling
<1>6. ASSUME NEW t \in Threads, AddStore(t) \/ DelStore(t) \/ AddInsert(t) \/ DelErase(t)
      PROVE  Calling'
  <2>1. \A u \in Threads \ {t} : ~InLock(u) /\ pc'[u] = pc[u]
    BY <1>0, <1>6 DEF Locked, InLock, AddStore, DelStore, AddInsert, DelErase, Goto, TypeOK
  <2>2. /\ UNCHANGED <<ptr, len, reg>>
        /\ \/ pc'[t] \in {"insert", "app"}
           \/ pc'[t] = "erase" /\ pc[t] = "delStore" /\ map_' = map_
           \/ pc'[t] = "free" /\ pc[t] = "erase"
    BY <1>0, <1>6 DEF AddStore, DelStore, AddInsert, DelErase, Goto, TypeOK
  <2> QED
    BY <2>1, <2>2 DEF Calling, InLock
<1> QED
  BY <1>1, <1>2, <1>3, <1>4, <1>5, <1>6 DEF Next, Step

(* mem_ and map_ stay in step where neither changes, *)
LEMMA BalanceKept ==
  ASSUME Balance, UNCHANGED <<map_, mem_>>, missed => missed',
         \A t \in Threads : \/ pc'[t] = pc[t] /\ (pc[t] # "app" => len'[t] = len[t])
                            \/ pc[t] \notin {"insert", "erase"} /\ pc'[t] \notin {"insert", "erase"}
  PROVE  Balance'
<1>1. Recorded' = Recorded
  BY SameRecorded
<1> QED
  BY <1>1 DEF Balance, Balanced

(* and where the thread that is in the lock changes one of them.           *)
LEMMA BalanceStep ==
  ASSUME NEW m, Fits(m), LockInv(m), Locked, TypeOK', [Next]_vars
  PROVE  Balance'
<1>0. /\ TypeOK /\ Balance /\ Calling /\ Entries
      /\ mem_ \in Nat /\ Recorded \in Nat /\ \A t \in Threads : len[t] \in Nat
  BY HookFacts DEF LockInv, HookInv
<1>1. CASE UNCHANGED vars
  BY <1>0, <1>1, BalanceKept DEF vars
<1>2. ASSUME NEW t \in Threads, NEW p \in Addrs \cup {NULL}, NEW size \in Sizes, Malloc(t, p, size)
      PROVE  Balance'
  BY <1>0, <1>2, BalanceKept DEF Malloc, Goto, TypeOK
<1>3. ASSUME NEW t \in Threads, NEW p \in Addrs, Free(t, p)
      PROVE  Balance'
  BY <1>0, <1>3, BalanceKept DEF Free, Goto, TypeOK
<1>4. ASSUME NEW t \in Threads, NEW p \in Addrs, NEW q \in Addrs, NEW size \in Sizes,
             Realloc(t, p, q, size)
      PROVE  Balance'
  BY <1>0, <1>4, BalanceKept DEF Realloc
<1>5. ASSUME NEW t \in Threads, AddLoad(t) \/ DelLoad(t) \/ LibcFree(t)
      PROVE  Balance'
  BY <1>0, <1>5, BalanceKept DEF AddLoad, DelLoad, LibcFree, Goto, TypeOK
<1>6. ASSUME NEW t \in Threads, AddStore(t)
      PROVE  Balance'
  <2>1. /\ pc[t] = "addStore" /\ pc'[t] = "insert" /\ UNCHANGED <<map_, len, missed>>
        /\ \A u \in Threads \ {t} : ~InLock(u) /\ pc'[u] = pc[u]
    BY <1>0, <1>6 DEF Locked, InLock, AddStore, Goto, TypeOK
  <2>2. Balanced(Recorded, mem_)
    BY <1>0, <2>1 DEF Balance, InLock
  <2>3. mem_' = mem_ + len[t] /\ Recorded' = Recorded
    BY <1>6, <2>1, AddStores, SameRecorded
  <2>4. Recorded' + len'[t] <= mem_' /\ (~missed' => Recorded' + len'[t] = mem_')
    BY <1>0, <2>1, <2>2, <2>3 DEF Balanced
  <2> QED
    BY <2>1, <2>4 DEF Balance, Balanced, InLock
<1>7. ASSUME NEW t \in Threads, DelStore(t)
      PROVE  Balance'
  <2>1. /\ pc[t] = "delStore" /\ pc'[t] = "erase" /\ UNCHANGED <<map_, len, missed>>
        /\ \A u \in Threads \ {t} : ~InLock(u) /\ pc'[u] = pc[u]
    BY <1>0, <1>7 DEF Locked, InLock, DelStore, Goto, TypeOK
  <2>2. Balanced(Recorded, mem_)
    BY <1>0, <2>1 DEF Balance, InLock
  <2>3. mem_' = mem_ - len[t] /\ Recorded' = Recorded
    BY <1>7, <2>1, DelStores, SameRecorded
  <2>4. mem_' + len'[t] = mem_
    BY <1>0, <2>1, <2>3
  <2> QED
    BY <2>1, <2>2, <2>3, <2>4 DEF Balance, Balanced, InLock
<1>8. ASSUME NEW t \in Threads, AddInsert(t)
      PROVE  Balance'
  <2>1. /\ pc[t] = "insert" /\ pc'[t] = "app" /\ UNCHANGED <<mem_, missed>> /\ ptr[t] \in Addrs \cup {NULL}
        /\ \A u \in Threads \ {t} : ~InLock(u) /\ pc'[u] = pc[u]
        /\ map_'[ptr[t]] = (IF map_[ptr[t]] = None THEN len[t] ELSE map_[ptr[t]])
        /\ \A a \in (Addrs \cup {NULL}) \ {ptr[t]} : map_'[a] = map_[a]
    BY <1>0, <1>8 DEF Locked, InLock, AddInsert, Goto, TypeOK
  <2>2. Balanced(Recorded + len[t], mem_)
    BY <1>0, <2>1 DEF Balance
  <2>3. Recorded' \in Nat /\ Recorded' + map_[ptr[t]] = Recorded + map_'[ptr[t]] /\ map_[ptr[t]] \in Nat
    BY <1>0, <2>1, RecordedUpdate, HookFacts
  <2>4. ~missed => map_[ptr[t]] = None
    BY <1>0, <2>1 DEF Entries, Apart
  <2>5. Recorded' <= mem_ /\ (~missed => Recorded' = mem_)
    <3>1. CASE map_[ptr[t]] = None
      BY <1>0, <2>1, <2>2, <2>3, <3>1 DEF Balanced, None
    <3>2. CASE map_[ptr[t]] # None
      BY <1>0, <2>1, <2>2, <2>3, <2>4, <3>2 DEF Balanced
    <3> QED
      BY <3>1, <3>2
  <2>6. \A u \in Threads : pc'[u] \notin {"insert", "erase"}
    BY <2>1 DEF InLock
  <2> QED
    BY <2>1, <2>5, <2>6 DEF Balance, Balanced
<1>9. ASSUME NEW t \in Threads, DelErase(t)
      PROVE  Balance'
  <2>1. /\ pc[t] = "erase" /\ pc'[t] = "free" /\ UNCHANGED <<mem_, missed>> /\ ptr[t] \in Addrs \cup {NULL}
        /\ \A u \in Threads \ {t} : ~InLock(u) /\ pc'[u] = pc[u]
        /\ map_'[ptr[t]] = None
        /\ \A a \in (Addrs \cup {NULL}) \ {ptr[t]} : map_'[a] = map_[a]
    BY <1>0, <1>9 DEF Locked, InLock, DelErase, Goto, TypeOK
  <2>2. Balanced(Recorded, mem_ + len[t]) /\ map_[ptr[t]] = len[t]
    BY <1>0, <2>1 DEF Balance, Calling
  <2>3. Recorded' \in Nat /\ Recorded' + map_[ptr[t]] = Recorded + map_'[ptr[t]]
    BY <1>0, <2>1, RecordedUpdate
  <2>4. Recorded' <= mem_ /\ (~missed => Recorded' = mem_)
    BY <1>0, <2>1, <2>2, <2>3 DEF Balanced, None
  <2>5. \A u \in Threads : pc'[u] \notin {"insert", "erase"}
    BY <2>1 DEF InLock
  <2> QED
    BY <2>1, <2>4, <2>5 DEF Balance, Balanced
<1> QED
  BY <1>1, <1>2, <1>3, <1>4, <1>5, <1>6, <1>7, <1>8, <1>9 DEF Next, Step

(* What the calls have asked for bounds mem_ throughout. *)
LEMMA AskedStep ==
  ASSUME NEW m, Fits(m), LockInv(m), Locked, [Next]_vars
  PROVE  Asked(m)'
<1> DEFINE n == calls - Cardinality(Adding)
<1>0. TypeOK /\ Asked(m)
  BY DEF LockInv, HookInv
<1>1. /\ Cardinality(Adding) \in Nat /\ n \in Nat /\ n <= MaxCalls /\ calls \in Nat
      /\ mem_ \in Nat /\ mem_ <= n * m /\ Cardinality(Adding) <= calls /\ IsFiniteSet(Adding)
  BY <1>0, AddingFacts, HookFacts DEF Asked
<1>2. n * m \in Nat /\ (n + 1) * m = n * m + m /\ m \in Nat
  BY <1>1, AskedFits DEF Fits
<1>3. ASSUME Adding' = Adding, calls' = calls, mem_' \in Nat, mem_' <= mem_
      PROVE  Asked(m)'
  <2>1. mem_' <= n * m
    <3> HIDE DEF n
    <3> QED
      BY <1>1, <1>2, <1>3
  <2> QED
    BY <1>1, <1>3, <2>1 DEF Asked
<1>4. CASE UNCHANGED vars
  BY <1>1, <1>3, <1>4 DEF vars, Adding
<1>5. ASSUME NEW t \in Threads, NEW p \in Addrs \cup {NULL}, NEW size \in Sizes, Malloc(t, p, size)
      PROVE  Asked(m)'
  <2>1. Adding' = Adding \cup {t} /\ t \notin Adding /\ calls' = calls + 1 /\ mem_' = mem_
    BY <1>0, <1>5 DEF Malloc, Goto, TypeOK, Adding
  <2>2. IsFiniteSet(Adding') /\ Cardinality(Adding') = Cardinality(Adding) + 1
    BY <1>1, <2>1, FS_AddElement
  <2>3. calls' - Cardinality(Adding') = n /\ Cardinality(Adding') <= calls'
    BY <1>1, <2>1, <2>2
  <2> QED
    BY <1>1, <2>1, <2>2, <2>3 DEF Asked
<1>6. ASSUME NEW t \in Threads, NEW p \in Addrs, NEW q \in Addrs, NEW size \in Sizes,
             Realloc(t, p, q, size)
      PROVE  Asked(m)'
  <2>1. Adding' = Adding /\ calls' = calls + 1 /\ mem_' = mem_
    BY <1>6 DEF Realloc, Adding
  <2>2. calls' - Cardinality(Adding') = n + 1 /\ Cardinality(Adding') <= calls'
    BY <1>1, <2>1
  <2>3. mem_' <= (n + 1) * m
    <3> HIDE DEF n
    <3> QED
      BY <1>1, <1>2, <2>1
  <2> QED
    BY <1>1, <2>1, <2>2, <2>3 DEF Asked
<1>7. ASSUME NEW t \in Threads, NEW p \in Addrs, Free(t, p)
      PROVE  Asked(m)'
  <2>1. Adding' = Adding /\ calls' = calls /\ mem_' = mem_
    BY <1>0, <1>7 DEF Free, Goto, TypeOK, Adding
  <2> QED
    BY <1>1, <1>3, <2>1
<1>8. ASSUME NEW t \in Threads, AddLoad(t) \/ AddInsert(t) \/ DelLoad(t) \/ DelErase(t) \/ LibcFree(t)
      PROVE  Asked(m)'
  <2>1. Adding' = Adding /\ calls' = calls /\ mem_' = mem_
    BY <1>0, <1>8 DEF AddLoad, AddInsert, DelLoad, DelErase, LibcFree, Goto, TypeOK, Adding
  <2> QED
    BY <1>1, <1>3, <2>1
<1>9. ASSUME NEW t \in Threads, DelStore(t)
      PROVE  Asked(m)'
  <2>1. Adding' = Adding /\ calls' = calls
    BY <1>0, <1>9 DEF DelStore, Goto, TypeOK, Adding
  <2>2. mem_' = mem_ - len[t] /\ len[t] <= mem_ /\ len[t] \in Nat
    BY <1>0, <1>9, DelStores, HookFacts
  <2> QED
    BY <1>1, <1>3, <2>1, <2>2
<1> QED
  BY <1>4, <1>5, <1>6, <1>7, <1>8, <1>9, AddStores DEF Next, Step

(* With any number of threads of which one at a time is in the lock, and   *)
(* sizes that do not add up to Word, mem_ is in step with map_.            *)
THEOREM LockInvariant ==
  ASSUME NEW m, Fits(m)
  PROVE  Spec /\ []Locked => []LockInv(m)
<1>1. ASSUME Init PROVE LockInv(m)
  <2>1. HookInv /\ Entries /\ Calling
    BY <1>1, HookStart DEF Init, Entries, Calling
  <2>2. Recorded = 0
    BY <1>1, BytesNone DEF Init, Recorded, None
  <2>3. Balance
    BY <1>1, <2>2 DEF Init, Balance, Balanced
  <2>4. Adding = {} /\ m \in Nat
    BY <1>1 DEF Init, Adding, Fits
  <2>5. IsFiniteSet(Adding) /\ Cardinality(Adding) = 0
    BY <2>4, FS_EmptySet
  <2>6. Asked(m)
    BY <1>1, <2>4, <2>5 DEF Init, Asked
  <2> QED
    BY <2>1, <2>3, <2>6 DEF LockInv
<1>2. ASSUME LockInv(m), Locked, [Next]_vars PROVE LockInv(m)'
  <2>1. HookInv' /\ TypeOK' /\ Entries'
    BY <1>2, HookStep, EntriesStep DEF LockInv, HookInv
  <2>2. Calling'
    BY <1>2, CallingStep DEF LockInv
  <2>3. Balance' /\ Asked(m)'
    BY <1>2, <2>1, BalanceStep, AskedStep
  <2> QED
    BY <2>1, <2>2, <2>3 DEF LockInv
<1> QED
  BY <1>1, <1>2, PTL DEF Spec

(* Then del never takes off more than mem_ holds, so that mem_ does not    *)
(* wrap around, whatever realloc and failing calls of malloc do.           *)
THEOREM NoUnderflowCorrect ==
  ASSUME NEW m, Fits(m)
  PROVE  Spec /\ []Locked => []NoUnderflow
<1>1. LockInv(m) => NoUnderflow
  <2> SUFFICES ASSUME LockInv(m), Quiescent PROVE mem_ >= Recorded
    BY DEF NoUnderflow, Recorded
  <2>1. Recorded <= mem_
    BY DEF LockInv, Balance, Balanced, Quiescent
  <2>2. Recorded \in Nat /\ mem_ \in Nat
    BY HookFacts DEF LockInv, HookInv
  <2> QED
    BY <2>1, <2>2
<1> QED
  BY <1>1, LockInvariant, PTL

(* And mem_ is the memory in use when no call is under way, until a        *)
(* realloc or a malloc that fails: that trace_lock locks a copy of the     *)
(* mutex is the only way to a wrong mem_.                                  *)
THEOREM MemIsLiveCorrect ==
  ASSUME NEW m, Fits(m)
  PROVE  Spec /\ []Locked => []MemIsLive
<1>1. LockInv(m) => MemIsLive
  <2> SUFFICES ASSUME LockInv(m), Quiescent, ~missed PROVE mem_ = Bytes(live, Addrs)
    BY DEF MemIsLive
  <2> DEFINE D == Addrs \cup {NULL}
  <2>1. mem_ = Recorded
    BY DEF LockInv, Balance, Balanced, Quiescent
  <2>2. map_[NULL] = None /\ \A a \in Addrs : map_[a] = live[a]
    BY DEF LockInv, Entries, Quiescent, Apart
  <2>3. IsFiniteSet(D) /\ (\A a \in D : map_[a] \in Nat) /\ NULL \in D
    BY HookFacts DEF LockInv, HookInv
  <2>4. D \ {NULL} = Addrs
    BY AddrsAssumption DEF NULL
  <2> HIDE DEF D
  <2>5. Bytes(map_, D) = Bytes(map_, D \ {NULL}) + map_[NULL]
    BY <2>3, BytesSplit
  <2>6. Bytes(map_, Addrs) = Bytes(live, Addrs)
    BY <2>2, BytesAgree
  <2>7. Bytes(map_, Addrs) \in Nat
    <3>1. IsFiniteSet(Addrs) /\ \A a \in Addrs : map_[a] \in Nat
      BY HookFacts DEF LockInv, HookInv
    <3> QED
      BY <3>1, BytesFinite
  <2>8. Recorded = Bytes(map_, D)
    BY DEF Recorded, D
  <2> QED
    BY <2>1, <2>2, <2>4, <2>5, <2>6, <2>7, <2>8 DEF None
<1> QED
  BY <1>1, LockInvariant, PTL

(* In a program of one thread one thread at a time is in the lock.         *)
LEMMA OneThread ==
  ASSUME \A t, u \in Threads : t = u
  PROVE  Spec => []Locked
<1>1. Locked
  BY DEF Locked
<1> QED
  BY <1>1, PTL

-----------------------------------------------------------------------------
(* The stores of init_map and what each thread knows of them. *)
StoresKnown ==
  /\ \A t \in Callers : at[t] \in {"storeMmap", "storeMunmap"} => inits[t] = 1
  /\ \A t \in Callers : inits[t] = 1 /\ at[t] # "storeMmap" => r_mmap
  /\ \A t \in Callers : at[t] = "call" => r_mmap
  /\ \A t \in Callers :
       inits[t] = 1 /\ at[t] \notin {"storeMmap", "storeMunmap"} => r_munmap

(* r_mmap is set alone only while some thread is between its two stores. *)
SetTogether == r_mmap /\ ~r_munmap => \E u \in Callers : at[u] = "storeMunmap"

FaultState == \A t \in fault : fn[t] = "munmap" /\ at[t] = "call" /\ ~r_munmap

ShimInv == ShimTypeOK /\ StoresKnown /\ SetTogether /\ FaultState

(* The invariant holds before the first call of mmap or munmap. *)
LEMMA ShimStart == ShimInit => ShimInv
<1> SUFFICES ASSUME ShimInit PROVE ShimInv
  OBVIOUS
<1>1. ShimTypeOK
  <2>1. r_mmap \in BOOLEAN /\ r_munmap \in BOOLEAN
    BY Zenon DEF ShimInit
  <2>2. /\ entered \in [Callers -> 0 .. MaxEntered] /\ inits \in [Callers -> 0 .. 1]
        /\ at \in [Callers -> {"app", "test", "storeMmap", "storeMunmap", "call"}]
        /\ fn \in [Callers -> Fns] /\ fault \subseteq Callers
    BY EnteredAssumption DEF ShimInit, Fns
  <2> QED
    BY <2>1, <2>2 DEF ShimTypeOK
<1>2. StoresKnown
  BY DEF ShimInit, StoresKnown
<1>3. SetTogether /\ FaultState
  BY DEF ShimInit, SetTogether, FaultState
<1> QED
  BY <1>1, <1>2, <1>3 DEF ShimInv

(* Every step of mmap, munmap and init_map preserves the invariant. *)
LEMMA ShimStep == ShimInv /\ [ShimNext]_shim => ShimInv'
<1> SUFFICES ASSUME ShimInv, [ShimNext]_shim
             PROVE  ShimInv'
  OBVIOUS
<1> USE EnteredAssumption
<1>1. CASE UNCHANGED shim
  BY <1>1 DEF ShimInv, ShimTypeOK, StoresKnown, SetTogether, FaultState, shim
<1>2. ASSUME fault = {}, NEW t \in Callers, NEW f \in Fns, Enter(t, f)
      PROVE  ShimInv'
  BY <1>2 DEF ShimInv, ShimTypeOK, StoresKnown, SetTogether, FaultState, Enter
<1>3. ASSUME fault = {}, NEW t \in Callers, TRACE_INIT(t)
      PROVE  ShimInv'
  <2>1. inits[t] = 0 \/ r_mmap
    BY <1>3 DEF ShimInv, ShimTypeOK, StoresKnown, TRACE_INIT
  <2>2. ShimTypeOK'
    BY <1>3, <2>1 DEF ShimInv, ShimTypeOK, TRACE_INIT
  <2>3. StoresKnown'
    BY <1>3, <2>1 DEF ShimInv, ShimTypeOK, StoresKnown, TRACE_INIT
  <2>4. SetTogether' /\ FaultState'
    BY <1>3 DEF ShimInv, ShimTypeOK, SetTogether, FaultState, TRACE_INIT
  <2> QED
    BY <2>2, <2>3, <2>4 DEF ShimInv
<1>4. ASSUME fault = {}, NEW t \in Callers, StoreMmap(t)
      PROVE  ShimInv'
  BY <1>4 DEF ShimInv, ShimTypeOK, StoresKnown, SetTogether, FaultState, StoreMmap
<1>5. ASSUME fault = {}, NEW t \in Callers, StoreMunmap(t)
      PROVE  ShimInv'
  BY <1>5 DEF ShimInv, ShimTypeOK, StoresKnown, SetTogether, FaultState, StoreMunmap
<1>6. ASSUME fault = {}, NEW t \in Callers, Forward(t)
      PROVE  ShimInv'
  BY <1>6 DEF ShimInv, ShimTypeOK, StoresKnown, SetTogether, FaultState, Forward, Fns
<1> QED
  BY <1>1, <1>2, <1>3, <1>4, <1>5, <1>6 DEF ShimNext

(* What the shim knows of its two pointers is invariant. *)
THEOREM ShimInvariant == ShimSpec => []ShimInv
BY ShimStart, ShimStep, PTL DEF ShimSpec

(* No thread runs init_map twice, and every variable keeps its type. *)
THEOREM ShimTypeCorrect == ShimSpec => []ShimTypeOK
<1>1. ShimInv => ShimTypeOK
  BY DEF ShimInv
<1> QED
  BY <1>1, ShimInvariant, PTL

(* For any number of threads, a call through NULL is a munmap that ran     *)
(* between the two stores of the first init_map: mmap never faults, and    *)
(* nothing does once one init_map has returned.                            *)
THEOREM NullCallCorrect == ShimSpec => []NullCallExplained
<1>1. ShimInv => NullCallExplained
  <2> SUFFICES ASSUME ShimInv, NEW t \in fault
               PROVE  /\ fn[t] = "munmap" /\ inits[t] = 0
                      /\ \E u \in Callers : at[u] = "storeMunmap"
                      /\ \A u \in Callers :
                           inits[u] = 1 => at[u] \in {"storeMmap", "storeMunmap"}
    BY DEF NullCallExplained
  <2>1. t \in Callers /\ fn[t] = "munmap" /\ at[t] = "call" /\ ~r_munmap /\ r_mmap
    BY DEF ShimInv, ShimTypeOK, FaultState, StoresKnown
  <2>2. inits[t] = 0
    BY <2>1 DEF ShimInv, ShimTypeOK, StoresKnown
  <2> QED
    BY <2>1, <2>2 DEF ShimInv, StoresKnown, SetTogether
<1> QED
  BY <1>1, ShimInvariant, PTL
=============================================================================

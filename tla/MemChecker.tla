----------------------------- MODULE MemChecker -----------------------------
(***************************************************************************)
(* libhook: malloc and free of src/hook.cpp, and mem_checker::add and del  *)
(* of src/mem_checker.cpp, which count the bytes in use in mem_ and keep   *)
(* the size of each block in map_.  calloc and realloc are not hooked.     *)
(*                                                                         *)
(* trace_lock takes the mutex by value, so every call locks a copy of its  *)
(* own and none ever waits: no lock is modelled.  The updates of mem_ are  *)
(* a load and a store.  Each use of map_ is one step, although two at once *)
(* may also damage the tree.                                               *)
(***************************************************************************)
EXTENDS Integers, FiniteSets

CONSTANTS
  Threads,
  Addrs,       \* addresses __libc_malloc may return
  Sizes,       \* sizes asked for
  Calls,       \* what else the program meets: "realloc", "fail"
  Word,        \* mem_ is counted modulo Word, for 2^64
  MaxCalls     \* bound: calls of malloc and realloc

ASSUME AddrsAssumption == IsFiniteSet(Addrs) /\ 0 \notin Addrs
ASSUME SizesAssumption == Sizes \subseteq Nat \ {0}
ASSUME CallsAssumption == Calls \subseteq {"realloc", "fail"}
ASSUME BoundsAssumption == Word \in Nat \ {0} /\ MaxCalls \in Nat

NULL == 0
None == 0      \* no entry in map_, no block at an address

VARIABLES
  live,        \* size of the block at each address, or None
  map_,        \* size recorded for each address, or None
  mem_,        \* bytes counted
  pc,          \* where each thread is
  ptr,         \* argument of the call of add or del
  len,         \* size that call adds or takes off
  reg,         \* mem_ as loaded
  in_mem,      \* thread-local flag of hook.cpp
  calls,       \* calls so far
  missed       \* ghost: a realloc, or a malloc that failed, has happened

vars == <<live, map_, mem_, pc, ptr, len, reg, in_mem, calls, missed>>

TypeOK ==
  /\ live \in [Addrs -> Sizes \cup {None}]
  /\ map_ \in [Addrs \cup {NULL} -> Sizes \cup {None}]
  /\ mem_ \in 0 .. Word - 1
  /\ pc \in [Threads -> {"app", "add", "addStore", "insert", "del", "delStore", "erase", "free"}]
  /\ ptr \in [Threads -> Addrs \cup {NULL}]
  /\ len \in [Threads -> Sizes \cup {None}]
  /\ reg \in [Threads -> 0 .. Word - 1]
  /\ in_mem \in [Threads -> BOOLEAN]
  /\ calls \in 0 .. MaxCalls
  /\ missed \in BOOLEAN

Init ==
  /\ live = [a \in Addrs |-> None]
  /\ map_ = [a \in Addrs \cup {NULL} |-> None]
  /\ mem_ = 0
  /\ pc = [t \in Threads |-> "app"]
  /\ ptr = [t \in Threads |-> NULL]
  /\ len = [t \in Threads |-> None]
  /\ reg = [t \in Threads |-> 0]
  /\ in_mem = [t \in Threads |-> FALSE]
  /\ calls = 0 /\ missed = FALSE

Goto(t, l) == pc' = [pc EXCEPT ![t] = l]

-----------------------------------------------------------------------------
(* malloc and trace_malloc: __libc_malloc returns p, a free address or,    *)
(* if it fails, NULL; either is passed to add.                             *)
Malloc(t, p, size) ==
  /\ pc[t] = "app" /\ calls < MaxCalls
  /\ \/ p \in Addrs /\ live[p] = None /\ live' = [live EXCEPT ![p] = size]
     \/ p = NULL /\ "fail" \in Calls /\ UNCHANGED live
  /\ in_mem' = [in_mem EXCEPT ![t] = TRUE]
  /\ ptr' = [ptr EXCEPT ![t] = p]
  /\ len' = [len EXCEPT ![t] = size]
  /\ Goto(t, "add")
  /\ calls' = calls + 1
  /\ missed' = (missed \/ p = NULL)
  /\ UNCHANGED <<map_, mem_, reg>>

(* add: mem_ += len. *)
AddLoad(t) ==
  /\ pc[t] = "add"
  /\ reg' = [reg EXCEPT ![t] = mem_]
  /\ Goto(t, "addStore")
  /\ UNCHANGED <<live, map_, mem_, ptr, len, in_mem, calls, missed>>

AddStore(t) ==
  /\ pc[t] = "addStore"
  /\ mem_' = (reg[t] + len[t]) % Word
  /\ Goto(t, "insert")
  /\ UNCHANGED <<live, map_, ptr, len, reg, in_mem, calls, missed>>

AddAccumulate(t) ==                \* mutant: map_[p] += len
  /\ pc[t] = "insert"
  /\ map_' = [map_ EXCEPT ![ptr[t]] = @ + len[t]]
  /\ in_mem' = [in_mem EXCEPT ![t] = FALSE]
  /\ Goto(t, "app")
  /\ UNCHANGED <<live, mem_, ptr, len, reg, calls, missed>>

(* add: map_.insert keeps an entry that is there; the backtrace.  Both     *)
(* allocate, and in_mem has these calls of malloc and free go straight to  *)
(* the C library; then malloc returns.                                     *)
AddInsert(t) ==
  /\ pc[t] = "insert"
  /\ map_' = [map_ EXCEPT ![ptr[t]] = IF @ = None THEN len[t] ELSE @]
  /\ in_mem' = [in_mem EXCEPT ![t] = FALSE]
  /\ Goto(t, "app")
  /\ UNCHANGED <<live, mem_, ptr, len, reg, calls, missed>>

-----------------------------------------------------------------------------
(* free calls del, which looks the block up. *)
Free(t, p) ==
  /\ pc[t] = "app" /\ ~in_mem[t]
  /\ p \in Addrs /\ live[p] # None
  /\ \A u \in Threads : pc[u] # "app" => ptr[u] # p     \* the program owns p
  /\ ptr' = [ptr EXCEPT ![t] = p]
  /\ len' = [len EXCEPT ![t] = map_[p]]
  /\ Goto(t, IF map_[p] = None THEN "free" ELSE "del")
  /\ UNCHANGED <<live, map_, mem_, reg, in_mem, calls, missed>>

(* del: mem_ -= it->second. *)
DelLoad(t) ==
  /\ pc[t] = "del"
  /\ reg' = [reg EXCEPT ![t] = mem_]
  /\ Goto(t, "delStore")
  /\ UNCHANGED <<live, map_, mem_, ptr, len, in_mem, calls, missed>>

DelStore(t) ==
  /\ pc[t] = "delStore"
  /\ mem_' = (reg[t] - len[t]) % Word
  /\ Goto(t, "erase")
  /\ UNCHANGED <<live, map_, ptr, len, reg, in_mem, calls, missed>>

DelKeep(t) ==                      \* mutant: the entry is not erased
  /\ pc[t] = "erase"
  /\ Goto(t, "free")
  /\ UNCHANGED <<live, map_, mem_, ptr, len, reg, in_mem, calls, missed>>

(* del: map_.erase, which frees the node by a nested free and del; a node  *)
(* is taken to be at an address that has no entry.                         *)
DelErase(t) ==
  /\ pc[t] = "erase"
  /\ map_' = [map_ EXCEPT ![ptr[t]] = None]
  /\ Goto(t, "free")
  /\ UNCHANGED <<live, mem_, ptr, len, reg, in_mem, calls, missed>>

(* free: __libc_free. *)
LibcFree(t) ==
  /\ pc[t] = "free"
  /\ live' = [live EXCEPT ![ptr[t]] = None]
  /\ Goto(t, "app")
  /\ UNCHANGED <<map_, mem_, ptr, len, reg, in_mem, calls, missed>>

(* realloc is the C library's own: it may move the block from p to q, and  *)
(* neither add nor del is called.                                          *)
Realloc(t, p, q, size) ==
  /\ "realloc" \in Calls /\ calls < MaxCalls
  /\ pc[t] = "app" /\ live[p] # None
  /\ \A u \in Threads : pc[u] # "app" => ptr[u] # p
  /\ q = p \/ live[q] = None
  /\ live' = [live EXCEPT ![p] = None, ![q] = size]
  /\ calls' = calls + 1
  /\ missed' = TRUE
  /\ UNCHANGED <<map_, mem_, pc, ptr, len, reg, in_mem>>

Step(t) ==
  \/ AddLoad(t) \/ AddStore(t) \/ AddInsert(t)
  \/ DelLoad(t) \/ DelStore(t) \/ DelErase(t) \/ LibcFree(t)

Next ==
  \E t \in Threads :
    \/ \E p \in Addrs \cup {NULL}, size \in Sizes : Malloc(t, p, size)
    \/ \E p \in Addrs : Free(t, p)
    \/ \E p, q \in Addrs, size \in Sizes : Realloc(t, p, q, size)
    \/ Step(t)

Spec == Init /\ [][Next]_vars

-----------------------------------------------------------------------------
Quiescent == \A t \in Threads : pc[t] = "app"

(* The sizes f gives the addresses in S, added up: their bytes, counted. *)
Bytes(f, S) == Cardinality(UNION {{a} \X (1 .. f[a]) : a \in S})

(* Between calls map_ has an entry for every block in use, of its size,    *)
(* and no other, until a realloc or a failing malloc: an address that was  *)
(* freed and is used again has the new block's size.                       *)
EntriesAreLive ==
  Quiescent /\ ~missed => map_[NULL] = None /\ \A a \in Addrs : map_[a] = live[a]

(* mem_ covers every entry of map_: del never takes off more than there    *)
(* is, so that the unsigned mem_ does not wrap around, whatever realloc    *)
(* and a failing malloc do to the entries.                                 *)
NoUnderflow == Quiescent => mem_ >= Bytes(map_, Addrs \cup {NULL})

(* plan.md: libhook shows "the memory actually in use": when no call is    *)
(* under way mem_ is the size of all blocks in use, as long as malloc and  *)
(* free are the only calls and none has failed.                            *)
MemIsLive == Quiescent /\ ~missed => mem_ = Bytes(live, Addrs)
=============================================================================

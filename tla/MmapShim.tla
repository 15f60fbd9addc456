------------------------------ MODULE MmapShim ------------------------------
(***************************************************************************)
(* libmm: mmap and munmap of src/mm.cpp, which look up the next functions  *)
(* of these names on first use.  init_map stores r_mmap and then r_munmap, *)
(* without a lock, and TRACE_INIT looks at r_mmap only.  dlsym, external,  *)
(* finds both.                                                             *)
(***************************************************************************)
EXTENDS Naturals

CONSTANTS
  Callers,     \* threads
  MaxEntered   \* bound: calls by each thread

ASSUME EnteredAssumption == MaxEntered \in Nat

VARIABLES
  r_mmap, r_munmap,   \* the pointer is set
  at,                 \* where each thread is
  fn,                 \* the function it is in, or was in last
  entered,            \* its calls
  inits,              \* its calls of init_map
  fault               \* the thread that called through NULL, if any

shim == <<r_mmap, r_munmap, at, fn, entered, inits, fault>>

Fns == {"mmap", "munmap"}

ShimTypeOK ==
  /\ r_mmap \in BOOLEAN /\ r_munmap \in BOOLEAN
  /\ at \in [Callers -> {"app", "test", "storeMmap", "storeMunmap", "call"}]
  /\ fn \in [Callers -> Fns]
  /\ entered \in [Callers -> 0 .. MaxEntered] /\ inits \in [Callers -> 0 .. 1]
  /\ fault \subseteq Callers

ShimInit ==
  /\ r_mmap = FALSE /\ r_munmap = FALSE
  /\ at = [t \in Callers |-> "app"]
  /\ fn = [t \in Callers |-> "mmap"]
  /\ entered = [t \in Callers |-> 0] /\ inits = [t \in Callers |-> 0]
  /\ fault = {}

-----------------------------------------------------------------------------
EnterUntested(t, f) ==             \* mutant: munmap has no TRACE_INIT
  /\ at[t] = "app" /\ entered[t] < MaxEntered
  /\ at' = [at EXCEPT ![t] = IF f = "mmap" THEN "test" ELSE "call"]
  /\ fn' = [fn EXCEPT ![t] = f]
  /\ entered' = [entered EXCEPT ![t] = @ + 1]
  /\ UNCHANGED <<r_mmap, r_munmap, inits, fault>>

(* The program calls mmap or munmap. *)
Enter(t, f) ==
  /\ at[t] = "app" /\ entered[t] < MaxEntered
  /\ at' = [at EXCEPT ![t] = "test"]
  /\ fn' = [fn EXCEPT ![t] = f]
  /\ entered' = [entered EXCEPT ![t] = @ + 1]
  /\ UNCHANGED <<r_mmap, r_munmap, inits, fault>>

TRACE_INIT(t) ==
  /\ at[t] = "test"
  /\ at' = [at EXCEPT ![t] = IF r_mmap THEN "call" ELSE "storeMmap"]
  /\ inits' = [inits EXCEPT ![t] = IF r_mmap THEN @ ELSE @ + 1]
  /\ UNCHANGED <<r_mmap, r_munmap, fn, entered, fault>>

StoreMmapElsewhere(t) ==           \* mutant: the pointer is stored in a local
  /\ at[t] = "storeMmap"
  /\ at' = [at EXCEPT ![t] = "storeMunmap"]
  /\ UNCHANGED <<r_mmap, r_munmap, fn, entered, inits, fault>>

(* init_map: the first assignment, *)
StoreMmap(t) ==
  /\ at[t] = "storeMmap"
  /\ r_mmap' = TRUE
  /\ at' = [at EXCEPT ![t] = "storeMunmap"]
  /\ UNCHANGED <<r_munmap, fn, entered, inits, fault>>

(* and the second. *)
StoreMunmap(t) ==
  /\ at[t] = "storeMunmap"
  /\ r_munmap' = TRUE
  /\ at' = [at EXCEPT ![t] = "call"]
  /\ UNCHANGED <<r_mmap, fn, entered, inits, fault>>

(* The call through the pointer. *)
Forward(t) ==
  /\ at[t] = "call"
  /\ IF (fn[t] = "mmap" /\ r_mmap) \/ (fn[t] = "munmap" /\ r_munmap)
     THEN at' = [at EXCEPT ![t] = "app"] /\ UNCHANGED fault
     ELSE fault' = {t} /\ UNCHANGED at
  /\ UNCHANGED <<r_mmap, r_munmap, fn, entered, inits>>

ShimNext ==
  /\ fault = {}
  /\ \E t \in Callers :
       \/ \E f \in Fns : Enter(t, f)
       \/ TRACE_INIT(t) \/ StoreMmap(t) \/ StoreMunmap(t) \/ Forward(t)

ShimSpec == ShimInit /\ [][ShimNext]_shim

-----------------------------------------------------------------------------
(* A call through a NULL pointer is always one of munmap, by a thread that *)
(* passed TRACE_INIT because another had stored r_mmap, with every thread  *)
(* that has called init_map still between its two stores or before the     *)
(* first: mmap never faults, nor does anything after the first init_map    *)
(* has returned.                                                           *)
NullCallExplained ==
  \A t \in fault :
    /\ fn[t] = "munmap" /\ inits[t] = 0
    /\ \E u \in Callers : at[u] = "storeMunmap"
    /\ \A u \in Callers : inits[u] = 1 => at[u] \in {"storeMmap", "storeMunmap"}
=============================================================================

---------------------------- MODULE LegacyAgent ----------------------------
(***************************************************************************)
(* The earlier agent, src/__trace_agent.h: gc_start tells worker of a      *)
(* collection through gc_count, guarded by the raw monitor lock, where the *)
(* present agent uses a zqueue.                                            *)
(*                                                                         *)
(* gc_start's critical section is one step: it only touches what lock      *)
(* guards.  worker's is two, for it calls GetAllStackTraces with lock held.*)
(* reg_event creates lock before any event can come, so entering it does   *)
(* not fail.  External: the JVM.  The VM thread runs collections, gc_start *)
(* included, and GetAllStackTraces, one at a time.                         *)
(***************************************************************************)
EXTENDS Integers

CONSTANT MaxGc     \* bound: collections

ASSUME MaxGcAssumption == MaxGc \in Nat

VARIABLES
  phase,       \* "start"; "loaded"; "live" after vm_init; "err"
  lock,        \* worker holds the raw monitor between two steps
  gc_count,
  worker,      \* where worker is; "waiting" is in RawMonitorWait
  vmThread,    \* "idle", "enter" (in gc_start, before lock), "gc"
  gcs,         \* collections started
  traced,      \* stack traces worker has taken
  terminated   \* std::terminate: an exception left worker or vm_init

legacyVars == <<phase, lock, gc_count, worker, vmThread, gcs, traced, terminated>>

LegacyTypeOK ==
  /\ phase \in {"start", "loaded", "live", "err"}
  /\ lock = (worker = "trace")
  /\ gc_count \in 0 .. MaxGc
  /\ worker \in {"off", "enter", "waiting", "woken", "trace", "exit"}
  /\ vmThread \in {"idle", "enter", "gc"}
  /\ gcs \in 0 .. MaxGc /\ traced \in 0 .. gcs
  /\ terminated \in BOOLEAN

LegacyInit ==
  /\ phase = "start" /\ lock = FALSE /\ gc_count = 0
  /\ worker = "off" /\ vmThread = "idle"
  /\ gcs = 0 /\ traced = 0 /\ terminated = FALSE

-----------------------------------------------------------------------------
(* init, add_cap and reg_event, each call of which may fail. *)
Load ==
  /\ phase = "start"
  /\ phase' \in {"loaded", "err"}
  /\ UNCHANGED <<lock, gc_count, worker, vmThread, gcs, traced, terminated>>

(* RunAgentThread on the thread alloc_thread makes, if it can make one. *)
Started == {"off", "enter"}

VmInit ==
  /\ phase = "loaded"
  /\ phase' = "live"
  /\ worker' \in Started
  /\ terminated' = (worker' = "off")
  /\ UNCHANGED <<lock, gc_count, vmThread, gcs, traced>>

(* A collection begins: the VM thread is in gc_start. *)
GcBegin ==
  /\ phase \in {"loaded", "live"} /\ vmThread = "idle" /\ gcs < MaxGc
  /\ vmThread' = "enter"
  /\ gcs' = gcs + 1
  /\ UNCHANGED <<phase, lock, gc_count, worker, traced, terminated>>

GcStartQuietly ==                       \* mutant: no RawMonitorNotify
  /\ vmThread = "enter" /\ ~lock
  /\ gc_count' = gc_count + 1
  /\ vmThread' = "gc"
  /\ UNCHANGED <<phase, lock, worker, gcs, traced, terminated>>

(* gc_start: enter, gc_count++, notify, exit. *)
GcStart ==
  /\ vmThread = "enter" /\ ~lock
  /\ gc_count' = gc_count + 1
  /\ worker' = IF worker = "waiting" THEN "woken" ELSE worker
  /\ vmThread' = "gc"
  /\ UNCHANGED <<phase, lock, gcs, traced, terminated>>

(* gc_finish only prints. *)
GcFinish ==
  /\ vmThread = "gc"
  /\ vmThread' = "idle"
  /\ UNCHANGED <<phase, lock, gc_count, worker, gcs, traced, terminated>>

-----------------------------------------------------------------------------
WorkerEnterOnce ==                      \* mutant: if (gc_count == 0), not while
  /\ worker \in {"enter", "woken"} /\ ~lock
  /\ IF worker = "enter" /\ gc_count = 0
       THEN worker' = "waiting" /\ UNCHANGED <<lock, gc_count>>
       ELSE worker' = "trace" /\ lock' = TRUE /\ gc_count' = 0
  /\ UNCHANGED <<phase, vmThread, gcs, traced, terminated>>

(* worker has lock: while gc_count is 0 it waits, then clears gc_count. *)
WorkerEnter ==
  /\ worker \in {"enter", "woken"} /\ ~lock
  /\ \/ gc_count = 0 /\ worker' = "waiting" /\ UNCHANGED <<lock, gc_count>>
     \/ gc_count > 0 /\ worker' = "trace" /\ lock' = TRUE /\ gc_count' = 0
  /\ UNCHANGED <<phase, vmThread, gcs, traced, terminated>>

(* RawMonitorWait may wake for no reason. *)
WaitSpurious ==
  /\ worker = "waiting"
  /\ worker' = "woken"
  /\ UNCHANGED <<phase, lock, gc_count, vmThread, gcs, traced, terminated>>

(* RawMonitorWait fails, the thread having been interrupted: worker exits  *)
(* lock and ends.                                                          *)
WaitFails ==
  /\ worker = "waiting" /\ ~lock
  /\ worker' = "exit"
  /\ UNCHANGED <<phase, lock, gc_count, vmThread, gcs, traced, terminated>>

(* stack_trace returns once GetAllStackTraces does; worker exits lock. *)
WorkerTrace ==
  /\ worker = "trace" /\ vmThread = "idle"
  /\ worker' = "enter" /\ lock' = FALSE
  /\ traced' = traced + 1
  /\ UNCHANGED <<phase, gc_count, vmThread, gcs, terminated>>

(* stack_trace: CHECK_ERR throws while printing. *)
TraceThrows ==
  /\ worker = "trace" /\ vmThread = "idle"
  /\ terminated' = TRUE
  /\ UNCHANGED <<phase, lock, gc_count, worker, vmThread, gcs, traced>>

WorkerStep == WorkerEnter \/ WorkerTrace \/ TraceThrows

LegacyNext ==
  /\ ~terminated
  /\ \/ Load \/ VmInit \/ GcBegin \/ GcStart \/ GcFinish
     \/ WorkerStep \/ WaitSpurious \/ WaitFails

LegacySpec == LegacyInit /\ [][LegacyNext]_legacyVars

(* The JVM comes to VMInit, goes through its collections, and worker runs. *)
LegacyLiveSpec ==
  /\ LegacySpec
  /\ WF_legacyVars(~terminated /\ VmInit)
  /\ WF_legacyVars(~terminated /\ (GcStart \/ GcFinish))
  /\ WF_legacyVars(~terminated /\ WorkerStep)

-----------------------------------------------------------------------------
(* worker waits for lock's holder and the VM thread waits for lock. *)
Deadlocked == worker = "trace" /\ vmThread = "enter"

(* Each collection counted is looked at by worker, unless worker has been  *)
(* interrupted, the process has aborted, or the two threads wait for each  *)
(* other.                                                                  *)
CountIsCleared ==
  gc_count > 0 ~> (gc_count = 0 \/ worker = "exit" \/ Deadlocked \/ terminated)
=============================================================================

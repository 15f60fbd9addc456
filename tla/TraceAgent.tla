----------------------------- MODULE TraceAgent -----------------------------
(***************************************************************************)
(* The JVMTI agent: its loading (Agent_OnLoad of src/main.cpp and class    *)
(* trace_agent), vm_init, the GC events, worker, safepoint_worker and      *)
(* safepoint_notify of src/trace_agent.h, mem_fuller of src/trace_util.h,  *)
(* and Agent_OnUnload.                                                     *)
(*                                                                         *)
(* The three zqueues (_queue, mem_fuller::queue_, qq) carry values nobody  *)
(* reads, so a queue is the number of its elements; what try_pop does with *)
(* them is what module ZQueue shows it does, the false return with an      *)
(* element in the queue included.                                          *)
(*                                                                         *)
(* External: the JVM.  GetAllStackTraces and a collection both need a      *)
(* safepoint, run by the VM thread one at a time.  A Java thread that      *)
(* blocks in pending() inside the VM (Unsafe) keeps the JVM from reaching  *)
(* a safepoint; one that blocks in native code does not.                   *)
(***************************************************************************)
EXTENDS Integers, FiniteSets

CONSTANTS
  App,         \* threads that call mem_fuller::pending
  Unsafe,      \* those that do so where the JVM cannot reach a safepoint
  MaxGc,       \* bound: collections
  MaxPending   \* bound: calls of pending() by each thread

ASSUME ThreadsAssumption == IsFiniteSet(App) /\ Unsafe \subseteq App
ASSUME BoundsAssumption == MaxGc \in Nat /\ MaxPending \in Nat

VARIABLES
  gcQueue,     \* elements of _queue
  fullQueue,   \* elements of queue_ of each mem_fuller
  qq,          \* elements of safepoint_worker's local queue
  worker,      \* where worker is
  spWorker,    \* where safepoint_worker is
  notifier,    \* where safepoint_notify is
  app,         \* where each App thread is in pending()
  locked,      \* c_mutex_ is locked between two steps
  inGc,        \* a collection is running
  gcs,         \* collections started
  traced,      \* stack traces worker has taken
  pendings,    \* calls of pending() by each thread
  self_,       \* mem_fuller::self_: the object, by the thread that created it
  on,          \* the object each App thread's pending() is called on
  spOn,        \* the object whose queue_ safepoint_worker's try_pop waits on
  notifyOn,    \* the object whose notify safepoint_notify is about to call
  stop_,       \* agent_lock::stop_
  phase,       \* "start"; "loaded"; "live" after vm_init; "err" if loading failed
  terminated   \* std::terminate: an exception left safepoint_worker or vm_init

vars == <<gcQueue, fullQueue, qq, worker, spWorker, notifier, app, locked,
          inGc, gcs, traced, pendings, self_, on, spOn, notifyOn, stop_, phase,
          terminated>>

queues == <<gcQueue, fullQueue, qq>>
agents == <<worker, spWorker, notifier>>
counts == <<gcs, traced, pendings>>
objects == <<self_, on, spOn, notifyOn>>

Sp == "safepoint_worker"
Creators == App \cup {Sp}
NULL == "NULL"

ASSUME NamesAssumption == Sp \notin App /\ NULL \notin App

TypeOK ==
  /\ gcQueue \in 0 .. MaxGc
  /\ fullQueue \in [Creators -> 0 .. MaxPending * Cardinality(App)]
  /\ qq \in 0 .. 1
  /\ worker \in {"off", "pop", "wait", "check", "trace", "exit"}
  /\ spWorker \in {"off", "pop", "create", "wait", "check", "spawn", "trace", "print", "join",
                   "exit"}
  /\ notifier \in {"off", "notify", "signal", "pop", "wait", "exit"}
  /\ app \in [App -> {"run", "create", "reread", "pushed", "waiting", "woken"}]
  /\ locked \in BOOLEAN /\ inGc \in BOOLEAN
  /\ gcs \in 0 .. MaxGc /\ traced \in 0 .. MaxGc
  /\ pendings \in [App -> 0 .. MaxPending]
  /\ self_ \in Creators \cup {NULL} /\ spOn \in Creators \cup {NULL}
  /\ on \in [App -> Creators \cup {NULL}] /\ notifyOn \in Creators \cup {NULL}
  /\ phase \in {"start", "loaded", "live", "err"}
  /\ stop_ \in BOOLEAN /\ terminated \in BOOLEAN

Init ==
  /\ gcQueue = 0 /\ fullQueue = [o \in Creators |-> 0] /\ qq = 0
  /\ self_ = NULL /\ spOn = NULL /\ notifyOn = NULL /\ on = [a \in App |-> NULL]
  /\ worker = "off" /\ spWorker = "off" /\ notifier = "off"
  /\ app = [a \in App |-> "run"]
  /\ locked = FALSE /\ inGc = FALSE
  /\ gcs = 0 /\ traced = 0 /\ pendings = [a \in App |-> 0]
  /\ stop_ = FALSE /\ phase = "start" /\ terminated = FALSE

(* try_pop by the one consumer of a queue q that is at position pc: take   *)
(* an element, or start to wait, or give up (with or without an element).  *)
TryPop(q, pc, taken, falsely) ==
  \/ pc \in {"pop", "wait"} /\ q > 0 /\ taken
  \/ pc = "wait" /\ falsely

StartWait(q, pc) == pc = "pop" /\ q = 0

-----------------------------------------------------------------------------
(* reg_event enables the events at the end of loading. *)
EventsOn == phase \in {"loaded", "live"}

(* init and add_cap, and reg_event after them: one of their JVMTI calls    *)
(* fails, and throws, or all succeed.                                      *)
Configured == {"loaded", "err"}

(* Agent_OnLoad catches the exception; the JVM, given JNI_ERR, does not    *)
(* start.                                                                  *)
Load ==
  /\ phase = "start"
  /\ phase' \in Configured
  /\ UNCHANGED <<queues, agents, app, locked, inGc, counts, stop_, terminated, objects>>

VmInitOneThread ==                      \* mutant: only worker is started
  /\ phase = "loaded"
  /\ phase' = "live"
  /\ worker' = "pop"
  /\ UNCHANGED <<queues, spWorker, notifier, app, locked, inGc, counts, stop_, terminated, objects>>

(* RunAgentThread on the thread alloc_thread makes, if it can make one. *)
Started == {"off", "pop"}

(* vm_init: worker is started, then safepoint_worker; if one fails the     *)
(* exception leaves the callback.                                          *)
VmInit ==
  /\ phase = "loaded"
  /\ phase' = "live"
  /\ worker' \in Started
  /\ spWorker' \in (IF worker' = "pop" THEN Started ELSE {"off"})
  /\ terminated' = (spWorker' = "off")
  /\ UNCHANGED <<queues, notifier, app, locked, inGc, counts, stop_, objects>>

(* The JVM: the VM thread can bring all threads to a safepoint. *)
AtSafepoint == ~inGc /\ \A a \in Unsafe : app[a] = "run"

(* gc_start: the VM thread pushes and returns. *)
GcStart ==
  /\ EventsOn /\ AtSafepoint /\ gcs < MaxGc
  /\ inGc' = TRUE
  /\ gcs' = gcs + 1
  /\ gcQueue' = gcQueue + 1
  /\ UNCHANGED <<fullQueue, qq, agents, app, locked, traced, pendings, stop_, phase, terminated, objects>>

(* gc_finish only prints. *)
GcFinish ==
  /\ inGc
  /\ inGc' = FALSE
  /\ UNCHANGED <<queues, agents, app, locked, counts, stop_, phase, terminated, objects>>

(* Agent_OnUnload *)
Unload ==
  /\ EventsOn /\ ~stop_
  /\ stop_' = TRUE
  /\ UNCHANGED <<queues, agents, app, locked, inGc, counts, phase, terminated, objects>>

-----------------------------------------------------------------------------
WorkerPopKeeps ==                       \* mutant: front() without pop()
  /\ \/ StartWait(gcQueue, worker) /\ worker' = "wait" /\ UNCHANGED gcQueue
     \/ TryPop(gcQueue, worker,
               worker' = "trace" /\ UNCHANGED gcQueue,
               worker' = "check" /\ UNCHANGED gcQueue)
  /\ UNCHANGED <<fullQueue, qq, spWorker, notifier, app, locked, inGc, counts, stop_, phase, terminated, objects>>

(* worker: try_pop on _queue. *)
WorkerPop ==
  /\ \/ StartWait(gcQueue, worker) /\ worker' = "wait" /\ UNCHANGED gcQueue
     \/ TryPop(gcQueue, worker,
               worker' = "trace" /\ gcQueue' = gcQueue - 1,
               worker' = "check" /\ UNCHANGED gcQueue)
  /\ UNCHANGED <<fullQueue, qq, spWorker, notifier, app, locked, inGc, counts, stop_, phase, terminated, objects>>

WorkerGivesUp ==                        \* mutant: break without looking at stop_
  /\ worker = "check"
  /\ worker' = "exit"
  /\ UNCHANGED <<queues, spWorker, notifier, app, locked, inGc, counts, stop_, phase, terminated, objects>>

WorkerNeverChecks ==                    \* mutant: continue without looking at stop_
  /\ worker = "check"
  /\ worker' = "pop"
  /\ UNCHANGED <<queues, spWorker, notifier, app, locked, inGc, counts, stop_, phase, terminated, objects>>

(* worker: try_pop returned false; look at stop_ under mu_. *)
WorkerCheck ==
  /\ worker = "check"
  /\ worker' = IF stop_ THEN "exit" ELSE "pop"
  /\ UNCHANGED <<queues, spWorker, notifier, app, locked, inGc, counts, stop_, phase, terminated, objects>>

(* worker: stack_trace(false) returns once GetAllStackTraces does. *)
WorkerTrace ==
  /\ worker = "trace" /\ AtSafepoint
  /\ worker' = "pop"
  /\ traced' = traced + 1
  /\ UNCHANGED <<queues, spWorker, notifier, app, locked, inGc, gcs, pendings, stop_, phase, terminated, objects>>

-----------------------------------------------------------------------------
(* safepoint_worker: instance() finds no object,                           *)
SpInstance ==
  /\ spWorker = "pop" /\ self_ = NULL
  /\ spWorker' = "create"
  /\ UNCHANGED <<queues, worker, notifier, app, locked, inGc, counts, stop_, phase, terminated, objects>>

(* and stores a new one, whatever others stored since.  The object it      *)
(* returns is its own or, read again, the one that is in self_ by then.    *)
SpCreate ==
  /\ spWorker = "create"
  /\ self_' = Sp
  /\ \/ spWorker' = "wait" /\ spOn' = Sp
     \/ spWorker' = "pop" /\ UNCHANGED spOn
  /\ UNCHANGED <<queues, worker, notifier, app, on, notifyOn, locked, inGc, counts, stop_, phase, terminated>>

(* try_pop on queue_. *)
SpPop ==
  LET o == IF spWorker = "wait" THEN spOn ELSE self_
  IN  /\ spWorker \in {"pop", "wait"} /\ o # NULL
      /\ \/ /\ StartWait(fullQueue[o], spWorker)
            /\ spWorker' = "wait" /\ spOn' = o
            /\ UNCHANGED fullQueue
         \/ /\ TryPop(fullQueue[o], spWorker,
                      spWorker' = "spawn" /\ fullQueue' = [fullQueue EXCEPT ![o] = @ - 1],
                      spWorker' = "check" /\ UNCHANGED fullQueue)
            /\ spOn' = NULL
      /\ UNCHANGED <<gcQueue, qq, worker, notifier, app, self_, on, notifyOn, locked, inGc, counts, stop_, phase, terminated>>

SpCheck ==
  /\ spWorker = "check"
  /\ spWorker' = IF stop_ THEN "exit" ELSE "pop"
  /\ UNCHANGED <<queues, worker, notifier, app, locked, inGc, counts, stop_, phase, terminated, objects>>

(* qq is created and safepoint_notify starts in a thread of its own. *)
SpSpawn ==
  /\ spWorker = "spawn"
  /\ spWorker' = "trace" /\ notifier' = "notify"
  /\ UNCHANGED <<queues, worker, app, locked, inGc, counts, stop_, phase, terminated, objects>>

(* stack_trace(true): GetAllStackTraces returns. *)
SpTrace ==
  /\ spWorker = "trace" /\ AtSafepoint
  /\ spWorker' = "print"
  /\ UNCHANGED <<queues, worker, notifier, app, locked, inGc, counts, stop_, phase, terminated, objects>>

(* The constructor of std::thread throws, and nothing catches it; or       *)
(* CHECK_ERR of stack_trace(true) throws while printing, and th, which is  *)
(* joinable, calls std::terminate when it is unwound.                      *)
SpThrow ==
  /\ spWorker \in {"spawn", "print"}
  /\ terminated' = TRUE
  /\ UNCHANGED <<queues, agents, app, locked, inGc, counts, stop_, phase, objects>>

SpPushNoJoin ==                         \* mutant: th.detach() for th.join()
  /\ spWorker = "print"
  /\ qq' = 1
  /\ spWorker' = "exit"
  /\ UNCHANGED <<gcQueue, fullQueue, worker, notifier, app, locked, inGc, counts, stop_, phase, terminated, objects>>

(* qq.push(1) *)
SpPush ==
  /\ spWorker = "print"
  /\ qq' = qq + 1
  /\ spWorker' = "join"
  /\ UNCHANGED <<gcQueue, fullQueue, worker, notifier, app, locked, inGc, counts, stop_, phase, terminated, objects>>

(* th.join(), then break: qq is destroyed and the thread ends. *)
SpJoin ==
  /\ spWorker = "join" /\ notifier = "exit"
  /\ spWorker' = "exit"
  /\ UNCHANGED <<queues, worker, notifier, app, locked, inGc, counts, stop_, phase, terminated, objects>>

-----------------------------------------------------------------------------
(* safepoint_notify: instance(), which finds an object,                    *)
NotifierInstance ==
  /\ notifier = "notify"
  /\ notifier' = "signal" /\ notifyOn' = self_
  /\ UNCHANGED <<queues, worker, spWorker, app, self_, on, spOn, locked, inGc, counts, stop_, phase, terminated>>

Waiting == {a \in App : app[a] = "waiting" /\ on[a] = notifyOn}

(* notify(all) of that object: with all it returns with c_mutex_ locked. *)
Notify(all) ==
  /\ ~locked
  /\ locked' = all
  /\ IF all
     THEN app' = [a \in App |-> IF a \in Waiting THEN "woken" ELSE app[a]]
     ELSE \/ \E a \in Waiting : app' = [app EXCEPT ![a] = "woken"]
          \/ Waiting = {} /\ UNCHANGED app

NotifierNotifiesAll ==                  \* mutant: notify(true)
  /\ notifier = "signal" /\ Notify(TRUE)
  /\ notifier' = "pop" /\ notifyOn' = NULL
  /\ UNCHANGED <<queues, worker, spWorker, self_, on, spOn, inGc, counts, stop_, phase, terminated>>

(* and notify(false) on it, whatever is in self_ by then. *)
NotifierNotify ==
  /\ notifier = "signal" /\ Notify(FALSE)
  /\ notifier' = "pop" /\ notifyOn' = NULL
  /\ UNCHANGED <<queues, worker, spWorker, self_, on, spOn, inGc, counts, stop_, phase, terminated>>

(* safepoint_notify: try_pop on qq; on a timeout notify again. *)
NotifierPop ==
  /\ \/ StartWait(qq, notifier) /\ notifier' = "wait" /\ UNCHANGED qq
     \/ TryPop(qq, notifier,
               notifier' = "exit" /\ qq' = qq - 1,
               notifier' = "notify" /\ UNCHANGED qq)
  /\ UNCHANGED <<gcQueue, fullQueue, worker, spWorker, app, locked, inGc, counts, stop_, phase, terminated, objects>>

-----------------------------------------------------------------------------
PushOn(a, o) ==
  /\ app' = [app EXCEPT ![a] = "pushed"]
  /\ on' = [on EXCEPT ![a] = o]
  /\ fullQueue' = [fullQueue EXCEPT ![o] = @ + 1]

(* instance() and pending(): queue_.push; stack_trace_ is false in these   *)
(* threads.                                                                *)
Pending(a) ==
  /\ EventsOn /\ app[a] = "run" /\ pendings[a] < MaxPending
  /\ pendings' = [pendings EXCEPT ![a] = @ + 1]
  /\ IF self_ # NULL THEN PushOn(a, self_)
     ELSE app' = [app EXCEPT ![a] = "create"] /\ UNCHANGED <<on, fullQueue>>
  /\ UNCHANGED <<gcQueue, qq, agents, self_, spOn, notifyOn, locked, inGc, gcs, traced, stop_, phase, terminated>>

(* instance() stores a new object and returns it, *)
PendingCreate(a) ==
  /\ app[a] = "create"
  /\ self_' = a
  /\ \/ PushOn(a, a)
     \/ app' = [app EXCEPT ![a] = "reread"] /\ UNCHANGED <<on, fullQueue>>
  /\ UNCHANGED <<gcQueue, qq, agents, spOn, notifyOn, locked, inGc, counts, stop_, phase, terminated>>

(* or what it reads in self_ after that. *)
PendingReread(a) ==
  /\ app[a] = "reread"
  /\ PushOn(a, self_)
  /\ UNCHANGED <<gcQueue, qq, agents, self_, spOn, notifyOn, locked, inGc, counts, stop_, phase, terminated>>

(* pending(): lock c_mutex_ and wait on cond_, whatever has been signalled *)
(* before.                                                                 *)
PendingWait(a) ==
  /\ app[a] = "pushed" /\ ~locked
  /\ app' = [app EXCEPT ![a] = "waiting"]
  /\ UNCHANGED <<queues, agents, locked, inGc, counts, stop_, phase, terminated, objects>>

(* pending(): cond_wait has c_mutex_ back; unlock and return. *)
PendingReturn(a) ==
  /\ app[a] = "woken" /\ ~locked
  /\ app' = [app EXCEPT ![a] = "run"]
  /\ on' = [on EXCEPT ![a] = NULL]
  /\ UNCHANGED <<queues, agents, self_, spOn, notifyOn, locked, inGc, counts, stop_, phase, terminated>>

(* pthread_cond_wait may return for no reason; there is no predicate. *)
PendingSpurious(a) ==
  /\ app[a] = "waiting"
  /\ app' = [app EXCEPT ![a] = "woken"]
  /\ UNCHANGED <<queues, agents, locked, inGc, counts, stop_, phase, terminated, objects>>

WorkerStep == WorkerPop \/ WorkerCheck \/ WorkerTrace
SpStep ==
  SpInstance \/ SpCreate \/ SpPop \/ SpCheck \/ SpSpawn \/ SpTrace \/ SpThrow \/ SpPush \/ SpJoin
NotifierStep == NotifierInstance \/ NotifierNotify \/ NotifierPop
PendingStep(a) ==
  PendingCreate(a) \/ PendingReread(a) \/ PendingWait(a) \/ PendingReturn(a)

Next ==
  /\ ~terminated
  /\ \/ Load \/ VmInit \/ GcStart \/ GcFinish \/ Unload
     \/ WorkerStep \/ SpStep \/ NotifierStep
     \/ \E a \in App : Pending(a) \/ PendingStep(a) \/ PendingSpurious(a)

(* A JVM that has loaded the agent comes to VMInit; the threads of the     *)
(* agent and the threads inside pending keep running,                      *)
(* the two seconds of try_pop pass, and the VM thread serves the requests  *)
(* whenever it can have a safepoint.  Nobody has to collect, to call       *)
(* pending, to unload or to wake without a reason.                         *)
Fairness ==
  /\ WF_vars(~terminated /\ VmInit)
  /\ WF_vars(~terminated /\ GcFinish)
  /\ WF_vars(~terminated /\ WorkerStep)
  /\ WF_vars(~terminated /\ SpStep)
  /\ WF_vars(~terminated /\ NotifierStep)
  /\ \A a \in App : WF_vars(~terminated /\ PendingStep(a))

Spec == Init /\ [][Next]_vars
LiveSpec == Spec /\ Fairness

-----------------------------------------------------------------------------
(* safepoint_notify uses safepoint_worker's local qq: while it runs,       *)
(* safepoint_worker has not left the block that owns qq.                   *)
NotifierHasQueue ==
  notifier \in {"notify", "signal", "pop", "wait"} => spWorker \in {"trace", "print", "join"}

(* A thread inside the VM is blocked and nobody is left to signal its      *)
(* cond_: safepoint_worker has ended, or the thread lost the race to       *)
(* create the instance and safepoint_notify does not have its object in    *)
(* hand.  The JVM has no safepoint any more.                               *)
Hung ==
  \E a \in Unsafe :
    app[a] = "waiting" /\ (spWorker = "exit" \/ on[a] \notin {self_, notifyOn})

(* Once safepoint_worker has asked for the stack traces it gets them, even *)
(* if threads blocked in pending() keep the JVM from its safepoint and     *)
(* signals come before the wait they are meant for: safepoint_notify       *)
(* signals again and again.  The exception is a thread that waits on an    *)
(* object that is not the instance.                                        *)
StackTraceCompletes == spWorker = "trace" ~> (spWorker # "trace" \/ Hung \/ terminated)

(* The first call of pending() on the object that stays the instance makes *)
(* safepoint_worker take the traces, unless the agent is being unloaded,   *)
(* the process has aborted or a thread hangs.                              *)
FullIsNoticed ==
  \A o \in Creators :
    self_ = o /\ fullQueue[o] > 0
      ~> (spWorker \in {"print", "join", "exit"} \/ self_ # o \/ stop_ \/ Hung \/ terminated)

(* Every collection leads to a stack trace by worker, unless the agent is  *)
(* unloaded, aborts, or a thread blocked in pending() after                *)
(* safepoint_worker ended denies it the safepoint.                         *)
EveryGcTraced ==
  \A n \in 1 .. MaxGc : gcs >= n ~> (traced >= n \/ stop_ \/ Hung \/ terminated)

(* After Agent_OnUnload, worker ends although it looks at stop_ only when  *)
(* try_pop times out, with the same exceptions.                            *)
WorkerStops == stop_ ~> (worker = "exit" \/ Hung \/ terminated)
=============================================================================

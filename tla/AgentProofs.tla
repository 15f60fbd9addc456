----------------------------- MODULE AgentProofs -----------------------------
(***************************************************************************)
(* The agent (TraceAgent), for any number of threads, collections and      *)
(* calls of pending().                                                     *)
(***************************************************************************)
EXTENDS TraceAgent, Sequences, FiniteSetTheorems, TLAPS

(* Every collection that has started waits in _queue, is being traced or   *)
(* has been.                                                               *)
GcsCounted == gcs = traced + gcQueue + (IF worker = "trace" THEN 1 ELSE 0)

(* The agent's threads are started by vm_init. *)
NotStarted == phase # "live" => worker = "off" /\ spWorker = "off"

(* qq and the thread that pops it live in one turn of safepoint_worker,    *)
(* the last, and one element is pushed.                                    *)
OneTurn ==
  /\ spWorker \in {"off", "pop", "create", "wait", "check", "spawn"} => notifier = "off"
  /\ spWorker \notin {"join", "exit"} => qq = 0

InPending == \A a \in App : app[a] # "run" => pendings[a] >= 1

(* The pushes on the queues of all mem_fullers so far: the n-th of thread  *)
(* a is <<a, n>>.                                                          *)
Pushed(a) == IF app[a] \in {"create", "reread"} THEN pendings[a] - 1 ELSE pendings[a]
Pushes == {c \in App \X (1 .. MaxPending) : c[2] <= Pushed(c[1])}

FullCounted == \A o \in Creators : fullQueue[o] \in Nat /\ fullQueue[o] <= Cardinality(Pushes)

(* The types that need no argument. *)
Shape ==
  /\ worker \in {"off", "pop", "wait", "check", "trace", "exit"}
  /\ spWorker \in {"off", "pop", "create", "wait", "check", "spawn", "trace", "print", "join",
                   "exit"}
  /\ notifier \in {"off", "notify", "signal", "pop", "wait", "exit"}
  /\ app \in [App -> {"run", "create", "reread", "pushed", "waiting", "woken"}]
  /\ pendings \in [App -> 0 .. MaxPending]
  /\ self_ \in Creators \cup {NULL} /\ spOn \in Creators \cup {NULL}
  /\ on \in [App -> Creators \cup {NULL}] /\ notifyOn \in Creators \cup {NULL}
  /\ phase \in {"start", "loaded", "live", "err"}
  /\ DOMAIN fullQueue = Creators /\ fullQueue = [o \in Creators |-> fullQueue[o]]

Flags ==
  /\ inGc \in BOOLEAN /\ stop_ \in BOOLEAN /\ terminated \in BOOLEAN
  /\ locked = FALSE

Counts ==
  /\ gcQueue \in Nat /\ traced \in Nat /\ gcs \in 0 .. MaxGc /\ qq \in 0 .. 1

AgentInv ==
  /\ Shape /\ Flags /\ Counts
  /\ GcsCounted /\ NotStarted /\ OneTurn /\ NotifierHasQueue
  /\ InPending /\ FullCounted

-----------------------------------------------------------------------------
(* The pushes are finitely many, and no more than the calls of pending().  *)
LEMMA PushesBound ==
  /\ IsFiniteSet(Pushes) /\ Cardinality(Pushes) \in Nat
  /\ Cardinality(App) \in Nat /\ MaxPending * Cardinality(App) \in Nat
  /\ Cardinality(Pushes) <= MaxPending * Cardinality(App)
<1>1. IsFiniteSet(App) /\ Cardinality(App) \in Nat
  BY ThreadsAssumption, FS_CardinalityType
<1>2. IsFiniteSet(1 .. MaxPending) /\ Cardinality(1 .. MaxPending) = MaxPending
  BY BoundsAssumption, FS_Interval
<1>3. /\ IsFiniteSet(App \X (1 .. MaxPending))
      /\ Cardinality(App \X (1 .. MaxPending)) = Cardinality(App) * MaxPending
  BY <1>1, <1>2, FS_Product
<1>4. Pushes \in SUBSET (App \X (1 .. MaxPending))
  BY DEF Pushes
<1>5. IsFiniteSet(Pushes) /\ Cardinality(Pushes) <= Cardinality(App) * MaxPending
  BY <1>3, <1>4, FS_Subset
<1>6. Cardinality(Pushes) \in Nat
  BY <1>5, FS_CardinalityType
<1>7. Cardinality(App) * MaxPending = MaxPending * Cardinality(App) /\ MaxPending * Cardinality(App) \in Nat
  BY <1>1, BoundsAssumption
<1> QED
  BY <1>1, <1>5, <1>6, <1>7

(* A push that pending() makes is one more, *)
LEMMA OnePush ==
  ASSUME NEW a \in App, Pushed(a)' = Pushed(a) + 1, Pushed(a) \in Nat, Pushed(a) < MaxPending,
         \A b \in App \ {a} : Pushed(b)' = Pushed(b)
  PROVE  Cardinality(Pushes)' = Cardinality(Pushes) + 1
<1> DEFINE c == <<a, Pushed(a) + 1>>
<1>1. c \notin Pushes
  BY DEF Pushes
<1>2. Pushes' = Pushes \cup {c}
  <2>1. c \in Pushes'
    BY BoundsAssumption DEF Pushes
  <2>2. ASSUME NEW d \in App \X (1 .. MaxPending), d # c
        PROVE  d[2] <= Pushed(d[1])' <=> d[2] <= Pushed(d[1])
    <3>1. d = <<d[1], d[2]>> /\ d[1] \in App /\ d[2] \in 1 .. MaxPending
      OBVIOUS
    <3>2. CASE d[1] = a
      <4>1. d[2] # Pushed(a) + 1
        BY <2>2, <3>1, <3>2
      <4> QED
        BY <3>1, <3>2, <4>1
    <3>3. CASE d[1] # a
      BY <3>1, <3>3
    <3> QED
      BY <3>2, <3>3
  <2> QED
    BY <2>1, <2>2 DEF Pushes
<1>3. Cardinality(Pushes \cup {c}) = Cardinality(Pushes) + 1
  BY <1>1, PushesBound, FS_AddElement
<1> QED
  BY <1>2, <1>3

(* and no other step changes them.                                         *)
LEMMA NoPush ==
  ASSUME \A b \in App : Pushed(b)' = Pushed(b)
  PROVE  Cardinality(Pushes)' = Cardinality(Pushes)
<1>1. Pushes' = Pushes
  BY DEF Pushes
<1> QED
  BY <1>1

(* The invariant has the types in it. *)
LEMMA AgentTypes == AgentInv => TypeOK
<1> SUFFICES ASSUME AgentInv PROVE TypeOK
  OBVIOUS
<1>1. gcQueue \in 0 .. MaxGc /\ traced \in 0 .. MaxGc
  BY BoundsAssumption DEF AgentInv, Counts, GcsCounted
<1>2. fullQueue \in [Creators -> 0 .. MaxPending * Cardinality(App)]
  <2>1. \A o \in Creators : fullQueue[o] \in 0 .. MaxPending * Cardinality(App)
    BY PushesBound DEF AgentInv, FullCounted
  <2> QED
    BY <2>1 DEF AgentInv, Shape
<1>3. locked \in BOOLEAN /\ inGc \in BOOLEAN /\ stop_ \in BOOLEAN /\ terminated \in BOOLEAN
  BY Zenon DEF AgentInv, Flags
<1> QED
  BY <1>1, <1>2, <1>3 DEF AgentInv, Shape, Counts, TypeOK

(* It holds when the library is loaded. *)
LEMMA AgentStart == Init => AgentInv
<1> SUFFICES ASSUME Init PROVE AgentInv
  OBVIOUS
<1>1. Shape
  BY BoundsAssumption DEF Init, Shape
<1>2. Flags
  BY Zenon DEF Init, Flags
<1>3. Counts /\ GcsCounted
  BY BoundsAssumption DEF Init, Counts, GcsCounted
<1>4. NotStarted /\ OneTurn /\ NotifierHasQueue /\ InPending
  BY DEF Init, NotStarted, OneTurn, NotifierHasQueue, InPending
<1>5. FullCounted
  BY PushesBound DEF Init, FullCounted
<1> QED
  BY <1>1, <1>2, <1>3, <1>4, <1>5 DEF AgentInv

-----------------------------------------------------------------------------
(* A step outside pending() that takes nothing from a queue_ keeps the     *)
(* account of the pushes.                                                  *)
LEMMA PendingKept ==
  ASSUME AgentInv, UNCHANGED <<app, pendings, fullQueue>>
  PROVE  InPending' /\ FullCounted'
<1>1. InPending'
  BY DEF AgentInv, InPending
<1>2. Cardinality(Pushes)' = Cardinality(Pushes)
  BY NoPush DEF Pushed
<1> QED
  BY <1>1, <1>2 DEF AgentInv, FullCounted

(* Loading, VMInit, the collections and unloading. *)
LEMMA JvmKeeps ==
  ASSUME AgentInv, Load \/ VmInit \/ GcStart \/ GcFinish \/ Unload
  PROVE  AgentInv'
<1>1. UNCHANGED <<app, pendings, fullQueue>>
  BY DEF Load, VmInit, GcStart, GcFinish, Unload, queues, counts
<1>2. InPending' /\ FullCounted'
  BY <1>1, PendingKept
<1>3. Shape'
  BY DEF AgentInv, Shape, Load, VmInit, GcStart, GcFinish, Unload, queues, agents, counts, objects,
         Configured, Started
<1>4. Flags'
  BY DEF AgentInv, Flags, Load, VmInit, GcStart, GcFinish, Unload
<1>5. Counts' /\ GcsCounted'
  BY BoundsAssumption
  DEF AgentInv, Counts, GcsCounted, NotStarted, Load, VmInit, GcStart, GcFinish, Unload,
      queues, agents, counts, Started
<1>6. NotStarted' /\ OneTurn' /\ NotifierHasQueue'
  BY DEF AgentInv, NotStarted, OneTurn, NotifierHasQueue, Load, VmInit, GcStart, GcFinish, Unload,
         queues, agents, Configured, Started
<1> QED
  BY <1>2, <1>3, <1>4, <1>5, <1>6 DEF AgentInv

(* worker *)
LEMMA WorkerKeeps ==
  ASSUME AgentInv, WorkerStep
  PROVE  AgentInv'
<1>1. UNCHANGED <<fullQueue, qq, spWorker, notifier, app, locked, inGc, gcs, pendings, stop_,
                  phase, terminated, objects>>
  BY DEF WorkerStep, WorkerPop, WorkerCheck, WorkerTrace, queues, counts, objects
<1>2. InPending' /\ FullCounted'
  BY <1>1, PendingKept
<1>3. Shape'
  BY <1>1 DEF AgentInv, Shape, WorkerStep, WorkerPop, WorkerCheck, WorkerTrace, StartWait, TryPop,
              objects
<1>4. Flags'
  BY <1>1 DEF AgentInv, Flags
<1>5. Counts' /\ GcsCounted'
  BY <1>1 DEF AgentInv, Counts, GcsCounted, WorkerStep, WorkerPop, WorkerCheck, WorkerTrace,
              StartWait, TryPop, queues, counts
<1>6. NotStarted' /\ OneTurn' /\ NotifierHasQueue'
  BY <1>1 DEF AgentInv, NotStarted, OneTurn, NotifierHasQueue, WorkerStep, WorkerPop, WorkerCheck,
              WorkerTrace, StartWait, TryPop
<1> QED
  BY <1>2, <1>3, <1>4, <1>5, <1>6 DEF AgentInv

(* safepoint_worker *)
LEMMA SpKeeps ==
  ASSUME AgentInv, SpStep
  PROVE  AgentInv'
<1> USE DEF SpStep
<1>1. UNCHANGED <<gcQueue, worker, app, locked, inGc, gcs, traced, pendings, stop_, phase, on,
                  notifyOn>>
  BY DEF SpInstance, SpCreate, SpPop, SpCheck, SpSpawn, SpTrace, SpThrow, SpPush, SpJoin,
         queues, agents, counts, objects
<1>2. InPending' /\ FullCounted'
  <2>1. CASE UNCHANGED fullQueue
    BY <1>1, <2>1, PendingKept
  <2>2. ASSUME NEW o \in Creators, fullQueue[o] > 0, fullQueue' = [fullQueue EXCEPT ![o] = @ - 1]
        PROVE  InPending' /\ FullCounted'
    <3>1. InPending'
      BY <1>1 DEF AgentInv, InPending
    <3>2. Cardinality(Pushes)' = Cardinality(Pushes) /\ Cardinality(Pushes) \in Nat
      BY <1>1, NoPush, PushesBound DEF Pushed
    <3>3. ASSUME NEW r \in Creators
          PROVE  fullQueue'[r] \in Nat /\ fullQueue'[r] <= fullQueue[r]
      BY <2>2 DEF AgentInv, Shape, FullCounted
    <3>4. ASSUME NEW r \in Creators
          PROVE  fullQueue'[r] <= Cardinality(Pushes)
      BY <3>2, <3>3 DEF AgentInv, FullCounted
    <3> QED
      BY <3>1, <3>2, <3>3, <3>4 DEF FullCounted
  <2>3. \/ UNCHANGED fullQueue
        \/ \E o \in Creators : fullQueue[o] > 0 /\ fullQueue' = [fullQueue EXCEPT ![o] = @ - 1]
    BY DEF AgentInv, Shape, SpInstance, SpCreate, SpPop, SpCheck, SpSpawn, SpTrace, SpThrow, SpPush, SpJoin,
           queues, TryPop
  <2> QED
    BY <2>1, <2>2, <2>3
<1>3. Shape'
  <2>1. /\ spWorker' \in {"off", "pop", "create", "wait", "check", "spawn", "trace", "print", "join",
                   "exit"}
        /\ notifier' \in {"off", "notify", "signal", "pop", "wait", "exit"}
    BY DEF AgentInv, Shape, SpInstance, SpCreate, SpPop, SpCheck, SpSpawn, SpTrace, SpThrow, SpPush, SpJoin,
           TryPop, StartWait, agents
  <2>2. self_' \in Creators \cup {NULL} /\ spOn' \in Creators \cup {NULL}
    BY DEF AgentInv, Shape, SpInstance, SpCreate, SpPop, SpCheck, SpSpawn, SpTrace, SpThrow, SpPush, SpJoin,
           objects, Creators
  <2>3. DOMAIN fullQueue' = Creators /\ fullQueue' = [o \in Creators |-> fullQueue'[o]]
    BY DEF AgentInv, Shape, SpInstance, SpCreate, SpPop, SpCheck, SpSpawn, SpTrace, SpThrow, SpPush, SpJoin,
           TryPop, queues
  <2> QED
    BY <1>1, <2>1, <2>2, <2>3 DEF AgentInv, Shape
<1>4. Flags'
  BY <1>1 DEF AgentInv, Flags, SpInstance, SpCreate, SpPop, SpCheck, SpSpawn, SpTrace, SpThrow, SpPush, SpJoin
<1>5. Counts' /\ GcsCounted'
  <2>1. qq' \in 0 .. 1
    <3>1. CASE SpPush
      BY <3>1 DEF AgentInv, OneTurn, SpPush
    <3>2. CASE ~SpPush
      BY <3>2 DEF AgentInv, Counts, SpInstance, SpCreate, SpPop, SpCheck, SpSpawn, SpTrace, SpThrow, SpJoin,
                  queues
    <3> QED
      BY <3>1, <3>2
  <2> QED
    BY <1>1, <2>1 DEF AgentInv, Counts, GcsCounted
<1>6. NotStarted'
  BY <1>1 DEF AgentInv, NotStarted, SpInstance, SpCreate, SpPop, SpCheck, SpSpawn, SpTrace, SpThrow, SpPush,
              SpJoin, agents
<1>7. OneTurn' /\ NotifierHasQueue'
  BY DEF AgentInv, OneTurn, NotifierHasQueue, SpInstance, SpCreate, SpPop, SpCheck, SpSpawn, SpTrace, SpThrow,
         SpPush, SpJoin, TryPop, StartWait, queues, agents
<1> QED
  BY <1>2, <1>3, <1>4, <1>5, <1>6, <1>7 DEF AgentInv

(* safepoint_notify *)
LEMMA NotifierKeeps ==
  ASSUME AgentInv, NotifierStep
  PROVE  AgentInv'
<1>1. UNCHANGED <<gcQueue, fullQueue, worker, spWorker, inGc, counts, stop_, phase, terminated,
                  self_, on, spOn>>
  BY DEF NotifierStep, NotifierInstance, NotifierNotify, NotifierPop, queues, objects
<1>2. locked' = FALSE
  BY DEF AgentInv, Flags, NotifierStep, NotifierInstance, NotifierNotify, NotifierPop, Notify
<1>3. /\ app' \in [App -> {"run", "create", "reread", "pushed", "waiting", "woken"}]
      /\ \A a \in App : app'[a] = app[a] \/ (app[a] = "waiting" /\ app'[a] = "woken")
  <2>1. CASE NotifierNotify
    BY <2>1 DEF AgentInv, Shape, NotifierNotify, Notify, Waiting
  <2>2. CASE NotifierInstance \/ NotifierPop
    BY <2>2 DEF AgentInv, Shape, NotifierInstance, NotifierPop
  <2> QED
    BY <2>1, <2>2 DEF NotifierStep
<1>4. InPending' /\ FullCounted'
  <2>1. InPending'
    BY <1>1, <1>3 DEF AgentInv, InPending, counts
  <2>2. Cardinality(Pushes)' = Cardinality(Pushes)
    BY <1>1, <1>3, NoPush DEF Pushed, counts
  <2> QED
    BY <1>1, <2>1, <2>2 DEF AgentInv, FullCounted
<1>5. notifier' \in {"off", "notify", "signal", "pop", "wait", "exit"}
  BY DEF NotifierStep, NotifierInstance, NotifierNotify, NotifierPop, StartWait, TryPop
<1>a. notifyOn' \in Creators \cup {NULL}
  BY DEF AgentInv, Shape, NotifierStep, NotifierInstance, NotifierNotify, NotifierPop, objects
<1>6. Shape'
  BY <1>1, <1>3, <1>5, <1>a DEF AgentInv, Shape, counts
<1>7. Flags'
  BY <1>1, <1>2 DEF AgentInv, Flags
<1>8. \/ qq' = qq /\ notifier' \in {"notify", "signal", "pop", "wait"} /\ notifier \in {"notify", "signal", "pop", "wait"}
      \/ qq = 1 /\ qq' = 0 /\ notifier' = "exit"
  <2>1. CASE NotifierInstance \/ NotifierNotify
    BY <2>1 DEF NotifierInstance, NotifierNotify, queues
  <2>2. CASE NotifierPop
    BY <2>2 DEF AgentInv, Counts, NotifierPop, StartWait, TryPop
  <2> QED
    BY <2>1, <2>2 DEF NotifierStep
<1>9. Counts' /\ GcsCounted'
  <2>1. qq' \in 0 .. 1
    BY <1>8 DEF AgentInv, Counts
  <2> QED
    BY <1>1, <2>1 DEF AgentInv, Counts, GcsCounted, counts
<1>10. NotStarted' /\ OneTurn' /\ NotifierHasQueue'
  BY <1>8, <1>1 DEF AgentInv, NotStarted, OneTurn, NotifierHasQueue
<1> QED
  BY <1>4, <1>6, <1>7, <1>9, <1>10 DEF AgentInv

(* A step of pending() that pushes, *)
LEMMA PushKeeps ==
  ASSUME AgentInv, NEW a \in App, NEW o \in Creators \cup {NULL}, PushOn(a, o),
         pendings' \in [App -> 0 .. MaxPending],
         \A b \in App \ {a} : pendings'[b] = pendings[b],
         \/ app[a] = "run" /\ pendings'[a] = pendings[a] + 1
         \/ app[a] \in {"create", "reread"} /\ pendings'[a] = pendings[a]
  PROVE  /\ InPending' /\ FullCounted'
         /\ app' \in [App -> {"run", "create", "reread", "pushed", "waiting", "woken"}]
         /\ on' \in [App -> Creators \cup {NULL}]
         /\ DOMAIN fullQueue' = Creators /\ fullQueue' = [r \in Creators |-> fullQueue'[r]]
<1>1. /\ app' \in [App -> {"run", "create", "reread", "pushed", "waiting", "woken"}]
      /\ app'[a] = "pushed" /\ \A b \in App \ {a} : app'[b] = app[b]
  BY DEF AgentInv, Shape, PushOn
<1>2. on' \in [App -> Creators \cup {NULL}]
  BY DEF AgentInv, Shape, PushOn
<1>3. DOMAIN fullQueue' = Creators /\ fullQueue' = [r \in Creators |-> fullQueue'[r]]
  BY DEF AgentInv, Shape, PushOn
<1>4. \A b \in App : pendings[b] \in Nat /\ pendings'[b] \in Nat /\ pendings'[b] <= MaxPending
  BY BoundsAssumption DEF AgentInv, Shape
<1>5. InPending'
  BY <1>1, <1>4 DEF AgentInv, InPending
<1>6. Cardinality(Pushes)' = Cardinality(Pushes) + 1
  <2>1. Pushed(a)' = Pushed(a) + 1 /\ Pushed(a) \in Nat /\ Pushed(a) < MaxPending
    BY <1>1, <1>4, BoundsAssumption DEF AgentInv, InPending, Pushed
  <2>2. \A b \in App \ {a} : Pushed(b)' = Pushed(b)
    BY <1>1 DEF Pushed
  <2> QED
    BY <2>1, <2>2, OnePush
<1>7. FullCounted'
  <2>1. ASSUME NEW r \in Creators
        PROVE  fullQueue'[r] \in Nat /\ fullQueue'[r] <= fullQueue[r] + 1
    BY DEF AgentInv, Shape, FullCounted, PushOn
  <2>2. ASSUME NEW r \in Creators
        PROVE  fullQueue'[r] <= Cardinality(Pushes) + 1
    BY <2>1, PushesBound DEF AgentInv, FullCounted
  <2> QED
    BY <1>6, <2>1, <2>2 DEF FullCounted
<1> QED
  BY <1>1, <1>2, <1>3, <1>5, <1>7

(* and the thread's other steps.                                           *)
LEMMA NoPushKeeps ==
  ASSUME AgentInv, NEW a \in App, UNCHANGED fullQueue,
         pendings' \in [App -> 0 .. MaxPending],
         \A b \in App \ {a} : pendings'[b] = pendings[b],
         \/ /\ app[a] = "run" /\ pendings'[a] = pendings[a] + 1
            /\ app' = [app EXCEPT ![a] = "create"]
         \/ /\ pendings'[a] = pendings[a]
            /\ \/ app[a] = "create" /\ app' = [app EXCEPT ![a] = "reread"]
               \/ app[a] = "pushed" /\ app' = [app EXCEPT ![a] = "waiting"]
               \/ app[a] = "woken" /\ app' = [app EXCEPT ![a] = "run"]
               \/ app[a] = "waiting" /\ app' = [app EXCEPT ![a] = "woken"]
  PROVE  /\ InPending' /\ FullCounted'
         /\ app' \in [App -> {"run", "create", "reread", "pushed", "waiting", "woken"}]
<1>1. /\ app' \in [App -> {"run", "create", "reread", "pushed", "waiting", "woken"}]
      /\ \A b \in App \ {a} : app'[b] = app[b]
  BY DEF AgentInv, Shape
<1>2. \A b \in App : pendings[b] \in Nat /\ pendings'[b] \in Nat
  BY BoundsAssumption DEF AgentInv, Shape
<1>3. /\ app'[a] # "run" => pendings'[a] >= 1
      /\ Pushed(a)' = Pushed(a)
  BY <1>2 DEF AgentInv, Shape, InPending, Pushed
<1>4. InPending'
  BY <1>1, <1>3 DEF AgentInv, InPending
<1>5. \A b \in App : Pushed(b)' = Pushed(b)
  <2> TAKE b \in App
  <2>1. CASE b = a
    BY <1>3, <2>1
  <2>2. CASE b # a
    BY <1>1, <2>2 DEF Pushed
  <2> QED
    BY <2>1, <2>2
<1>6. FullCounted'
  BY <1>5, NoPush DEF AgentInv, FullCounted
<1> QED
  BY <1>1, <1>4, <1>6

(* pending() *)
LEMMA PendingKeeps ==
  ASSUME AgentInv, NEW a \in App, Pending(a) \/ PendingStep(a) \/ PendingSpurious(a)
  PROVE  AgentInv'
<1> USE DEF PendingStep
<1>1. UNCHANGED <<gcQueue, qq, agents, spOn, notifyOn, locked, inGc, gcs, traced, stop_, phase, terminated>>
  BY DEF Pending, PendingCreate, PendingReread, PendingWait, PendingReturn, PendingSpurious,
         queues, counts, objects
<1>2. /\ Flags' /\ Counts' /\ GcsCounted' /\ NotStarted' /\ OneTurn' /\ NotifierHasQueue'
  BY <1>1 DEF AgentInv, Flags, Counts, GcsCounted, NotStarted, OneTurn, NotifierHasQueue, agents
<1>3. self_' \in Creators \cup {NULL}
  BY DEF AgentInv, Shape, Creators, Pending, PendingCreate, PendingReread, PendingWait,
         PendingReturn, PendingSpurious, objects
<1>4. pendings' \in [App -> 0 .. MaxPending] /\ \A b \in App \ {a} : pendings'[b] = pendings[b]
  BY BoundsAssumption
  DEF AgentInv, Shape, Pending, PendingCreate, PendingReread, PendingWait, PendingReturn,
      PendingSpurious, counts
<1>5. ASSUME NEW o \in Creators \cup {NULL}, PushOn(a, o),
             \/ app[a] = "run" /\ pendings'[a] = pendings[a] + 1
             \/ app[a] \in {"create", "reread"} /\ pendings'[a] = pendings[a]
      PROVE  AgentInv'
  <2>1. /\ InPending' /\ FullCounted'
        /\ app' \in [App -> {"run", "create", "reread", "pushed", "waiting", "woken"}]
        /\ on' \in [App -> Creators \cup {NULL}]
        /\ DOMAIN fullQueue' = Creators /\ fullQueue' = [r \in Creators |-> fullQueue'[r]]
    BY <1>4, <1>5, PushKeeps
  <2>2. Shape'
    BY <1>1, <1>3, <1>4, <2>1 DEF AgentInv, Shape, agents
  <2> QED
    BY <1>2, <2>1, <2>2 DEF AgentInv
<1>6. ASSUME UNCHANGED fullQueue, on' \in [App -> Creators \cup {NULL}],
             \/ /\ app[a] = "run" /\ pendings'[a] = pendings[a] + 1
                /\ app' = [app EXCEPT ![a] = "create"]
             \/ /\ pendings'[a] = pendings[a]
                /\ \/ app[a] = "create" /\ app' = [app EXCEPT ![a] = "reread"]
                   \/ app[a] = "pushed" /\ app' = [app EXCEPT ![a] = "waiting"]
                   \/ app[a] = "woken" /\ app' = [app EXCEPT ![a] = "run"]
                   \/ app[a] = "waiting" /\ app' = [app EXCEPT ![a] = "woken"]
      PROVE  AgentInv'
  <2>1. /\ InPending' /\ FullCounted'
        /\ app' \in [App -> {"run", "create", "reread", "pushed", "waiting", "woken"}]
    BY <1>4, <1>6, NoPushKeeps
  <2>2. Shape'
    BY <1>1, <1>3, <1>4, <1>6, <2>1 DEF AgentInv, Shape, agents
  <2> QED
    BY <1>2, <2>1, <2>2 DEF AgentInv
<1>7. on \in [App -> Creators \cup {NULL}] /\ self_ \in Creators \cup {NULL} /\ a \in Creators
  BY DEF AgentInv, Shape, Creators
<1>8. CASE Pending(a)
  <2>1. app[a] = "run" /\ pendings'[a] = pendings[a] + 1
    BY <1>8 DEF Pending, AgentInv, Shape
  <2> QED
    BY <1>5, <1>6, <1>7, <1>8, <2>1 DEF Pending
<1>9. CASE PendingCreate(a)
  <2>1. app[a] = "create" /\ pendings'[a] = pendings[a]
    BY <1>9 DEF PendingCreate, counts
  <2> QED
    BY <1>5, <1>6, <1>7, <1>9, <2>1 DEF PendingCreate
<1>10. CASE PendingReread(a)
  <2>1. app[a] = "reread" /\ pendings'[a] = pendings[a] /\ PushOn(a, self_)
    BY <1>10 DEF PendingReread, counts
  <2> QED
    BY <1>5, <1>7, <2>1
<1>11. CASE PendingWait(a) \/ PendingReturn(a) \/ PendingSpurious(a)
  <2>1. UNCHANGED fullQueue /\ pendings'[a] = pendings[a]
    BY <1>11 DEF PendingWait, PendingReturn, PendingSpurious, queues, counts
  <2>2. on' \in [App -> Creators \cup {NULL}]
    BY <1>7, <1>11 DEF PendingWait, PendingReturn, PendingSpurious, objects
  <2> QED
    BY <1>6, <1>11, <2>1, <2>2 DEF PendingWait, PendingReturn, PendingSpurious
<1> QED
  BY <1>8, <1>9, <1>10, <1>11

(* Every step of the JVM, the agent's threads and pending() preserves the  *)
(* invariant.                                                              *)
LEMMA AgentStep == AgentInv /\ [Next]_vars => AgentInv'
<1> SUFFICES ASSUME AgentInv, [Next]_vars PROVE AgentInv'
  OBVIOUS
<1>1. CASE UNCHANGED vars
  <2>1. InPending' /\ FullCounted'
    BY <1>1, PendingKept DEF vars
  <2> QED
    BY <1>1, <2>1 DEF vars, AgentInv, Shape, Flags, Counts, GcsCounted, NotStarted, OneTurn,
                      NotifierHasQueue
<1> QED
  BY <1>1, JvmKeeps, WorkerKeeps, SpKeeps, NotifierKeeps, PendingKeeps DEF Next

(* The agent's counts of collections and pushes, and the one turn of       *)
(* safepoint_worker that safepoint_notify lives in, are invariant.         *)
THEOREM AgentInvariant == Spec => []AgentInv
BY AgentStart, AgentStep, PTL DEF Spec

(* No queue of the agent grows beyond the collections and calls of         *)
(* pending(), and its threads are where they can be.                       *)
THEOREM AgentTypeCorrect == Spec => []TypeOK
BY AgentTypes, AgentInvariant, PTL

(* safepoint_notify never outlives the local qq it pops: th.join() comes   *)
(* before the block that owns qq is left, on every path.                   *)
THEOREM NotifierHasQueueCorrect == Spec => []NotifierHasQueue
<1>1. AgentInv => NotifierHasQueue
  BY DEF AgentInv
<1> QED
  BY <1>1, AgentInvariant, PTL

(* gc_start's pushes and worker's traces match: a collection is in _queue, *)
(* being traced or traced, once, whatever try_pop's timeouts do.           *)
THEOREM CollectionsCounted == Spec => []GcsCounted
<1>1. AgentInv => GcsCounted
  BY DEF AgentInv
<1> QED
  BY <1>1, AgentInvariant, PTL

-----------------------------------------------------------------------------
(* An object that a thread is about to store in self_ is new: it is not    *)
(* the instance, and nobody is in pending() on it.                         *)
Unused(o) == self_ # o /\ \A b \in App : on[b] # o

ObjectsNew ==
  /\ self_ = NULL => \A a \in App : on[a] = NULL
  /\ \A a \in App : app[a] = "create" => Unused(a)
  /\ spWorker = "create" => Unused(Sp)
  /\ \A a \in App : app[a] \in {"pushed", "waiting", "woken"} => on[a] # NULL
  /\ \A a \in App : app[a] = "reread" => self_ # NULL

(* A step that stores no object and starts no instance() keeps that. *)
LEMMA ObjectsKept ==
  ASSUME AgentInv, ObjectsNew, UNCHANGED <<self_, on>>, spWorker' = "create" => spWorker = "create",
         \A a \in App : app'[a] = app[a] \/ (app[a] \in {"pushed", "waiting"} /\ app'[a] \in {"waiting", "woken"})
  PROVE  ObjectsNew'
BY DEF ObjectsNew, Unused

(* A thread enters pending() on the instance: none that is new. *)
LEMMA ObjectsPush ==
  ASSUME AgentInv, ObjectsNew, NEW a \in App, NEW o \in Creators, PushOn(a, o),
         UNCHANGED spWorker, self_' = self_ \/ (self_' = o /\ o = a),
         self_' # NULL, o = self_ \/ (o = a /\ app[a] = "create" /\ self_' = a)
  PROVE  ObjectsNew'
<1>1. /\ app'[a] = "pushed" /\ on'[a] = o
      /\ \A b \in App \ {a} : app'[b] = app[b] /\ on'[b] = on[b]
  BY DEF AgentInv, Shape, PushOn
<1>2. o # NULL /\ a # Sp /\ a # NULL
  BY NamesAssumption DEF Creators, Sp, NULL
<1>3. ASSUME NEW r, r # a, Unused(r)
      PROVE  Unused(r)'
  BY <1>1, <1>3 DEF Unused
<1>4. \A b \in App : app'[b] = "create" => Unused(b)'
  BY <1>1, <1>3 DEF ObjectsNew
<1>5. spWorker' = "create" => Unused(Sp)'
  BY <1>2, <1>3 DEF ObjectsNew
<1>6. \A b \in App : app'[b] \in {"pushed", "waiting", "woken"} => on'[b] # NULL
  BY <1>1, <1>2 DEF ObjectsNew
<1> QED
  BY <1>4, <1>5, <1>6 DEF ObjectsNew

(* Every step keeps it: instance() creates only for a thread that finds no *)
(* object, so that no thread creates twice.                                *)
LEMMA ObjectsStep == AgentInv /\ ObjectsNew /\ [Next]_vars => ObjectsNew'
<1> SUFFICES ASSUME AgentInv, ObjectsNew, [Next]_vars PROVE ObjectsNew'
  OBVIOUS
<1>a. self_ \in Creators \cup {NULL} /\ on \in [App -> Creators \cup {NULL}]
      /\ app \in [App -> {"run", "create", "reread", "pushed", "waiting", "woken"}]
  BY DEF AgentInv, Shape
<1>b. \A a \in App : a # Sp /\ a # NULL /\ a \in Creators
  BY NamesAssumption DEF Creators
<1>1. CASE Load \/ VmInit \/ GcStart \/ GcFinish \/ Unload \/ WorkerStep
  <2>1. UNCHANGED <<self_, on, app>> /\ (spWorker' = "create" => spWorker = "create")
    BY <1>1 DEF Load, VmInit, GcStart, GcFinish, Unload, WorkerStep, WorkerPop, WorkerCheck,
                WorkerTrace, agents, objects, Started
  <2> QED
    BY <2>1, ObjectsKept
<1>2. CASE NotifierStep
  <2>1. UNCHANGED <<self_, on, spWorker>>
    BY <1>2 DEF NotifierStep, NotifierInstance, NotifierNotify, NotifierPop, objects
  <2>2. \A a \in App : app'[a] = app[a] \/ (app[a] = "waiting" /\ app'[a] = "woken")
    <3>1. CASE NotifierNotify
      BY <1>a, <3>1 DEF NotifierNotify, Notify, Waiting
    <3>2. CASE NotifierInstance \/ NotifierPop
      BY <3>2 DEF NotifierInstance, NotifierPop
    <3> QED
      BY <1>2, <3>1, <3>2 DEF NotifierStep
  <2> QED
    BY <2>1, <2>2, ObjectsKept
<1>3. CASE SpInstance
  <2>1. self_ = NULL /\ UNCHANGED <<self_, on, app>> /\ spWorker' = "create"
    BY <1>3 DEF SpInstance, objects
  <2>2. Sp # NULL
    BY DEF Sp, NULL
  <2> QED
    BY <2>1, <2>2 DEF ObjectsNew, Unused
<1>4. CASE SpCreate
  <2>1. spWorker = "create" /\ self_' = Sp /\ UNCHANGED <<on, app>> /\ spWorker' # "create"
    BY <1>4 DEF SpCreate
  <2>2. Sp # NULL
    BY DEF Sp, NULL
  <2> QED
    BY <1>b, <2>1, <2>2 DEF ObjectsNew, Unused
<1>5. CASE SpPop \/ SpCheck \/ SpSpawn \/ SpTrace \/ SpThrow \/ SpPush \/ SpJoin
  <2>1. UNCHANGED <<self_, on, app>> /\ (spWorker' = "create" => spWorker = "create")
    BY <1>5 DEF SpPop, SpCheck, SpSpawn, SpTrace, SpThrow, SpPush, SpJoin, TryPop, StartWait, agents, objects
  <2> QED
    BY <2>1, ObjectsKept
<1>6. ASSUME NEW a \in App, Pending(a)
      PROVE  ObjectsNew'
  <2>1. UNCHANGED <<self_, spWorker>>
    BY <1>6 DEF Pending, agents
  <2>2. CASE self_ # NULL
    BY <1>6, <1>a, <2>1, <2>2, ObjectsPush DEF Pending
  <2>3. CASE self_ = NULL
    <3>1. /\ UNCHANGED on /\ app'[a] = "create" /\ \A b \in App \ {a} : app'[b] = app[b]
      BY <1>6, <1>a, <2>3 DEF Pending
    <3> QED
      BY <1>b, <2>1, <2>3, <3>1 DEF ObjectsNew, Unused
  <2> QED
    BY <2>2, <2>3
<1>7. ASSUME NEW a \in App, PendingCreate(a)
      PROVE  ObjectsNew'
  <2>1. app[a] = "create" /\ self_' = a /\ UNCHANGED spWorker
    BY <1>7 DEF PendingCreate, agents
  <2>2. CASE PushOn(a, a)
    BY <1>b, <2>1, <2>2, ObjectsPush
  <2>3. CASE app' = [app EXCEPT ![a] = "reread"] /\ UNCHANGED <<on, fullQueue>>
    <3>1. UNCHANGED on /\ app'[a] = "reread" /\ \A b \in App \ {a} : app'[b] = app[b]
      BY <1>a, <2>3
    <3> QED
      BY <1>b, <2>1, <3>1 DEF ObjectsNew, Unused
  <2> QED
    BY <1>7, <2>2, <2>3 DEF PendingCreate
<1>8. ASSUME NEW a \in App, PendingReread(a)
      PROVE  ObjectsNew'
  <2>1. app[a] = "reread" /\ self_ # NULL /\ UNCHANGED <<self_, spWorker>> /\ PushOn(a, self_)
    BY <1>8 DEF PendingReread, agents, ObjectsNew
  <2> QED
    BY <1>a, <2>1, ObjectsPush
<1>9. ASSUME NEW a \in App, PendingWait(a) \/ PendingSpurious(a)
      PROVE  ObjectsNew'
  <2>1. UNCHANGED <<self_, on, spWorker>>
    BY <1>9 DEF PendingWait, PendingSpurious, objects, agents
  <2>2. \A b \in App : app'[b] = app[b] \/ (app[b] \in {"pushed", "waiting"} /\ app'[b] \in {"waiting", "woken"})
    BY <1>9, <1>a DEF PendingWait, PendingSpurious
  <2> QED
    BY <2>1, <2>2, ObjectsKept
<1>10. ASSUME NEW a \in App, PendingReturn(a)
       PROVE  ObjectsNew'
  <2>1. /\ UNCHANGED <<self_, spWorker>>
        /\ app'[a] = "run" /\ \A b \in App \ {a} : app'[b] = app[b]
        /\ on'[a] = NULL /\ \A b \in App \ {a} : on'[b] = on[b]
    BY <1>10, <1>a DEF PendingReturn, agents
  <2>2. Sp # NULL
    BY DEF Sp, NULL
  <2> QED
    BY <1>b, <2>1, <2>2 DEF ObjectsNew, Unused
<1>11. CASE UNCHANGED vars
  BY <1>11, ObjectsKept DEF vars
<1> QED
  BY <1>1, <1>2, <1>3, <1>4, <1>5, <1>6, <1>7, <1>8, <1>9, <1>10, <1>11
  DEF Next, SpStep, PendingStep

(* The objects are new in every reachable state. *)
LEMMA ObjectsInvariant == Spec => [](AgentInv /\ ObjectsNew)
<1>1. Init => ObjectsNew
  BY DEF Init, ObjectsNew, Unused
<1> QED
  BY <1>1, AgentStart, AgentStep, ObjectsStep, PTL DEF Spec

-----------------------------------------------------------------------------
HungAt(a) == app[a] = "waiting" /\ (spWorker = "exit" \/ on[a] \notin {self_, notifyOn})

(* A thread nobody is left to signal: the JVM has no safepoint, and no     *)
(* step of any thread wakes it, except a wakeup for no reason.             *)
LEMMA HungStep ==
  ASSUME AgentInv, ObjectsNew, [Next]_vars, [\A b \in App : ~PendingSpurious(b)]_vars,
         NEW a \in Unsafe, HungAt(a)
  PROVE  HungAt(a)' /\ UNCHANGED <<gcs, traced>> /\ (spWorker = "trace" => spWorker' = "trace")
<1> DEFINE Stays == HungAt(a)' /\ UNCHANGED <<gcs, traced>> /\ (spWorker = "trace" => spWorker' = "trace")
<1>a. a \in App /\ app[a] = "waiting" /\ ~AtSafepoint
  BY ThreadsAssumption DEF HungAt, AtSafepoint
<1>b. app \in [App -> {"run", "create", "reread", "pushed", "waiting", "woken"}]
      /\ on \in [App -> Creators \cup {NULL}]
  BY DEF AgentInv, Shape
<1>1. CASE UNCHANGED vars
  BY <1>1 DEF vars, HungAt
<1>2. CASE Load \/ GcFinish \/ Unload \/ WorkerPop \/ WorkerCheck
  BY <1>2 DEF Load, GcFinish, Unload, WorkerPop, WorkerCheck, agents, counts, objects, HungAt
<1>3. CASE GcStart \/ WorkerTrace \/ SpTrace
  BY <1>a, <1>3 DEF GcStart, WorkerTrace, SpTrace
<1>4. CASE VmInit
  <2>1. spWorker = "off"
    BY <1>4 DEF VmInit, AgentInv, NotStarted
  <2> QED
    BY <1>4, <2>1 DEF VmInit, counts, objects, HungAt
<1>5. CASE SpInstance \/ SpPop \/ SpCheck \/ SpSpawn \/ SpThrow \/ SpPush \/ SpJoin
  <2>1. /\ UNCHANGED <<app, on, self_, notifyOn, gcs, traced>>
        /\ spWorker \in {"exit", "trace"} => spWorker' = spWorker
    BY <1>5 DEF SpInstance, SpPop, SpCheck, SpSpawn, SpThrow, SpPush, SpJoin, agents, counts, objects
  <2> QED
    BY <2>1 DEF HungAt
<1>6. CASE SpCreate
  BY <1>a, <1>6 DEF SpCreate, counts, HungAt, ObjectsNew, Unused
<1>7. CASE NotifierStep
  <2>1. UNCHANGED <<on, self_, spWorker, gcs, traced>> /\ notifyOn' \in {NULL, self_, notifyOn}
    BY <1>7 DEF NotifierStep, NotifierInstance, NotifierNotify, NotifierPop, counts, objects
  <2>2. app'[a] = app[a]
    <3>1. CASE NotifierNotify
      <4>1. a \notin Waiting
        BY <3>1 DEF NotifierNotify, AgentInv, NotifierHasQueue, HungAt, Waiting
      <4> QED
        BY <1>a, <1>b, <3>1, <4>1 DEF NotifierNotify, Notify, Waiting
    <3>2. CASE NotifierInstance \/ NotifierPop
      BY <3>2 DEF NotifierInstance, NotifierPop
    <3> QED
      BY <1>7, <3>1, <3>2 DEF NotifierStep
  <2>3. on[a] # NULL
    BY <1>a DEF ObjectsNew
  <2> QED
    BY <2>1, <2>2, <2>3 DEF HungAt
<1>8. ASSUME NEW b \in App, Pending(b) \/ PendingReread(b) \/ PendingWait(b) \/ PendingReturn(b)
      PROVE  Stays
  <2>1. b # a
    BY <1>a, <1>8 DEF Pending, PendingReread, PendingWait, PendingReturn
  <2>2. UNCHANGED <<self_, notifyOn, spWorker, gcs, traced>>
    BY <1>8 DEF Pending, PendingReread, PendingWait, PendingReturn, agents, counts, objects
  <2>3. app'[a] = app[a] /\ on'[a] = on[a]
    BY <1>8, <1>a, <1>b, <2>1 DEF Pending, PendingReread, PendingWait, PendingReturn, PushOn, objects
  <2> QED
    BY <2>2, <2>3 DEF HungAt
<1>9. ASSUME NEW b \in App, PendingCreate(b)
      PROVE  Stays
  <2>1. b # a /\ on[a] # b
    BY <1>a, <1>9 DEF PendingCreate, ObjectsNew, Unused
  <2>2. self_' = b /\ UNCHANGED <<notifyOn, spWorker, gcs, traced>>
    BY <1>9 DEF PendingCreate, agents, counts
  <2>3. app'[a] = app[a] /\ on'[a] = on[a]
    BY <1>9, <1>a, <1>b, <2>1 DEF PendingCreate, PushOn
  <2> QED
    BY <2>1, <2>2, <2>3 DEF HungAt
<1> QED
  BY <1>1, <1>2, <1>3, <1>4, <1>5, <1>6, <1>7, <1>8, <1>9
  DEF Next, WorkerStep, SpStep, PendingStep

(* A thread of the VM that waits in pending() when safepoint_worker has    *)
(* ended, or on a mem_fuller that neither is the instance nor is in the    *)
(* hands of safepoint_notify, waits for ever unless cond_wait returns for  *)
(* no reason: no signal reaches it, no collection starts any more, neither *)
(* worker nor safepoint_worker gets its stack traces.  So Hung, the        *)
(* exception the agent's liveness properties make, is a state the agent    *)
(* does not leave.                                                         *)
THEOREM HungForever ==
  Spec /\ [][\A a \in App : ~PendingSpurious(a)]_vars
    => /\ [](Hung => []Hung)
       /\ [][Hung => UNCHANGED <<gcs, traced>> /\ (spWorker = "trace" => spWorker' = "trace")]_vars
<1>1. ASSUME AgentInv, ObjectsNew, [Next]_vars, [\A a \in App : ~PendingSpurious(a)]_vars, Hung
      PROVE  Hung' /\ UNCHANGED <<gcs, traced>> /\ (spWorker = "trace" => spWorker' = "trace")
  <2>1. PICK a \in Unsafe : HungAt(a)
    BY <1>1 DEF Hung, HungAt
  <2>2. HungAt(a)' /\ UNCHANGED <<gcs, traced>> /\ (spWorker = "trace" => spWorker' = "trace")
    BY <1>1, <2>1, HungStep
  <2> QED
    BY <2>2 DEF Hung, HungAt
<1> QED
  BY <1>1, ObjectsInvariant, PTL DEF Spec

-----------------------------------------------------------------------------
(* The threads between the test and the store of mem_fuller::instance().   *)
Creating == {a \in App : app[a] = "create"} \cup {o \in {Sp} : spWorker = "create"}

(* What a lock around instance() would give. *)
OneCreates == \A o, r \in Creating : o = r

OneObject ==
  /\ \A a \in App : on[a] \in {NULL, self_}
  /\ \A o \in Creating : self_ = NULL

(* A step that stores no object. *)
LEMMA OneObjectKept ==
  ASSUME OneObject, self_' = self_, Creating' \subseteq Creating \/ self_ = NULL,
         \A a \in App : on'[a] \in {NULL, self_, on[a]}
  PROVE  OneObject'
BY DEF OneObject

(* While no two threads are in instance() at once there is one mem_fuller: *)
(* the step that stores it finds none, and leaves nobody to store another. *)
LEMMA OneObjectStep ==
  ASSUME AgentInv, ObjectsNew, OneCreates, OneObject, [Next]_vars
  PROVE  OneObject' /\ (self_ # NULL => self_' = self_)
<1>b. app \in [App -> {"run", "create", "reread", "pushed", "waiting", "woken"}]
      /\ on \in [App -> Creators \cup {NULL}]
  BY DEF AgentInv, Shape
<1>c. \A a \in App : a # Sp /\ a # NULL
  BY NamesAssumption
<1>1. CASE UNCHANGED vars
  BY <1>1, OneObjectKept DEF vars, Creating
<1>2. CASE Load \/ VmInit \/ GcStart \/ GcFinish \/ Unload \/ WorkerStep
  <2>1. UNCHANGED <<self_, on, app>> /\ (spWorker' = "create" => spWorker = "create")
    BY <1>2 DEF Load, VmInit, GcStart, GcFinish, Unload, WorkerStep, WorkerPop, WorkerCheck,
                WorkerTrace, agents, objects, Started
  <2> QED
    BY <2>1, OneObjectKept DEF Creating
<1>3. CASE SpInstance \/ SpPop \/ SpCheck \/ SpSpawn \/ SpTrace \/ SpThrow \/ SpPush \/ SpJoin
  <2>1. UNCHANGED <<self_, on, app>> /\ (self_ = NULL \/ (spWorker' = "create" => spWorker = "create"))
    BY <1>3 DEF SpInstance, SpPop, SpCheck, SpSpawn, SpTrace, SpThrow, SpPush, SpJoin, TryPop, StartWait, agents, objects
  <2> QED
    BY <2>1, OneObjectKept DEF Creating
<1>4. CASE SpCreate
  <2>1. Sp \in Creating /\ self_' = Sp /\ UNCHANGED <<on, app>> /\ spWorker' # "create"
    BY <1>4 DEF SpCreate, Creating
  <2>2. Creating' = {}
    BY <1>c, <2>1 DEF OneCreates, Creating
  <2>3. self_ = NULL /\ \A a \in App : on[a] = NULL
    BY <2>1 DEF OneObject
  <2> QED
    BY <2>1, <2>2, <2>3 DEF OneObject
<1>5. CASE NotifierStep
  <2>1. UNCHANGED <<self_, on, spWorker>>
    BY <1>5 DEF NotifierStep, NotifierInstance, NotifierNotify, NotifierPop, objects
  <2>2. \A a \in App : app'[a] = "create" => app[a] = "create"
    <3>1. CASE NotifierNotify
      BY <1>b, <3>1 DEF NotifierNotify, Notify, Waiting
    <3>2. CASE NotifierInstance \/ NotifierPop
      BY <3>2 DEF NotifierInstance, NotifierPop
    <3> QED
      BY <1>5, <3>1, <3>2 DEF NotifierStep
  <2>3. Creating' \subseteq Creating
    BY <2>1, <2>2 DEF Creating
  <2> QED
    BY <2>1, <2>3, OneObjectKept
<1>6. ASSUME NEW a \in App,
             Pending(a) \/ PendingReread(a) \/ PendingWait(a) \/ PendingReturn(a) \/ PendingSpurious(a)
      PROVE  OneObject' /\ self_' = self_
  <2>1. UNCHANGED <<self_, spWorker>>
    BY <1>6 DEF Pending, PendingReread, PendingWait, PendingReturn, PendingSpurious, agents, objects
  <2>2. self_ = NULL \/ \A b \in App : app'[b] = "create" => app[b] = "create"
    BY <1>6, <1>b DEF Pending, PendingReread, PendingWait, PendingReturn, PendingSpurious, PushOn
  <2>3. \A b \in App : on'[b] \in {NULL, self_, on[b]}
    BY <1>6, <1>b DEF Pending, PendingReread, PendingWait, PendingReturn, PendingSpurious, PushOn, objects
  <2>4. self_ = NULL \/ Creating' \subseteq Creating
    BY <2>1, <2>2 DEF Creating
  <2> QED
    BY <2>1, <2>3, <2>4, OneObjectKept
<1>7. ASSUME NEW a \in App, PendingCreate(a)
      PROVE  OneObject' /\ self_ = NULL
  <2>1. a \in Creating /\ self_' = a /\ UNCHANGED spWorker
    BY <1>7 DEF PendingCreate, Creating, agents
  <2>2. self_ = NULL /\ \A b \in App : on[b] = NULL
    BY <2>1 DEF OneObject
  <2>3. app'[a] # "create" /\ \A b \in App \ {a} : app'[b] = app[b]
    BY <1>7, <1>b DEF PendingCreate, PushOn
  <2>4. Creating' = {}
    BY <1>c, <2>1, <2>3 DEF OneCreates, Creating
  <2>5. \A b \in App : on'[b] \in {NULL, a}
    BY <1>7, <1>b, <2>2 DEF PendingCreate, PushOn
  <2> QED
    BY <2>1, <2>2, <2>4, <2>5 DEF OneObject
<1> QED
  BY <1>1, <1>2, <1>3, <1>4, <1>5, <1>6, <1>7 DEF Next, SpStep, PendingStep

(* The unsynchronised mem_fuller::instance() is the only way to a second   *)
(* object: if no two threads are ever between its test and its store, self_ *)
(* is stored once and every thread in pending() is on the instance, whose  *)
(* cond_ safepoint_notify signals.  Then Hung means that safepoint_worker  *)
(* has ended.                                                              *)
THEOREM OneInstance ==
  Spec /\ []OneCreates
    => /\ [](\A a \in App : on[a] \in {NULL, self_})
       /\ [][self_ # NULL => self_' = self_]_vars
       /\ [](Hung => spWorker = "exit")
<1>1. Init => OneObject
  BY DEF Init, OneObject
<1>2. OneObject => \A a \in App : on[a] \in {NULL, self_}
  BY DEF OneObject
<1>3. OneObject /\ ObjectsNew => (Hung => spWorker = "exit")
  BY ThreadsAssumption DEF OneObject, ObjectsNew, Hung
<1>4. AgentInv /\ ObjectsNew /\ OneCreates /\ OneObject /\ [Next]_vars
        => OneObject' /\ (self_ # NULL => self_' = self_)
  BY OneObjectStep
<1> QED
  BY <1>1, <1>2, <1>3, <1>4, ObjectsInvariant, PTL DEF Spec

-----------------------------------------------------------------------------
(* What the agent's _queue is as a FifoQueue: gc_start has pushed a 1 for  *)
(* each collection, the values that are not in it have left, worker holds  *)
(* a 1 once it has got one, and try_pop has found it empty if worker waits. *)
GcPushed == [i \in 1 .. gcs |-> 1]
GcHeld == [c \in {"worker"} |-> IF gcQueue = gcs THEN 0 ELSE 1]
GcBlocked == {c \in {"worker"} : worker = "wait"}

GcFifo == INSTANCE FifoQueue WITH
  Consumers <- {"worker"}, TryPoppers <- {"worker"}, Items <- {1}, NoItem <- 0, MaxPush <- MaxGc,
  hist <- GcPushed, gone <- gcs - gcQueue, last <- GcHeld, blocked <- GcBlocked

(* The calls worker makes on a FifoQueue, and where it goes on. *)
FifoPop ==
  \/ GcFifo!Block("worker") /\ worker' = "wait"
  \/ GcFifo!Get("worker") /\ worker' = "trace"
  \/ GcFifo!GiveUp("worker") /\ worker' = "check"

(* The bounds of _queue. *)
LEMMA GcBounds ==
  ASSUME AgentInv
  PROVE  /\ gcs \in Nat /\ gcQueue \in Nat /\ gcQueue <= gcs /\ Len(GcPushed) = gcs
         /\ \A i \in 1 .. gcs : GcPushed[i] = 1
BY BoundsAssumption DEF AgentInv, Counts, GcsCounted, GcPushed

(* What worker's try_pop does to _queue is what a try_pop on a FifoQueue   *)
(* may do, and all of it: the queue that TraceAgent counts neither leaves  *)
(* out an outcome that zqueue has nor adds one.                            *)
THEOREM PopIsFifo ==
  ASSUME AgentInv, gcQueue' \in Nat, worker \in {"pop", "wait"},
         UNCHANGED <<fullQueue, qq, spWorker, notifier, app, locked, inGc, counts, stop_, phase,
                     terminated, objects>>
  PROVE  WorkerPop <=> FifoPop
<1>1. /\ gcs \in Nat /\ gcQueue \in Nat /\ gcQueue <= gcs /\ gcs' = gcs /\ Len(GcPushed) = gcs
      /\ GcPushed' = GcPushed /\ gcQueue' \in Nat
  BY GcBounds DEF counts, GcPushed
<1>2. ("worker" \in GcBlocked <=> worker = "wait") /\ GcBlocked \subseteq {"worker"}
  BY DEF GcBlocked
<1>3. gcQueue' = gcQueue => GcHeld' = GcHeld
  BY <1>1 DEF GcHeld
<1>4. gcs - gcQueue + 1 \in 1 .. gcs => GcPushed[gcs - gcQueue + 1] = 1
  BY <1>1, GcBounds
<1>5. gcQueue' = gcQueue - 1 => GcHeld' = [GcHeld EXCEPT !["worker"] = 1]
  BY <1>1 DEF GcHeld
<1>a. PICK r \in Nat : gcQueue' = r
  OBVIOUS
<1>b. /\ gcs' - gcQueue' = gcs - gcQueue <=> gcQueue' = gcQueue
      /\ gcs' - gcQueue' = gcs - gcQueue + 1 <=> gcQueue' = gcQueue - 1
  <2>1. /\ gcs - r = gcs - gcQueue <=> r = gcQueue
        /\ gcs - r = gcs - gcQueue + 1 <=> r = gcQueue - 1
    BY <1>1
  <2> QED
    BY <1>1, <1>a, <2>1, Zenon
<1>6. GcFifo!Block("worker") /\ worker' = "wait"
        <=> worker = "pop" /\ gcQueue = 0 /\ worker' = "wait" /\ gcQueue' = gcQueue
  <2>1. worker' = "wait" => GcBlocked' = GcBlocked \cup {"worker"}
    BY <1>2 DEF GcBlocked
  <2>2. gcs - gcQueue = Len(GcPushed) <=> gcQueue = 0
    BY <1>1
  <2> QED
    BY <1>1, <1>2, <1>3, <1>b, <2>1, <2>2 DEF GcFifo!Block
<1>7. GcFifo!Get("worker") /\ worker' = "trace"
        <=> gcQueue > 0 /\ worker' = "trace" /\ gcQueue' = gcQueue - 1
  <2>1. worker' = "trace" => GcBlocked' = GcBlocked \ {"worker"}
    BY <1>2 DEF GcBlocked
  <2>2. gcs - gcQueue < Len(GcPushed) <=> gcQueue > 0
    BY <1>1
  <2>3. gcQueue > 0 => GcPushed[gcs - gcQueue + 1] = 1
    BY <1>1, <1>4
  <2> QED
    BY <1>1, <1>5, <1>b, <2>1, <2>2, <2>3 DEF GcFifo!Get
<1>8. GcFifo!GiveUp("worker") /\ worker' = "check"
        <=> worker = "wait" /\ worker' = "check" /\ gcQueue' = gcQueue
  <2>1. worker' = "check" => GcBlocked' = GcBlocked \ {"worker"}
    BY <1>2 DEF GcBlocked
  <2> QED
    BY <1>1, <1>2, <1>3, <1>b, <2>1 DEF GcFifo!GiveUp
<1> QED
  BY <1>6, <1>7, <1>8 DEF WorkerPop, FifoPop, StartWait, TryPop

(* gc_start and worker together use _queue as a FifoQueue: the agent       *)
(* implements what zqueue promises, so that no collection is handed over   *)
(* twice, none is made up and none is lost in the queue, and worker waits  *)
(* only for a collection that has not been pushed.                         *)
THEOREM GcQueueIsFifo == Spec => GcFifo!Spec
<1>1. Init => GcFifo!Init
  <2> SUFFICES ASSUME Init PROVE GcFifo!Init
    OBVIOUS
  <2>1. gcs = 0 /\ gcQueue = 0 /\ worker = "off"
    BY DEF Init
  <2>2. GcPushed = <<>> /\ gcs - gcQueue = 0 /\ GcBlocked = {}
    BY <2>1 DEF GcPushed, GcBlocked
  <2>3. GcHeld = [c \in {"worker"} |-> 0]
    BY <2>1 DEF GcHeld
  <2> QED
    BY <2>2, <2>3 DEF GcFifo!Init
<1>2. AgentInv /\ AgentInv' /\ [Next]_vars => [GcFifo!Next]_(GcFifo!fifoVars)
  <2> SUFFICES ASSUME AgentInv, AgentInv', [Next]_vars
               PROVE  GcFifo!Next \/ UNCHANGED GcFifo!fifoVars
    OBVIOUS
  <2>1. ASSUME UNCHANGED <<gcs, gcQueue>>, worker' = "wait" <=> worker = "wait"
        PROVE  UNCHANGED GcFifo!fifoVars
    BY <2>1 DEF GcFifo!fifoVars, GcPushed, GcHeld, GcBlocked
  <2>2. CASE GcStart
    <3>1. gcs \in Nat /\ gcQueue \in Nat /\ gcQueue <= gcs /\ Len(GcPushed) = gcs
      BY GcBounds
    <3>2. gcs < MaxGc /\ gcs' = gcs + 1 /\ gcQueue' = gcQueue + 1 /\ worker' = worker
      BY <2>2 DEF GcStart, agents
    <3>3. GcPushed' = Append(GcPushed, 1)
      BY <3>1, <3>2 DEF GcPushed
    <3>4. gcs' - gcQueue' = gcs - gcQueue /\ (gcQueue' = gcs' <=> gcQueue = gcs)
      BY <3>1, <3>2
    <3>5. GcHeld' = GcHeld /\ GcBlocked' = GcBlocked
      BY <3>2, <3>4 DEF GcHeld, GcBlocked
    <3>6. GcFifo!Put(1)
      BY <3>1, <3>2, <3>3, <3>4, <3>5 DEF GcFifo!Put
    <3> QED
      BY <3>6 DEF GcFifo!Next
  <2>3. CASE WorkerPop
    <3>1. worker \in {"pop", "wait"}
      BY <2>3 DEF WorkerPop, StartWait, TryPop
    <3>2. gcQueue' \in Nat
      BY DEF AgentInv, Counts
    <3>3. FifoPop
      BY <2>3, <3>1, <3>2, PopIsFifo DEF WorkerPop
    <3> QED
      BY <3>3 DEF FifoPop, GcFifo!Next
  <2>4. CASE VmInit
    BY <2>1, <2>4 DEF VmInit, queues, counts, Started, AgentInv, NotStarted
  <2>5. CASE Load \/ GcFinish \/ Unload \/ WorkerCheck \/ WorkerTrace
    BY <2>1, <2>5 DEF Load, GcFinish, Unload, WorkerCheck, WorkerTrace, queues, counts, agents
  <2>6. CASE SpStep \/ NotifierStep
    BY <2>1, <2>6 DEF SpStep, SpInstance, SpCreate, SpPop, SpCheck, SpSpawn, SpTrace, SpThrow, SpPush, SpJoin,
                      NotifierStep, NotifierInstance, NotifierNotify, NotifierPop, queues, counts, agents
  <2>7. ASSUME NEW a \in App, Pending(a) \/ PendingStep(a) \/ PendingSpurious(a)
        PROVE  UNCHANGED GcFifo!fifoVars
    BY <2>1, <2>7 DEF Pending, PendingStep, PendingCreate, PendingReread, PendingWait, PendingReturn,
                      PendingSpurious, queues, counts, agents
  <2>8. CASE UNCHANGED vars
    BY <2>1, <2>8 DEF vars
  <2> QED
    BY <2>2, <2>3, <2>4, <2>5, <2>6, <2>7, <2>8 DEF Next, WorkerStep
<1> QED
  BY <1>1, <1>2, AgentInvariant, PTL DEF Spec, GcFifo!Spec
=============================================================================

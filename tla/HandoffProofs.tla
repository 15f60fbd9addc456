--------------------------- MODULE HandoffProofs ---------------------------
(***************************************************************************)
(* How gc_start hands a collection to worker, for any number of threads    *)
(* and collections: through a zqueue<T> (ZQueue), and in the earlier agent *)
(* through a count under a raw monitor (LegacyAgent).                      *)
(***************************************************************************)
EXTENDS ZQueue, LegacyAgent, FiniteSetTheorems, TLAPS

(* Every step of every operation keeps the types of the state.             *)
LEMMA TypeStep == TypeOK /\ [Next]_vars => TypeOK'
<1> SUFFICES ASSUME TypeOK, [Next]_vars PROVE TypeOK'
  OBVIOUS
<1> USE ThreadsAssumption DEF TypeOK, Consumers
<1>1. ASSUME NEW p \in Producers, NEW v \in Items, Push(p, v)
      PROVE  TypeOK'
  BY <1>1 DEF Push
<1>2. ASSUME NEW p \in Producers, NotifyOne(p)
      PROVE  TypeOK'
  BY <1>2 DEF NotifyOne, Waiting
<1>3. ASSUME NEW p \in Producers, Clear(p)
      PROVE  TypeOK'
  BY <1>3 DEF Clear
<1>4. ASSUME NEW c \in Consumers, pc[c] \in {"idle", "woken"}, TakeOrWait(c)
      PROVE  TypeOK'
  <2>1. CASE que_ # <<>> /\ Take(c)
    BY <1>4, <2>1 DEF Take
  <2>2. CASE que_ = <<>> /\ Sleep(c)
    BY <1>4, <2>2 DEF Sleep
  <2> QED
    BY <1>4, <2>1, <2>2 DEF TakeOrWait
<1>5. ASSUME NEW c \in Consumers, ReturnFalse(c)
      PROVE  TypeOK'
  BY <1>5 DEF ReturnFalse
<1>6. ASSUME NEW c \in Consumers, Expire(c)
      PROVE  TypeOK'
  BY <1>6 DEF Expire
<1>7. ASSUME NEW c \in Consumers, SpuriousWakeup(c)
      PROVE  TypeOK'
  BY <1>7 DEF SpuriousWakeup
<1>8. CASE UNCHANGED vars
  BY <1>8 DEF vars
<1> QED
  BY <1>1, <1>2, <1>3, <1>4, <1>5, <1>6, <1>7, <1>8 DEF Next, Begin, Resume

(* The types of zqueue's fields and of its threads' positions never break. *)
THEOREM TypeCorrect == Spec => []TypeOK
<1>1. Init => TypeOK
  BY ThreadsAssumption DEF Init, TypeOK, Consumers
<1> QED
  BY <1>1, TypeStep, PTL DEF Spec

-----------------------------------------------------------------------------
(* Each step keeps the container equal to the part of the history that has *)
(* not left it.                                                            *)
LEMMA SuffixStep == TypeOK /\ QueueIsSuffix /\ [Next]_vars => QueueIsSuffix'
<1> SUFFICES ASSUME TypeOK, QueueIsSuffix, [Next]_vars PROVE QueueIsSuffix'
  OBVIOUS
<1>0. /\ que_ \in Seq(Items) /\ hist \in Seq(Items)
      /\ gone \in Nat /\ Len(que_) \in Nat /\ Len(hist) \in Nat
      /\ gone + Len(que_) = Len(hist)
      /\ \A i \in 1 .. Len(que_) : que_[i] = hist[gone + i]
  BY DEF TypeOK, QueueIsSuffix
<1>1. ASSUME NEW p \in Producers, NEW v \in Items, Push(p, v)
      PROVE  QueueIsSuffix'
  <2>1. /\ Len(que_') = Len(que_) + 1
        /\ Len(hist') = Len(hist) + 1
        /\ gone' = gone
        /\ \A i \in 1 .. Len(que_) : que_'[i] = que_[i]
        /\ \A i \in 1 .. Len(hist) : hist'[i] = hist[i]
        /\ que_'[Len(que_) + 1] = v /\ hist'[Len(hist) + 1] = v
    BY <1>0, <1>1 DEF Push
  <2>2. gone' + Len(que_') = Len(hist')
    BY <1>0, <2>1
  <2>3. ASSUME NEW i \in 1 .. Len(que_')
        PROVE  que_'[i] = hist'[gone' + i]
    <3>1. CASE i \in 1 .. Len(que_)
      <4>1. gone + i \in 1 .. Len(hist)
        BY <1>0, <3>1
      <4> QED
        BY <1>0, <2>1, <3>1, <4>1
    <3>2. CASE i = Len(que_) + 1
      BY <1>0, <2>1, <3>2
    <3> QED
      BY <1>0, <2>1, <3>1, <3>2
  <2> QED
    BY <2>2, <2>3 DEF QueueIsSuffix
<1>2. ASSUME NEW p \in Producers, Clear(p)
      PROVE  QueueIsSuffix'
  BY <1>0, <1>2 DEF Clear, QueueIsSuffix
<1>3. ASSUME NEW c \in Consumers, TakeOrWait(c)
      PROVE  QueueIsSuffix'
  <2>1. CASE que_ # <<>> /\ Take(c)
    <3>1. /\ que_' = Tail(que_) /\ hist' = hist /\ gone' = gone + 1
          /\ Len(que_') = Len(que_) - 1
          /\ \A i \in 1 .. Len(que_') : que_'[i] = que_[i + 1]
      BY <1>0, <2>1 DEF Take
    <3>2. gone' + Len(que_') = Len(hist')
      <4>1. /\ Len(que_') = Len(que_) - 1 /\ gone' = gone + 1
            /\ Len(hist') = Len(hist)
        BY <3>1
      <4> QED
        BY <1>0, <4>1
    <3>3. ASSUME NEW i \in 1 .. Len(que_')
          PROVE  que_'[i] = hist'[gone' + i]
      <4>1. i + 1 \in 1 .. Len(que_) /\ gone + (i + 1) = gone' + i
        BY <1>0, <3>1
      <4> QED
        BY <1>0, <3>1, <4>1
    <3> QED
      BY <3>2, <3>3 DEF QueueIsSuffix
  <2>2. CASE que_ = <<>> /\ Sleep(c)
    BY <2>2 DEF Sleep, QueueIsSuffix
  <2> QED
    BY <1>3, <2>1, <2>2 DEF TakeOrWait
<1>4. CASE UNCHANGED <<que_, hist, gone>>
  BY <1>4 DEF QueueIsSuffix
<1> QED
  BY <1>1, <1>2, <1>3, <1>4
  DEF Next, Begin, Resume, NotifyOne, ReturnFalse, Expire, SpuriousWakeup, vars

(* What pop and try_pop have not removed is in the container, in the order *)
(* of the pushes.                                                          *)
THEOREM SuffixCorrect == Spec => []QueueIsSuffix
<1>1. Init => QueueIsSuffix
  BY DEF Init, QueueIsSuffix
<1> QED
  BY <1>1, SuffixStep, TypeCorrect, PTL DEF Spec

-----------------------------------------------------------------------------
(* Only wait_for watches the clock: a consumer in pop is never late.       *)
PoppersNeverLate == \A c \in Poppers : ~late[c]

(* The sets of threads that wait, are awake or have to notify are finite,  *)
(* so that their cardinalities add up as NoLostWakeup needs.               *)
LEMMA FiniteThreadSets ==
  /\ IsFiniteSet(Notifying) /\ Cardinality(Notifying) \in Nat
  /\ IsFiniteSet(Awake) /\ Cardinality(Awake) \in Nat
<1>1. Notifying \in SUBSET Producers /\ Awake \in SUBSET Consumers
  BY DEF Notifying, Awake
<1>2. IsFiniteSet(Notifying) /\ IsFiniteSet(Awake)
  BY <1>1, FS_Subset, ThreadsAssumption
<1> QED
  BY <1>2, FS_CardinalityType

(* No step loses a wakeup: a push adds a value and a producer that will    *)
(* notify, notify_one turns that producer's duty into a woken consumer, an *)
(* awake consumer goes to sleep only on an empty container, and a try_pop  *)
(* that returns false is called again.                                     *)
LEMMA WakeupStep ==
  TypeOK /\ PoppersNeverLate /\ NoLostWakeup /\ [Next]_vars
    => (PoppersNeverLate /\ NoLostWakeup)'
<1> SUFFICES ASSUME TypeOK, PoppersNeverLate, NoLostWakeup, [Next]_vars
             PROVE  PoppersNeverLate' /\ NoLostWakeup'
  OBVIOUS
<1>a. que_ \in Seq(Items) /\ Len(que_) \in Nat
  BY DEF TypeOK
<1>b. PoppersNeverLate'
  BY ThreadsAssumption
  DEF TypeOK, PoppersNeverLate, Consumers, Next, vars, Push, NotifyOne, Clear,
      Begin, Resume, TakeOrWait, Take, Sleep, ReturnFalse, Expire, SpuriousWakeup
<1>c. ASSUME UNCHANGED pc
      PROVE  Waiting' = Waiting /\ Awake' = Awake /\ Notifying' = Notifying
  BY <1>c DEF Waiting, Awake, Notifying
<1>d. ASSUME NEW c \in Consumers, UNCHANGED que_,
             pc[c] = "waiting" \/ pc[c] = "woken",
             pc' = [pc EXCEPT ![c] = "woken"]
      PROVE  NoLostWakeup'
  <2>1. Notifying' = Notifying /\ Awake' = Awake \cup {c}
    BY <1>d, ThreadsAssumption DEF TypeOK, Notifying, Awake
  <2>2. Waiting' \subseteq Waiting
    BY <1>d DEF TypeOK, Waiting
  <2>3. Cardinality(Awake') >= Cardinality(Awake) /\ Cardinality(Awake') \in Nat
    <3>1. Cardinality(Awake') = IF c \in Awake THEN Cardinality(Awake)
                                               ELSE Cardinality(Awake) + 1
      BY <2>1, FiniteThreadSets, FS_AddElement
    <3> QED
      BY <3>1, FiniteThreadSets
  <2> QED
    BY <1>a, <1>d, <2>1, <2>2, <2>3, FiniteThreadSets DEF NoLostWakeup
<1>1. ASSUME NEW p \in Producers, NEW v \in Items, Push(p, v)
      PROVE  NoLostWakeup'
  <2>1. Notifying' = Notifying \cup {p} /\ p \notin Notifying
    BY <1>1 DEF Push, TypeOK, Notifying
  <2>2. Waiting' = Waiting /\ Awake' = Awake
    BY <1>1, ThreadsAssumption DEF Push, TypeOK, Waiting, Awake
  <2>3. Cardinality(Notifying') = Cardinality(Notifying) + 1
    BY <2>1, FiniteThreadSets, FS_AddElement
  <2>4. Len(que_') = Len(que_) + 1
    BY <1>1, <1>a DEF Push
  <2> QED
    BY <1>a, <2>2, <2>3, <2>4, FiniteThreadSets DEF NoLostWakeup
<1>2. ASSUME NEW p \in Producers, NotifyOne(p)
      PROVE  NoLostWakeup'
  <2>1. CASE Waiting = {} /\ pc' = [pc EXCEPT ![p] = "idle"]
    <3>1. Waiting' = {}
      BY <2>1, ThreadsAssumption DEF TypeOK, Waiting
    <3> QED
      BY <3>1 DEF NoLostWakeup
  <2>2. ASSUME NEW c \in Waiting, pc' = [pc EXCEPT ![p] = "idle", ![c] = "woken"]
        PROVE  NoLostWakeup'
    <3>1. c \in Consumers /\ pc[c] = "waiting" /\ p # c
      BY <2>2, ThreadsAssumption DEF Waiting
    <3>2. Notifying' = Notifying \ {p} /\ p \in Notifying
      BY <1>2, <2>2, <3>1, ThreadsAssumption DEF NotifyOne, TypeOK, Notifying
    <3>3. Awake' = Awake \cup {c} /\ c \notin Awake
      BY <2>2, <3>1, ThreadsAssumption DEF TypeOK, Awake
    <3>4. Cardinality(Notifying') = Cardinality(Notifying) - 1
      BY <3>2, FiniteThreadSets, FS_RemoveElement
    <3>5. Cardinality(Awake') = Cardinality(Awake) + 1
      BY <3>3, FiniteThreadSets, FS_AddElement
    <3>6. Waiting # {} /\ que_' = que_
      BY <1>2, <2>2 DEF NotifyOne
    <3> QED
      BY <1>a, <3>4, <3>5, <3>6, FiniteThreadSets DEF NoLostWakeup
  <2> QED
    BY <1>2, <2>1, <2>2 DEF NotifyOne
<1>3. ASSUME NEW p \in Producers, Clear(p)
      PROVE  NoLostWakeup'
  <2>1. Len(que_') = 0
    BY <1>3 DEF Clear
  <2>2. Awake' = Awake /\ Notifying' = Notifying
    BY <1>3, <1>c DEF Clear
  <2> QED
    BY <2>1, <2>2, FiniteThreadSets DEF NoLostWakeup
<1>4. ASSUME NEW c \in Consumers, pc[c] \in {"idle", "woken"}, TakeOrWait(c)
      PROVE  NoLostWakeup'
  <2>1. CASE que_ = <<>> /\ Sleep(c)
    <3>1. Len(que_') = 0
      BY <2>1 DEF Sleep
    <3>2. Notifying' = Notifying /\ Awake' = Awake \ {c}
      BY <2>1, ThreadsAssumption DEF Sleep, TypeOK, Notifying, Awake
    <3>3. Cardinality(Awake') \in Nat
      BY <3>2, FiniteThreadSets, FS_RemoveElement, FS_CardinalityType
    <3> QED
      BY <3>1, <3>2, <3>3, FiniteThreadSets DEF NoLostWakeup
  <2>2. CASE que_ # <<>> /\ Take(c)
    <3>1. Len(que_') = Len(que_) - 1
      BY <1>a, <2>2 DEF Take
    <3>2. /\ Notifying' = Notifying /\ Waiting' \subseteq Waiting
      BY <2>2, ThreadsAssumption DEF Take, TypeOK, Notifying, Waiting
    <3>4. CASE c \in TryPoppers
      <4>1. Awake' = Awake
        BY <1>4, <2>2, <3>4 DEF Take, TypeOK, Awake
      <4> QED
        BY <1>a, <3>1, <3>2, <4>1, FiniteThreadSets DEF NoLostWakeup
    <3>5. CASE c \notin TryPoppers
      <4>1. Awake' = Awake \ {c}
        BY <2>2, <3>5 DEF Take, TypeOK, Awake
      <4>2. Cardinality(Awake') \in Nat /\ Cardinality(Awake') >= Cardinality(Awake) - 1
        <5>1. Cardinality(Awake') = IF c \in Awake THEN Cardinality(Awake) - 1
                                                   ELSE Cardinality(Awake)
          BY <4>1, FiniteThreadSets, FS_RemoveElement
        <5>2. IsFiniteSet(Awake')
          BY <4>1, FiniteThreadSets, FS_RemoveElement
        <5>3. Cardinality(Awake') \in Nat
          BY <5>2, FS_CardinalityType
        <5> QED
          BY <5>1, <5>3, FiniteThreadSets
      <4> QED
        BY <1>a, <3>1, <3>2, <4>2, FiniteThreadSets DEF NoLostWakeup
    <3> QED
      BY <3>4, <3>5
  <2> QED
    BY <1>4, <2>1, <2>2 DEF TakeOrWait
<1>5. ASSUME NEW c \in Consumers, ReturnFalse(c)
      PROVE  NoLostWakeup'
  <2>1. c \in TryPoppers
    BY <1>5 DEF ReturnFalse, PoppersNeverLate, Consumers
  <2>2. Notifying' = Notifying /\ Awake' = Awake /\ Waiting' = Waiting
    BY <1>5, <2>1, ThreadsAssumption
    DEF ReturnFalse, TypeOK, Notifying, Awake, Waiting, Consumers
  <2>3. que_' = que_
    BY <1>5 DEF ReturnFalse
  <2> QED
    BY <2>2, <2>3 DEF NoLostWakeup
<1>6. ASSUME NEW c \in Consumers, Expire(c)
      PROVE  NoLostWakeup'
  BY <1>6, <1>d DEF Expire
<1>7. ASSUME NEW c \in Consumers, SpuriousWakeup(c)
      PROVE  NoLostWakeup'
  BY <1>7, <1>d DEF SpuriousWakeup
<1>8. CASE UNCHANGED vars
  <2>1. UNCHANGED pc /\ que_' = que_
    BY <1>8 DEF vars
  <2>2. Waiting' = Waiting /\ Awake' = Awake /\ Notifying' = Notifying
    BY <2>1, <1>c
  <2> QED
    BY <1>b, <2>1, <2>2 DEF NoLostWakeup
<1> QED
  BY <1>b, <1>1, <1>2, <1>3, <1>4, <1>5, <1>6, <1>7, <1>8 DEF Next, Begin, Resume

(* The two together are an invariant.                                      *)
LEMMA WakeupInvariant == Spec => [](PoppersNeverLate /\ NoLostWakeup)
<1>1. Init => PoppersNeverLate /\ NoLostWakeup
  <2> SUFFICES ASSUME Init PROVE PoppersNeverLate /\ NoLostWakeup
    OBVIOUS
  <2>1. PoppersNeverLate /\ Waiting = {}
    BY DEF Init, PoppersNeverLate, Waiting, Consumers
  <2> QED
    BY <2>1 DEF NoLostWakeup
<1>2. TypeOK /\ (PoppersNeverLate /\ NoLostWakeup) /\ [Next]_vars
        => (PoppersNeverLate /\ NoLostWakeup)'
  BY WakeupStep
<1> QED
  BY <1>1, <1>2, TypeCorrect, PTL DEF Spec

(* zqueue loses no wakeup, although push notifies after it has released    *)
(* mutex_ and try_pop may use up a notification and return false.          *)
THEOREM WakeupCorrect == Spec => []NoLostWakeup
BY WakeupInvariant, PTL

-----------------------------------------------------------------------------
(* Who is blocked changes with the position of the consumer that moves.    *)
LEMMA BlockedChanges ==
  ASSUME TypeOK, NEW c \in Consumers, NEW l, pc' = [pc EXCEPT ![c] = l]
  PROVE  /\ l = "idle" => Blocked' = Blocked \ {c}
         /\ l # "idle" => Blocked' = Blocked \cup {c}
         /\ c \in Blocked <=> pc[c] # "idle"
<1>1. pc'[c] = l /\ \A d \in Consumers \ {c} : pc'[d] = pc[d]
  BY DEF TypeOK
<1> QED
  BY <1>1 DEF Blocked

(* zqueue implements the abstract first-in first-out queue: a push is a    *)
(* Put, a successful pop or try_pop a Get of the oldest value, a clear a   *)
(* Flush, the first wait of a call a Block, the false return of try_pop a  *)
(* GiveUp, and every other step of the code a stutter.                     *)
THEOREM FifoRefinement == Spec => IsFifo
<1>1. Init => Fifo!Init
  BY DEF Init, Fifo!Init, Blocked, Consumers
<1>2. TypeOK /\ QueueIsSuffix /\ PoppersNeverLate /\ [Next]_vars
        => [Fifo!Next]_(Fifo!fifoVars)
  <2> SUFFICES ASSUME TypeOK, QueueIsSuffix, PoppersNeverLate, [Next]_vars
               PROVE  [Fifo!Next]_(Fifo!fifoVars)
    OBVIOUS
  <2>a. Len(que_) \in Nat /\ Len(hist) \in Nat /\ gone \in Nat
        /\ (que_ = <<>> <=> Len(que_) = 0)
    BY DEF TypeOK
  <2>b. ASSUME NEW p \in Producers, NEW l, pc' = [pc EXCEPT ![p] = l]
        PROVE  Blocked' = Blocked
    BY <2>b, ThreadsAssumption DEF TypeOK, Blocked
  <2>1. ASSUME NEW p \in Producers, NEW v \in Items, Push(p, v)
        PROVE  Fifo!Put(v)
    BY <2>1, <2>b DEF Push, Fifo!Put
  <2>2. ASSUME NEW p \in Producers, Clear(p)
        PROVE  Fifo!Flush
    BY <2>2 DEF Clear, Fifo!Flush, Blocked
  <2>3. ASSUME NEW c \in Consumers, que_ # <<>>, Take(c)
        PROVE  Fifo!Get(c)
    <3>1. Len(que_) \in Nat \ {0} /\ Len(hist) \in Nat /\ Head(que_) = que_[1]
      BY <2>3 DEF TypeOK
    <3>2. gone < Len(hist) /\ Head(que_) = hist[gone + 1]
      BY <3>1 DEF TypeOK, QueueIsSuffix
    <3>3. Blocked' = Blocked \ {c}
      BY <2>3, BlockedChanges DEF Take
    <3> QED
      BY <2>3, <3>2, <3>3 DEF Take, Fifo!Get
  <2>4. ASSUME NEW c \in Consumers, que_ = <<>>, Sleep(c)
        PROVE  Fifo!Block(c) \/ UNCHANGED Fifo!fifoVars
    <3>1. gone = Len(hist)
      BY <2>4, <2>a DEF QueueIsSuffix
    <3>2. Blocked' = Blocked \cup {c}
      <4>1. pc' = [pc EXCEPT ![c] = "waiting"] /\ "waiting" # "idle"
        BY <2>4 DEF Sleep
      <4> QED
        BY <4>1, BlockedChanges
    <3> QED
      BY <2>4, <3>1, <3>2 DEF Sleep, Fifo!Block, Fifo!fifoVars
  <2>5. ASSUME NEW c \in Consumers, ReturnFalse(c)
        PROVE  Fifo!GiveUp(c)
    <3>1. c \in TryPoppers
      BY <2>5 DEF ReturnFalse, PoppersNeverLate, Consumers
    <3>2. Blocked' = Blocked \ {c} /\ c \in Blocked
      BY <2>5, BlockedChanges DEF ReturnFalse
    <3> QED
      BY <2>5, <3>1, <3>2 DEF ReturnFalse, Fifo!GiveUp
  <2>6. ASSUME NEW c \in Consumers, Expire(c) \/ SpuriousWakeup(c)
        PROVE  UNCHANGED Fifo!fifoVars
    <3>1. c \in Blocked /\ Blocked' = Blocked \cup {c}
      BY <2>6, BlockedChanges DEF Expire, SpuriousWakeup
    <3> QED
      BY <2>6, <3>1 DEF Expire, SpuriousWakeup, Fifo!fifoVars
  <2>7. ASSUME NEW p \in Producers, NotifyOne(p)
        PROVE  UNCHANGED Fifo!fifoVars
    <3>1. CASE pc' = [pc EXCEPT ![p] = "idle"]
      BY <2>7, <2>b, <3>1 DEF NotifyOne, Fifo!fifoVars
    <3>2. ASSUME NEW c \in Waiting, pc' = [pc EXCEPT ![p] = "idle", ![c] = "woken"]
          PROVE  Blocked' = Blocked
      <4>1. c \in Consumers /\ pc[c] = "waiting" /\ p \notin Consumers
        BY ThreadsAssumption DEF Waiting
      <4>2. pc'[c] = "woken" /\ \A d \in Consumers \ {c} : pc'[d] = pc[d]
        BY <3>2, <4>1 DEF TypeOK
      <4> QED
        BY <4>1, <4>2 DEF Blocked
    <3> QED
      BY <2>7, <3>1, <3>2 DEF NotifyOne, Fifo!fifoVars
  <2>8. CASE UNCHANGED vars
    BY <2>8 DEF vars, Blocked, Fifo!fifoVars
  <2>9. ASSUME NEW c \in Consumers, TakeOrWait(c)
        PROVE  [Fifo!Next]_(Fifo!fifoVars)
    BY <2>3, <2>4, <2>9 DEF TakeOrWait, Fifo!Next
  <2> QED
    BY <2>1, <2>2, <2>5, <2>6, <2>7, <2>8, <2>9 DEF Next, Begin, Resume, Fifo!Next
<1> QED
  BY <1>1, <1>2, TypeCorrect, SuffixCorrect, WakeupInvariant, PTL DEF Spec, IsFifo, Fifo!Spec

-----------------------------------------------------------------------------
(* Every collection that has passed gc_start is still counted, or worker   *)
(* has cleared the count once for it and those before.                     *)
LegacyCounted ==
  gc_count + traced + (IF worker = "trace" THEN 1 ELSE 0)
    <= gcs - (IF vmThread = "enter" THEN 1 ELSE 0)

LegacyInv ==
  /\ LegacyTypeOK /\ LegacyCounted
  /\ phase \in {"start", "loaded"} => worker = "off"

(* The earlier agent's invariant holds when the library is loaded, *)
LEMMA LegacyStart == LegacyInit => LegacyInv
<1> SUFFICES ASSUME LegacyInit PROVE LegacyInv
  OBVIOUS
<1>1. lock = (worker = "trace") /\ terminated \in BOOLEAN
  BY Zenon DEF LegacyInit
<1> QED
  BY <1>1, MaxGcAssumption DEF LegacyInit, LegacyTypeOK, LegacyInv, LegacyCounted

(* and every step of the VM thread and of worker preserves it.             *)
LEMMA LegacyStep == LegacyInv /\ [LegacyNext]_legacyVars => LegacyInv'
<1> SUFFICES ASSUME LegacyInv, [LegacyNext]_legacyVars PROVE LegacyInv'
  OBVIOUS
<1> USE MaxGcAssumption DEF LegacyInv, LegacyTypeOK, LegacyCounted
<1>1. CASE Load
  BY <1>1 DEF Load
<1>2. CASE VmInit
  BY <1>2 DEF VmInit, Started
<1>3. CASE GcBegin
  BY <1>3 DEF GcBegin
<1>4. CASE GcStart
  BY <1>4 DEF GcStart
<1>5. CASE GcFinish
  BY <1>5 DEF GcFinish
<1>6. CASE WorkerEnter
  <2>1. CASE gc_count = 0 /\ worker' = "waiting" /\ UNCHANGED <<lock, gc_count>>
    BY <1>6, <2>1 DEF WorkerEnter
  <2>2. CASE gc_count > 0 /\ worker' = "trace" /\ lock' = TRUE /\ gc_count' = 0
    <3>1. lock' = (worker' = "trace")
      BY <2>2, Zenon
    <3> QED
      BY <1>6, <2>2, <3>1 DEF WorkerEnter
  <2> QED
    BY <1>6, <2>1, <2>2 DEF WorkerEnter
<1>7. CASE WorkerTrace
  <2>1. worker' = "enter" /\ lock' = FALSE
    BY <1>7 DEF WorkerTrace
  <2>2. worker' # "trace"
    BY <2>1
  <2>3. lock' = (worker' = "trace")
    BY <2>1, <2>2, Zenon
  <2> QED
    BY <1>7, <2>1, <2>3 DEF WorkerTrace
<1>8. CASE TraceThrows
  BY <1>8 DEF TraceThrows
<1>9. CASE WaitSpurious
  BY <1>9 DEF WaitSpurious
<1>10. CASE WaitFails
  BY <1>10 DEF WaitFails
<1>11. CASE UNCHANGED legacyVars
  BY <1>11 DEF legacyVars
<1> QED
  BY <1>1, <1>2, <1>3, <1>4, <1>5, <1>6, <1>7, <1>8, <1>9, <1>10, <1>11
  DEF LegacyNext, WorkerStep

(* The raw monitor is held between steps exactly while worker traces, and  *)
(* worker takes no more traces than there were collections.                *)
THEOREM LegacyTypeCorrect == LegacySpec => []LegacyTypeOK
<1>1. LegacyInv => LegacyTypeOK
  BY DEF LegacyInv
<1> QED
  BY <1>1, LegacyStart, LegacyStep, PTL DEF LegacySpec

(* A collection that begins while worker traces with lock held leaves the  *)
(* two waiting for each other for good, and the agent takes no step any    *)
(* more: gc_start needs lock and GetAllStackTraces the VM thread.          *)
THEOREM LegacyDeadlockStays ==
  LegacySpec => [](Deadlocked => []Deadlocked) /\ [][~Deadlocked]_legacyVars
<1>1. LegacyInv /\ [LegacyNext]_legacyVars => [~Deadlocked]_legacyVars
  <2> SUFFICES ASSUME LegacyInv, LegacyNext, Deadlocked PROVE FALSE
    BY DEF legacyVars
  <2>1. lock /\ worker = "trace" /\ vmThread = "enter" /\ phase \notin {"start", "loaded"}
    BY DEF LegacyInv, LegacyTypeOK, Deadlocked
  <2> QED
    BY <2>1 DEF LegacyNext, WorkerStep, Load, VmInit, GcBegin, GcStart, GcFinish,
                WorkerEnter, WorkerTrace, TraceThrows, WaitSpurious, WaitFails
<1>2. Deadlocked /\ [~Deadlocked]_legacyVars => Deadlocked'
  BY DEF Deadlocked, legacyVars
<1> QED
  BY <1>1, <1>2, LegacyStart, LegacyStep, PTL DEF LegacySpec
=============================================================================

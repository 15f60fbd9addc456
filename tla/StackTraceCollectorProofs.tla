--------------------- MODULE StackTraceCollectorProofs ---------------------
(***************************************************************************)
(* Theorems about Collect, for any number of threads, any stacks and any   *)
(* number of calls: its types, that it returns its descriptors, that a     *)
(* Collect that succeeds leaves no handler behind, and that what it        *)
(* returns is the truth.                                                   *)
(***************************************************************************)
EXTENDS StackTraceCollector, StackGroupingProofs

(* What the theorems assume of the constants. *)
Constants ==
  /\ Threads \subseteq Nat /\ IsFiniteSet(Threads) /\ 0 \notin Addrs
  /\ kMaxDepth \in Nat /\ MaxRounds \in Nat
  /\ \A t \in Threads : Stacks[t] \subseteq Seq(Nat)

Form == [tid : Threads \cup {-1}, trace : Seq(Nat)]

(* Types, with those of the frames. *)
Types ==
  /\ alive \subseteq Threads /\ todo \subseteq Threads
  /\ cpc \in {"idle", "signal", "ack"}
  /\ formOf \in [Threads -> Addrs \cup {NoAddr}]
  /\ heap \in [Addrs -> Form] /\ \A a \in Addrs : Len(heap[a].trace) <= kMaxDepth
  /\ sigs \in [Threads -> Seq(Addrs)]
  /\ at \in [Threads -> Addrs \cup {NoAddr}]
  /\ rest \in [Threads -> Seq(Nat)]
  /\ ackPipe \in Nat /\ acks \in Nat

(* Between two calls the forms are freed and no ack is about. *)
Tidy ==
  /\ \A a \in Addrs : heap[a] # Free => \E t \in Threads : formOf[t] = a
  /\ \A t \in todo : formOf[t] = NoAddr
  /\ cpc = "idle" => /\ \A t \in Threads : formOf[t] = NoAddr
                     /\ acks = 0 /\ ackPipe = 0

(* The descriptors of the running call, those of its DEFERs. *)
FilesKnown ==
  /\ round \in 0 .. MaxRounds /\ unset \in Nat
  /\ cpc = "idle" => closes = 0 /\ fds = unset /\ unset <= round
  /\ cpc = "signal" => closes = 2 /\ fds = unset + 2 /\ unset < round
  /\ cpc = "ack" => closes = 3 /\ fds = unset + 3 /\ unset < round

Flags == fired \in BOOLEAN /\ forsaken \in BOOLEAN
         /\ result.status \in {"none", "ok", "failed"} /\ result.error \in BOOLEAN

-----------------------------------------------------------------------------
(* The forms and acks after a return of Collect. *)
LEMMA ReturnFacts ==
  ASSUME Constants, Types, Tidy, NEW status, NEW groups, NEW error, NEW n,
         Return(status, groups, error, n)
  PROVE  Types' /\ Tidy'
<1>1. /\ cpc' = "idle" /\ formOf' = [t \in Threads |-> NoAddr] /\ todo' = {}
      /\ heap' = [a \in Addrs |-> IF \E t \in slot : formOf[t] = a THEN Free ELSE heap[a]]
      /\ ackPipe' = 0 /\ acks' = 0 /\ UNCHANGED <<alive, sigs, at, rest>>
  BY DEF Return, handlers
<1>2. Free \in Form /\ Free.trace = <<>> /\ Len(<<>>) = 0
  BY DEF Free, Form
<1>3. heap' \in [Addrs -> Form] /\ \A a \in Addrs : Len(heap'[a].trace) <= kMaxDepth
  BY <1>1, <1>2 DEF Types, Constants
<1>4. Types'
  BY <1>1, <1>3 DEF Types
<1>5. \A a \in Addrs : heap'[a] = Free
  BY <1>1 DEF Tidy, slot, Constants, NoAddr
<1> QED
  BY <1>1, <1>4, <1>5 DEF Tidy

(* Each step keeps the types, and every form that is not free in slot. *)
LEMMA BaseStep ==
  ASSUME Constants, Types, Tidy, [Next]_vars
  PROVE  Types' /\ Tidy'
<1>1. CASE Start \/ StartNoPipe
  BY <1>1 DEF Start, StartNoPipe, Types, Tidy, handlers, counting
<1>2. ASSUME NEW t \in Threads, NEW a \in Addrs, Signal(t, a)
      PROVE  Types' /\ Tidy'
  <2>1. /\ heap' = [heap EXCEPT ![a] = [tid |-> t, trace |-> <<>>]]
        /\ formOf' = [formOf EXCEPT ![t] = a]
        /\ sigs' = [sigs EXCEPT ![t] = Append(@, a)] /\ todo' = todo \ {t}
        /\ heap[a] = Free /\ cpc = "signal"
        /\ UNCHANGED <<alive, cpc, at, rest, ackPipe, acks>>
    BY <1>2 DEF Signal, counting
  <2>2. [tid |-> t, trace |-> <<>>] \in Form /\ Len(<<>>) = 0
    BY DEF Form
  <2>3. heap' \in [Addrs -> Form] /\ \A b \in Addrs : Len(heap'[b].trace) <= kMaxDepth
    BY <2>1, <2>2 DEF Types, Constants
  <2>4. Types'
    BY <2>1, <2>3 DEF Types
  <2>5. ASSUME NEW b \in Addrs, heap'[b] # Free
        PROVE  \E u \in Threads : formOf'[u] = b
    <3>1. CASE b = a
      BY <2>1, <3>1 DEF Types
    <3>2. CASE b # a
      <4>1. heap[b] # Free
        BY <2>1, <2>5, <3>2 DEF Types
      <4>2. PICK u \in Threads : formOf[u] = b
        BY <4>1 DEF Tidy
      <4>3. CASE u # t
        BY <2>1, <4>2, <4>3 DEF Types
      <4>4. CASE u = t
        BY <1>2, <4>2, <4>4 DEF Signal, IsNext, Tidy, Constants, NoAddr
      <4> QED
        BY <4>3, <4>4
    <3> QED
      BY <3>1, <3>2
  <2>6. \A u \in todo' : formOf'[u] = NoAddr
    BY <2>1 DEF Tidy, Types
  <2> QED
    BY <2>1, <2>4, <2>5, <2>6 DEF Tidy
<1>3. ASSUME NEW t \in Threads, SignalFails(t) PROVE Types' /\ Tidy'
  BY <1>3 DEF SignalFails, Types, Tidy, handlers, counting
<1>4. CASE ArmTimer
  BY <1>4 DEF ArmTimer, Types, Tidy, handlers, counting
<1>5. CASE CreateFails \/ SettimeFails \/ TimeOut \/ Finish
  BY <1>5, ReturnFacts, Zenon DEF CreateFails, SettimeFails, TimeOut, Finish
<1>6. CASE TimerFires \/ ReadAck
  BY <1>6 DEF TimerFires, ReadAck, Types, Tidy, handlers
<1>7. ASSUME NEW t \in Threads, NEW s \in Stacks[t], HandlerStarts(t, s) PROVE Types' /\ Tidy'
  BY <1>7 DEF HandlerStarts, Constants, Types, Tidy, counting
<1>8. ASSUME NEW t \in Threads, HandlerFails(t) PROVE Types' /\ Tidy'
  BY <1>8 DEF HandlerFails, Types, Tidy, counting
<1>9. ASSUME NEW t \in Threads, AddAddress(t) PROVE Types' /\ Tidy'
  <2>1. /\ at[t] \in Addrs /\ rest[t] # <<>> /\ Len(heap[at[t]].trace) < kMaxDepth
        /\ rest' = [rest EXCEPT ![t] = Tail(@)]
        /\ heap' = IF heap[at[t]] = Free THEN heap
                   ELSE [heap EXCEPT ![at[t]].trace = Append(@, Head(rest[t]))]
        /\ UNCHANGED <<alive, cpc, todo, formOf, sigs, at, ackPipe, acks>>
    BY <1>9 DEF AddAddress, Full, Types, Constants, Form, counting
  <2>2. heap' \in [Addrs -> Form] /\ \A b \in Addrs : Len(heap'[b].trace) <= kMaxDepth
    <3> DEFINE a == at[t]
               tr == Append(heap[a].trace, Head(rest[t]))
    <3>1. heap[a] \in Form /\ heap[a].trace \in Seq(Nat) /\ Head(rest[t]) \in Nat
      BY <2>1 DEF Types, Form
    <3>2. tr \in Seq(Nat) /\ Len(tr) <= kMaxDepth
      BY <2>1, <3>1 DEF Constants
    <3> HIDE DEF tr
    <3>3. [heap[a] EXCEPT !.trace = tr] \in Form /\ [heap[a] EXCEPT !.trace = tr].trace = tr
      BY <3>1, <3>2, Zenon DEF Form
    <3>4. heap' = heap \/ heap' = [heap EXCEPT ![a] = [heap[a] EXCEPT !.trace = tr]]
      BY <2>1 DEF tr
    <3> QED
      BY <2>1, <3>2, <3>3, <3>4, Zenon DEF Types
  <2>3. Types'
    BY <2>1, <2>2 DEF Types
  <2>4. \A b \in Addrs : heap'[b] # Free => heap[b] # Free
    BY <2>1 DEF Types
  <2> QED
    BY <2>1, <2>3, <2>4 DEF Tidy
<1>10. ASSUME NEW t \in Threads, Submit(t) PROVE Types' /\ Tidy'
  <2>1. /\ at[t] \in Addrs
        /\ at' = [at EXCEPT ![t] = NoAddr] /\ rest' = [rest EXCEPT ![t] = <<>>]
        /\ ackPipe' = IF heap[at[t]] = Free THEN ackPipe ELSE ackPipe + 1
        /\ UNCHANGED <<alive, cpc, todo, formOf, heap, sigs, acks>>
    BY <1>10 DEF Submit, Types
  <2>2. Types'
    BY <2>1 DEF Types
  <2>3. cpc = "idle" => ackPipe' = 0
    BY <2>1 DEF Tidy, Types, Constants, NoAddr
  <2> QED
    BY <2>1, <2>2, <2>3 DEF Tidy
<1>11. ASSUME NEW t \in Threads, Die(t) PROVE Types' /\ Tidy'
  BY <1>11 DEF Die, Types, Tidy, counting
<1>12. CASE UNCHANGED vars
  BY <1>12 DEF vars, Types, Tidy
<1> QED
  BY <1>1, <1>2, <1>3, <1>4, <1>5, <1>6, <1>7, <1>8, <1>9, <1>10, <1>11, <1>12
  DEF Next, CollectorStep, OpensTimer, HandlerStep

(* The DEFERs close what the call has opened, the timer of a               *)
(* timerfd_settime that failed excepted.                                   *)
LEMMA FilesStep ==
  ASSUME Constants, FilesKnown, [Next]_vars
  PROVE  FilesKnown'
<1> USE DEF FilesKnown
<1>1. CASE Start
  BY <1>1 DEF Start, Constants
<1>2. CASE StartNoPipe
  BY <1>2 DEF StartNoPipe, files
<1>3. CASE (\E t \in Threads : SignalFails(t) \/ \E a \in Addrs : Signal(t, a)) \/ TimerFires \/ ReadAck
  BY <1>3 DEF Signal, SignalFails, TimerFires, ReadAck, files
<1>4. CASE ArmTimer
  BY <1>4 DEF ArmTimer
<1>5. CASE CreateFails \/ TimeOut \/ Finish
  BY <1>5 DEF CreateFails, TimeOut, Finish, Return
<1>6. CASE SettimeFails
  BY <1>6 DEF SettimeFails, Return
<1>7. CASE \E t \in Threads : HandlerStep(t) \/ Die(t)
  BY <1>7 DEF HandlerStep, HandlerStarts, HandlerFails, AddAddress, Submit, Die, files
<1>8. CASE UNCHANGED vars
  BY <1>8 DEF vars
<1> QED
  BY <1>1, <1>2, <1>3, <1>4, <1>5, <1>6, <1>7, <1>8 DEF Next, CollectorStep, OpensTimer

-----------------------------------------------------------------------------
Answered == slot \ Outstanding

(* In a call that found no handler of an earlier one: a thread has at most *)
(* one signal or handler, of this call, and no more acks are about than    *)
(* threads that have been through theirs.                                  *)
CallCounted ==
  /\ Outstanding \subseteq slot
  /\ \A t \in Threads : at[t] # NoAddr => sigs[t] = <<>>
  /\ \A t \in Threads : Len(sigs[t]) <= 1
  /\ acks + ackPipe <= Cardinality(Answered)

Counted ==
  /\ cpc # "idle" => result.status = "none"
  /\ cpc # "idle" /\ ~forsaken => CallCounted
  /\ cpc = "idle" /\ ~forsaken /\ result.status = "ok" => Outstanding = {}

(* The sets of threads are finite, and grow by the thread that answers.    *)
LEMMA AnsweredFacts ==
  ASSUME Constants
  PROVE  /\ IsFiniteSet(slot) /\ IsFiniteSet(Answered)
         /\ Cardinality(Answered) \in Nat /\ Cardinality(slot) \in Nat
         /\ Cardinality(Answered) <= Cardinality(slot)
         /\ Cardinality(Answered) = Cardinality(slot) => Answered = slot
<1>1. slot \in SUBSET Threads /\ Answered \in SUBSET slot
  BY DEF slot, Answered
<1>2. IsFiniteSet(slot)
  BY <1>1, FS_Subset, Zenon DEF Constants
<1> HIDE DEF Constants
<1> QED
  BY <1>1, <1>2, FS_Subset, FS_CardinalityType

(* A thread that had a signal or a handler is through with it. *)
LEMMA OneAnswers ==
  ASSUME Constants, Types, CallCounted, NEW t \in Outstanding,
         Outstanding' = Outstanding \ {t}, formOf' = formOf
  PROVE  Cardinality(Answered') = Cardinality(Answered) + 1
<1>1. slot' = slot /\ t \in slot
  BY DEF slot, CallCounted
<1>2. Answered' = Answered \cup {t} /\ t \notin Answered
  BY <1>1 DEF Answered
<1> QED
  BY <1>2, AnsweredFacts, FS_AddElement, Zenon

(* Neither handlers nor forms nor the sum of the acks change. *)
LEMMA CountUnchanged ==
  ASSUME Types, CallCounted, UNCHANGED <<sigs, at, formOf>>,
         acks' + ackPipe' = acks + ackPipe
  PROVE  CallCounted'
<1>1. Outstanding' = Outstanding /\ slot' = slot /\ Answered' = Answered
  BY DEF Outstanding, slot, Answered
<1> QED
  BY <1>1 DEF CallCounted

(* A signal or handler ends: by its ack, or without one. *)
LEMMA CountAnswer ==
  ASSUME Constants, Types, CallCounted, NEW t \in Outstanding,
         Outstanding' = Outstanding \ {t}, formOf' = formOf, acks' = acks,
         ackPipe' \in {ackPipe, ackPipe + 1},
         \A u \in Threads : sigs'[u] \in {sigs[u], <<>>} /\ at'[u] \in {at[u], NoAddr}
  PROVE  CallCounted'
<1>1. Cardinality(Answered') = Cardinality(Answered) + 1 /\ Cardinality(Answered) \in Nat
  BY OneAnswers, AnsweredFacts
<1>2. slot' = slot
  BY DEF slot
<1>3. acks' + ackPipe' <= Cardinality(Answered')
  BY <1>1 DEF CallCounted, Types
<1> QED
  BY <1>2, <1>3 DEF CallCounted

(* Signal gives one more thread a form and a signal.                       *)
LEMMA CountSignal ==
  ASSUME Constants, Types, Tidy, CallCounted, NEW t \in Threads, NEW a \in Addrs, Signal(t, a)
  PROVE  CallCounted'
<1>1. /\ t \in todo /\ formOf[t] = NoAddr
      /\ formOf' = [formOf EXCEPT ![t] = a] /\ sigs' = [sigs EXCEPT ![t] = Append(@, a)]
      /\ UNCHANGED <<at, acks, ackPipe>> /\ a # NoAddr
  BY DEF Signal, IsNext, Tidy, counting, Constants, NoAddr
<1>2. t \notin slot /\ t \notin Outstanding
  BY <1>1 DEF slot, CallCounted
<1>3. sigs[t] = <<>> /\ at[t] = NoAddr
  BY <1>2 DEF Outstanding
<1>4. sigs'[t] = <<a>> /\ Len(<<a>>) = 1 /\ <<a>> # <<>>
  BY <1>1, <1>3 DEF Types
<1>5. slot' = slot \cup {t}
  BY <1>1 DEF slot, Types
<1>6. Outstanding' = Outstanding \cup {t}
  BY <1>1, <1>4 DEF Outstanding, Types
<1>7. Answered' = Answered
  BY <1>2, <1>5, <1>6 DEF Answered
<1> QED
  BY <1>1, <1>3, <1>4, <1>5, <1>6, <1>7 DEF CallCounted, Types

(* A sequence of one element. *)
LEMMA OneElement ==
  ASSUME NEW S, NEW s \in Seq(S), s # <<>>, Len(s) <= 1
  PROVE  Len(s) = 1 /\ Tail(s) = <<>> /\ Head(s) \in S
<1>1. Len(s) \in Nat /\ Len(s) # 0
  BY EmptySeq, LenProperties
<1>2. Tail(s) \in Seq(S) /\ Len(Tail(s)) = Len(s) - 1 /\ Head(s) \in S
  BY HeadTailProperties, Zenon
<1>3. Len(s) = 1 /\ Len(Tail(s)) = 0
  BY <1>1, <1>2
<1> QED
  BY <1>2, <1>3, EmptySeq, Zenon

(* A handler begins: its thread's one signal becomes its running handler.  *)
LEMMA CountStarts ==
  ASSUME Constants, Types, CallCounted, NEW t \in Threads, NEW s, HandlerStarts(t, s)
  PROVE  CallCounted'
<1>1. /\ sigs[t] # <<>> /\ at[t] = NoAddr /\ at' = [at EXCEPT ![t] = Head(sigs[t])]
      /\ sigs' = [sigs EXCEPT ![t] = Tail(@)] /\ UNCHANGED <<formOf, acks, ackPipe>>
      /\ sigs[t] \in Seq(Addrs)
  BY DEF HandlerStarts, counting, Types
<1>2. Len(sigs[t]) = 1 /\ Tail(sigs[t]) = <<>> /\ Head(sigs[t]) \in Addrs /\ Len(<<>>) = 0
  BY <1>1, OneElement DEF CallCounted
<1>3. at'[t] # NoAddr /\ sigs'[t] = <<>>
  BY <1>1, <1>2 DEF Types, Constants, NoAddr
<1>4. Outstanding' = Outstanding
  BY <1>1, <1>3 DEF Outstanding, Types
<1>5. slot' = slot /\ Answered' = Answered
  BY <1>1, <1>4 DEF slot, Answered
<1> QED
  BY <1>1, <1>2, <1>3, <1>4, <1>5 DEF CallCounted, Types

(* Each step keeps the count of acks, and with it what a Collect that      *)
(* succeeds leaves behind.                                                 *)
LEMMA CountStep ==
  ASSUME Constants, Types, Tidy, Counted, [Next]_vars
  PROVE  Counted'
<1>1. CASE Start
  <2>1. /\ cpc' = "signal" /\ result'.status = "none" /\ forsaken' = (Outstanding # {})
        /\ UNCHANGED <<sigs, at, rest, formOf, ackPipe, acks>> /\ acks = 0 /\ ackPipe = 0
    BY <1>1 DEF Start, NoResult, handlers, counting, Tidy
  <2>2. ASSUME Outstanding = {} PROVE CallCounted'
    <3>1. \A t \in Threads : sigs[t] = <<>> /\ at[t] = NoAddr
      BY <2>2 DEF Outstanding
    <3>2. Outstanding' = {}
      BY <2>1, <3>1 DEF Outstanding
    <3>3. Cardinality(Answered') >= 0
      <4>1. Answered' \in SUBSET Threads
        BY DEF Answered, slot
      <4>2. IsFiniteSet(Threads)
        BY DEF Constants
      <4>3. IsFiniteSet(Answered')
        BY <4>1, <4>2, FS_Subset
      <4> QED
        BY <4>3, FS_CardinalityType
    <3> QED
      BY <2>1, <3>1, <3>2, <3>3 DEF CallCounted
  <2> QED
    BY <2>1, <2>2, Zenon DEF Counted
<1>2. CASE StartNoPipe
  BY <1>2 DEF StartNoPipe, Counted, NoResult
<1>3. ASSUME NEW t \in Threads, NEW a \in Addrs, Signal(t, a) PROVE Counted'
  BY <1>3, CountSignal, Zenon DEF Counted, Signal, history
<1>4. ASSUME NEW t \in Threads, SignalFails(t) PROVE Counted'
  BY <1>4, CountUnchanged DEF Counted, SignalFails, handlers, counting, history
<1>5. CASE ArmTimer
  BY <1>5, CountUnchanged DEF Counted, ArmTimer, handlers, counting, history
<1>6. CASE CreateFails \/ SettimeFails \/ TimeOut
  BY <1>6 DEF CreateFails, SettimeFails, TimeOut, Return, Counted
<1>7. CASE Finish
  <2>1. /\ cpc = "ack" /\ cpc' = "idle" /\ UNCHANGED <<sigs, at>> /\ forsaken' = forsaken
        /\ acks >= Cardinality(slot)
    BY <1>7 DEF Finish, Return, handlers, history, tids
  <2>2. Outstanding' = Outstanding
    BY <2>1 DEF Outstanding
  <2>3. ASSUME ~forsaken PROVE Outstanding = {}
    <3>1. CallCounted
      BY <2>1, <2>3 DEF Counted
    <3>2. Cardinality(Answered) = Cardinality(slot)
      BY <2>1, <3>1, AnsweredFacts DEF CallCounted, Types
    <3>3. slot \ Outstanding = slot
      BY <3>2, AnsweredFacts DEF Answered
    <3> QED
      BY <3>1, <3>3 DEF CallCounted
  <2> QED
    BY <2>1, <2>2, <2>3 DEF Counted
<1>8. CASE TimerFires
  BY <1>8, CountUnchanged DEF Counted, TimerFires, handlers, history
<1>9. CASE ReadAck
  <2>1. acks' + ackPipe' = acks + ackPipe
    BY <1>9 DEF ReadAck, Types
  <2> QED
    BY <1>9, <2>1, CountUnchanged DEF Counted, ReadAck, handlers, history
<1>10. ASSUME NEW t \in Threads, NEW s \in Stacks[t], HandlerStarts(t, s) PROVE Counted'
  <2>1. t \in Outstanding
    BY <1>10 DEF HandlerStarts, Outstanding
  <2> QED
    BY <1>10, <2>1, CountStarts, Zenon DEF Counted, HandlerStarts
<1>11. ASSUME NEW t \in Threads, t \in Outstanding,
              HandlerFails(t) \/ Submit(t) \/ Die(t)
       PROVE  Counted'
  <2>1. /\ UNCHANGED <<cpc, result, forsaken, formOf, acks>>
        /\ ackPipe' \in {ackPipe, ackPipe + 1}
    BY <1>11 DEF HandlerFails, Submit, Die, counting, history
  <2>2. ASSUME CallCounted PROVE CallCounted'
    <3>1. \A u \in Threads \ {t} : sigs'[u] = sigs[u] /\ at'[u] = at[u]
      BY <1>11 DEF HandlerFails, Submit, Die, Types
    <3>2. sigs'[t] = <<>> /\ at'[t] = NoAddr
      <4>1. CASE HandlerFails(t)
        <5>1. sigs[t] # <<>> /\ sigs[t] \in Seq(Addrs) /\ Len(sigs[t]) <= 1
          BY <2>2, <4>1 DEF HandlerFails, Types, CallCounted
        <5>2. Tail(sigs[t]) = <<>>
          BY <5>1, OneElement
        <5> QED
          BY <4>1, <5>2 DEF HandlerFails, Types
      <4>2. CASE Submit(t)
        BY <2>2, <4>2 DEF Submit, Types, CallCounted
      <4>3. CASE Die(t)
        BY <4>3 DEF Die, Types
      <4> QED
        BY <1>11, <4>1, <4>2, <4>3
    <3>3. Outstanding' = Outstanding \ {t}
      BY <3>1, <3>2 DEF Outstanding
    <3> QED
      BY <1>11, <2>1, <2>2, <3>1, <3>2, <3>3, CountAnswer
  <2> QED
    BY <1>11, <2>1, <2>2 DEF Counted
<1>12. ASSUME NEW t \in Threads, t \notin Outstanding, Die(t) PROVE Counted'
  <2>1. /\ UNCHANGED <<cpc, result, forsaken, formOf, acks, ackPipe, at>>
        /\ sigs' = [sigs EXCEPT ![t] = <<>>] /\ sigs[t] = <<>>
    BY <1>12 DEF Die, counting, history, Outstanding
  <2>2. sigs' = sigs
    BY <2>1 DEF Types
  <2>3. Outstanding' = Outstanding
    BY <2>1, <2>2 DEF Outstanding
  <2> QED
    BY <2>1, <2>2, <2>3, CountUnchanged DEF Counted
<1>13. ASSUME NEW t \in Threads, AddAddress(t) PROVE Counted'
  <2>1. Outstanding' = Outstanding
    BY <1>13 DEF AddAddress, Outstanding
  <2> QED
    BY <1>13, <2>1, CountUnchanged DEF Counted, AddAddress, counting, history
<1>14. CASE UNCHANGED vars
  <2>1. Outstanding' = Outstanding
    BY <1>14 DEF vars, Outstanding
  <2> QED
    BY <1>14, <2>1, CountUnchanged DEF Counted, vars
<1>15. \A t \in Threads : HandlerFails(t) \/ Submit(t) => t \in Outstanding
  BY DEF HandlerFails, Submit, Outstanding
<1> QED
  BY <1>1, <1>2, <1>3, <1>4, <1>5, <1>6, <1>7, <1>8, <1>9, <1>10, <1>11, <1>12, <1>13,
     <1>14, <1>15
  DEF Next, CollectorStep, OpensTimer, HandlerStep

-----------------------------------------------------------------------------
(* The flags stay what they are. *)
LEMMA FlagsStep ==
  ASSUME Flags, [Next]_vars
  PROVE  Flags'
<1> USE DEF Flags, history
<1>1. CASE Start
  BY <1>1 DEF Start, NoResult, counting
<1>2. CASE StartNoPipe
  BY <1>2, Zenon DEF StartNoPipe, NoResult, counting, ForgetHistory
<1>3. CASE CreateFails \/ SettimeFails \/ TimeOut \/ Finish
  <2>1. ASSUME NEW status \in {"ok", "failed"}, NEW error \in BOOLEAN, NEW groups, NEW n,
               Return(status, groups, error, n)
        PROVE  Flags'
    <3>1. fired' = FALSE /\ (forsaken' = forsaken \/ forsaken' = FALSE)
      BY <2>1 DEF Return, ForgetHistory
    <3>2. result'.status = status /\ result'.error = error
      BY <2>1 DEF Return
    <3>3. fired' \in BOOLEAN /\ forsaken' \in BOOLEAN
      BY <3>1, Zenon
    <3> QED
      BY <3>2, <3>3
  <2>2. TRUE \in BOOLEAN /\ FALSE \in BOOLEAN
    OBVIOUS
  <2> QED
    BY <1>3, <2>1, <2>2, Zenon DEF CreateFails, SettimeFails, TimeOut, Finish
<1>4. CASE (\E t \in Threads : SignalFails(t) \/ \E a \in Addrs : Signal(t, a))
           \/ ArmTimer \/ TimerFires \/ ReadAck
  BY <1>4, Zenon DEF Signal, SignalFails, ArmTimer, TimerFires, ReadAck, counting
<1>5. CASE \E t \in Threads : HandlerStep(t) \/ Die(t)
  BY <1>5 DEF HandlerStep, HandlerStarts, HandlerFails, AddAddress, Submit, Die, counting
<1>6. CASE UNCHANGED vars
  BY <1>6 DEF vars
<1> QED
  BY <1>1, <1>2, <1>3, <1>4, <1>5, <1>6 DEF Next, CollectorStep, OpensTimer

-----------------------------------------------------------------------------
(* Cutting a trace at kMaxDepth.                                           *)
LEMMA TruncateFacts ==
  ASSUME Constants, NEW s \in Seq(Nat)
  PROVE  /\ Truncate(s) \in Seq(Nat) /\ Truncate(s) # NoTrace
         /\ Len(s) <= kMaxDepth => Truncate(s) = s
<1> DEFINE n == IF Len(s) < kMaxDepth THEN Len(s) ELSE kMaxDepth
<1>1. n \in Nat /\ n <= Len(s) /\ Len(s) \in Nat /\ (Len(s) <= kMaxDepth => n = Len(s))
  BY DEF Constants
<1>2. Truncate(s) = SubSeq(s, 1, n)
  BY DEF Truncate
<1> HIDE DEF n
<1>3. SubSeq(s, 1, n) \in Seq(Nat)
  BY <1>1, SubSeqProperties, ElementOfSeq
<1>4. NoTrace \notin Seq(Nat)
  <2>1. Len(NoTrace) = 1 /\ NoTrace[1] = -1 /\ -1 \notin Nat /\ 1 \in 1 .. 1
    BY DEF NoTrace
  <2> QED
    BY <2>1, ElementOfSeq, Zenon
<1>5. SubSeq(s, 1, Len(s)) = s
  BY SubSeqFull
<1> QED
  BY <1>1, <1>2, <1>3, <1>4, <1>5, Zenon

(* A trace that is full, and a frame that moves from rest to the trace.    *)
LEMMA TruncateConcat ==
  ASSUME Constants, NEW tr \in Seq(Nat), NEW r \in Seq(Nat)
  PROVE  /\ Len(tr) = kMaxDepth => Truncate(tr \o r) = tr
         /\ r # <<>> => Append(tr, Head(r)) \o Tail(r) = tr \o r
         /\ tr \o r \in Seq(Nat)
<1> DEFINE w == tr \o r
<1>1. /\ w \in Seq(Nat) /\ Len(w) = Len(tr) + Len(r) /\ Len(tr) \in Nat /\ Len(r) \in Nat
      /\ \A i \in 1 .. Len(w) : w[i] = IF i <= Len(tr) THEN tr[i] ELSE r[i - Len(tr)]
  BY ConcatProperties, LenProperties
<1> HIDE DEF w
<1>2. ASSUME Len(tr) = kMaxDepth PROVE Truncate(w) = tr
  <2>1. Truncate(w) = SubSeq(w, 1, Len(tr))
    BY <1>1, <1>2 DEF Truncate, Constants
  <2>2. \A i \in 1 .. Len(tr) : w[i] = tr[i] /\ tr[i] \in Nat
    BY <1>1, ElementOfSeq
  <2>3. /\ SubSeq(w, 1, Len(tr)) \in Seq(Nat) /\ Len(SubSeq(w, 1, Len(tr))) = Len(tr)
        /\ \A i \in 1 .. Len(tr) : SubSeq(w, 1, Len(tr))[i] = w[i]
    BY <1>1, <2>2, SubSeqProperties
  <2>4. SubSeq(w, 1, Len(tr)) = tr
    BY <2>2, <2>3, SeqEqual
  <2> QED
    BY <2>1, <2>4
<1>3. ASSUME r # <<>> PROVE Append(tr, Head(r)) \o Tail(r) = w
  <2> DEFINE h == <<r[1]>>
  <2>1. Len(r) \in Nat /\ Len(r) >= 1 /\ r[1] \in Nat /\ h \in Seq(Nat)
    BY <1>1, <1>3, EmptySeq, ElementOfSeq
  <2>2. r = h \o Tail(r)
    BY <1>3, <2>1, SubSeqFull, SubSeqRecursiveFirst, TailIsSubSeq
  <2>3. Head(r) = r[1] /\ Tail(r) \in Seq(Nat)
    BY <1>3, HeadTailProperties
  <2>4. Append(tr, r[1]) = tr \o h
    BY <2>1, AppendIsConcat
  <2>5. (tr \o h) \o Tail(r) = tr \o (h \o Tail(r))
    BY <2>1, <2>3, ConcatAssociative
  <2> HIDE DEF h
  <2> QED
    BY <2>2, <2>3, <2>4, <2>5, Zenon DEF w
<1> QED
  BY <1>1, <1>2, <1>3, Zenon DEF w

-----------------------------------------------------------------------------
(* Each form in slot is its thread's own. *)
OwnForms == \A t \in slot : heap[formOf[t]].tid = t

(* How the form of a thread, its handler and its stack belong together in  *)
(* a call that found no handler of an earlier one.                         *)
ThreadTrue(t) ==
  /\ t \notin slot => truth[t] = NoTrace
  /\ sigs[t] # <<>> => /\ sigs[t] = <<formOf[t]>>
                       /\ heap[formOf[t]].trace = <<>> /\ truth[t] = NoTrace
  /\ at[t] # NoAddr => /\ at[t] = formOf[t]
                       /\ truth[t] = Truncate(heap[formOf[t]].trace \o rest[t])
  /\ t \in slot \ Outstanding => truth[t] \in {NoTrace, heap[formOf[t]].trace}

(* The threads whose handler has written its ack. *)
Acked == {t \in slot \ Outstanding : truth[t] # NoTrace}

CallTrue ==
  /\ \A t \in Threads : ThreadTrue(t)
  /\ acks + ackPipe <= Cardinality(Acked)

Truthful ==
  /\ truth \in [Threads -> Seq(Int)]
  /\ OwnForms
  /\ cpc # "idle" /\ ~forsaken => CallTrue

(* Only what concerns thread t has changed.                                *)
LEMMA OthersStay ==
  ASSUME NEW t \in Threads, CallCounted, \A u \in Threads : ThreadTrue(u),
         \A u \in Threads \ {t} :
           /\ formOf'[u] = formOf[u] /\ sigs'[u] = sigs[u] /\ at'[u] = at[u]
           /\ rest'[u] = rest[u] /\ truth'[u] = truth[u],
         \A u \in slot \ {t} : heap'[formOf[u]] = heap[formOf[u]]
  PROVE  \A u \in Threads \ {t} : ThreadTrue(u)' /\ (u \in Acked' <=> u \in Acked)
<1> SUFFICES ASSUME NEW u \in Threads \ {t}
             PROVE  ThreadTrue(u)' /\ (u \in Acked' <=> u \in Acked)
  OBVIOUS
<1>1. u \in Outstanding' <=> u \in Outstanding
  BY DEF Outstanding
<1>2. u \in slot' <=> u \in slot
  BY DEF slot
<1>3. u \in Acked' <=> u \in Acked
  BY <1>1, <1>2 DEF Acked
<1>4. ThreadTrue(u)'
  <2>1. CASE u \in slot
    <3>1. heap'[formOf'[u]] = heap[formOf[u]]
      BY <2>1
    <3> QED
      BY <1>1, <1>2, <2>1, <3>1, Zenon DEF ThreadTrue, Truncate
  <2>2. CASE u \notin slot
    <3>1. sigs[u] = <<>> /\ at[u] = NoAddr
      BY <2>2 DEF CallCounted, Outstanding
    <3> QED
      BY <1>2, <2>2, <3>1 DEF ThreadTrue
  <2> QED
    BY <2>1, <2>2
<1> QED
  BY <1>3, <1>4

(* A form is allocated where no other is, and its tid is not written again.*)
LEMMA OwnFormsStep ==
  ASSUME Constants, Types, OwnForms, [Next]_vars
  PROVE  OwnForms'
<1>1. ASSUME NEW t \in Threads, NEW a \in Addrs, Signal(t, a) PROVE OwnForms'
  <2>1. /\ heap[a] = Free /\ heap' = [heap EXCEPT ![a] = [tid |-> t, trace |-> <<>>]]
        /\ formOf' = [formOf EXCEPT ![t] = a]
    BY <1>1 DEF Signal
  <2>2. heap \in [Addrs -> Form] /\ formOf \in [Threads -> Addrs \cup {NoAddr}]
    BY DEF Types
  <2>3. \A u \in slot : formOf[u] # a
    BY <2>1 DEF OwnForms, slot, Free, Constants
  <2>4. heap'[a].tid = t /\ \A b \in Addrs \ {a} : heap'[b] = heap[b]
    BY <2>1, <2>2
  <2>5. formOf'[t] = a /\ \A u \in Threads \ {t} : formOf'[u] = formOf[u]
    BY <2>1, <2>2
  <2> QED
    BY <2>2, <2>3, <2>4, <2>5 DEF OwnForms, slot
<1>2. ASSUME formOf' = [t \in Threads |-> NoAddr] PROVE OwnForms'
  BY <1>2 DEF OwnForms, slot
<1>3. CASE CreateFails \/ SettimeFails \/ TimeOut \/ Finish
  BY <1>2, <1>3, Zenon DEF CreateFails, SettimeFails, TimeOut, Finish, Return
<1>4. ASSUME NEW t \in Threads, AddAddress(t) PROVE OwnForms'
  <2>1. at[t] \in Addrs /\ heap \in [Addrs -> Form] /\ formOf \in [Threads -> Addrs \cup {NoAddr}]
    BY <1>4 DEF AddAddress, Types
  <2>2. \A b \in Addrs : heap'[b].tid = heap[b].tid
    BY <1>4, <2>1 DEF AddAddress, Form
  <2>3. formOf' = formOf
    BY <1>4 DEF AddAddress
  <2> QED
    BY <2>1, <2>2, <2>3 DEF OwnForms, slot
<1>5. ASSUME UNCHANGED <<formOf, heap>> PROVE OwnForms'
  BY <1>5 DEF OwnForms, slot
<1>6. CASE Start \/ StartNoPipe \/ (\E t \in Threads : SignalFails(t)) \/ ArmTimer
           \/ TimerFires \/ ReadAck \/ UNCHANGED vars
  BY <1>5, <1>6 DEF Start, StartNoPipe, SignalFails, ArmTimer, TimerFires, ReadAck, vars
<1>7. CASE \E t \in Threads : \/ \E s \in Stacks[t] : HandlerStarts(t, s)
                              \/ HandlerFails(t) \/ Submit(t) \/ Die(t)
  BY <1>5, <1>7 DEF HandlerStarts, HandlerFails, Submit, Die
<1> QED
  BY <1>1, <1>3, <1>4, <1>6, <1>7 DEF Next, CollectorStep, OpensTimer, HandlerStep

(* What is at the address of a form in slot.                               *)
LEMMA OwnFormFacts ==
  ASSUME Constants, Types, OwnForms, NEW t \in slot
  PROVE  /\ formOf[t] \in Addrs /\ heap[formOf[t]].tid = t
         /\ heap[formOf[t]].trace \in Seq(Nat) /\ heap[formOf[t]] # Free
<1>1. t \in Threads /\ formOf[t] \in Addrs
  BY DEF slot, Types
<1>2. heap[formOf[t]] \in Form /\ heap[formOf[t]].tid = t
  BY <1>1 DEF Types, OwnForms
<1>3. t # -1 /\ Free.tid = -1
  <2>1. t \in Nat
    BY <1>1, Zenon DEF Constants
  <2> QED
    BY <2>1 DEF Free
<1> QED
  BY <1>1, <1>2, <1>3 DEF Form

(* Acks and the threads that wrote them, when none or one is added.        *)
LEMMA AckedCount ==
  ASSUME Constants
  PROVE  /\ IsFiniteSet(Acked) /\ Cardinality(Acked) \in Nat
         /\ (\A u \in Threads : u \in Acked' <=> u \in Acked) =>
              Cardinality(Acked') = Cardinality(Acked)
         /\ \A t \in Threads :
              t \notin Acked /\ (\A u \in Threads : u \in Acked' <=> u = t \/ u \in Acked) =>
              Cardinality(Acked') = Cardinality(Acked) + 1
<1>1. Acked \in SUBSET Threads /\ Acked' \in SUBSET Threads
  BY DEF Acked, slot
<1>2. IsFiniteSet(Acked) /\ Cardinality(Acked) \in Nat
  BY <1>1, FS_Subset, FS_CardinalityType, Zenon DEF Constants
<1>3. ASSUME \A u \in Threads : u \in Acked' <=> u \in Acked
      PROVE  Cardinality(Acked') = Cardinality(Acked)
  <2>1. Acked' = Acked
    BY <1>1, <1>3
  <2> QED
    BY <2>1
<1>4. ASSUME NEW t \in Threads, t \notin Acked,
             \A u \in Threads : u \in Acked' <=> u = t \/ u \in Acked
      PROVE  Cardinality(Acked') = Cardinality(Acked) + 1
  <2>1. Acked' = Acked \cup {t}
    BY <1>1, <1>4
  <2> QED
    BY <1>2, <1>4, <2>1, FS_AddElement, Zenon
<1> QED
  BY <1>2, <1>3, <1>4

(* Signal: the thread gets an empty form and a signal with its address.    *)
LEMMA TrueSignal ==
  ASSUME Constants, Types, Tidy, OwnForms, CallCounted, CallTrue,
         NEW t \in Threads, NEW a \in Addrs, Signal(t, a)
  PROVE  CallTrue'
<1>1. /\ heap[a] = Free /\ heap' = [heap EXCEPT ![a] = [tid |-> t, trace |-> <<>>]]
      /\ formOf' = [formOf EXCEPT ![t] = a] /\ sigs' = [sigs EXCEPT ![t] = Append(@, a)]
      /\ UNCHANGED <<at, rest, truth, acks, ackPipe>> /\ t \in todo
  BY DEF Signal, counting, history, IsNext
<1>2. heap \in [Addrs -> Form] /\ formOf \in [Threads -> Addrs \cup {NoAddr}]
      /\ sigs \in [Threads -> Seq(Addrs)]
  BY DEF Types
<1>3. formOf[t] = NoAddr /\ t \notin slot /\ t \notin Outstanding /\ sigs[t] = <<>> /\ at[t] = NoAddr
  BY <1>1, Zenon DEF Tidy, slot, CallCounted, Outstanding
<1>4. \A u \in slot : formOf[u] # a /\ heap'[formOf[u]] = heap[formOf[u]]
  <2>1. \A u \in slot : formOf[u] \in Addrs /\ heap[formOf[u]] # Free
    BY OwnFormFacts
  <2> QED
    BY <1>1, <1>2, <2>1
<1>5. \A u \in Threads \ {t} : ThreadTrue(u)' /\ (u \in Acked' <=> u \in Acked)
  BY <1>1, <1>2, <1>4, OthersStay, Zenon DEF CallTrue
<1>6. formOf'[t] = a /\ sigs'[t] = <<a>> /\ heap'[a].trace = <<>> /\ truth'[t] = NoTrace
      /\ at'[t] = NoAddr /\ <<a>> # <<>>
  <2>1. truth[t] = NoTrace
    BY <1>3, Zenon DEF CallTrue, ThreadTrue
  <2>2. heap'[a] = [tid |-> t, trace |-> <<>>] /\ formOf'[t] = a /\ sigs'[t] = Append(sigs[t], a)
    BY <1>1, <1>2
  <2>3. Append(<<>>, a) = <<a>> /\ <<a>> # <<>>
    OBVIOUS
  <2> QED
    BY <1>1, <1>3, <2>1, <2>2, <2>3
<1>7. t \in slot' /\ t \in Outstanding'
  BY <1>6 DEF slot, Outstanding, Constants, NoAddr
<1>8. ThreadTrue(t)'
  BY <1>6, <1>7 DEF ThreadTrue
<1>9. t \notin Acked /\ t \notin Acked'
  BY <1>3, <1>7 DEF Acked
<1> QED
  BY <1>1, <1>5, <1>8, <1>9, AckedCount DEF CallTrue

(* The handler starts on its thread's form, which is still empty.          *)
LEMMA TrueStarts ==
  ASSUME Constants, Types, CallCounted, CallTrue,
         NEW t \in Threads, NEW s \in Stacks[t], HandlerStarts(t, s),
         truth \in [Threads -> Seq(Int)]
  PROVE  CallTrue'
<1>1. /\ sigs[t] # <<>> /\ at[t] = NoAddr /\ at' = [at EXCEPT ![t] = Head(sigs[t])]
      /\ sigs' = [sigs EXCEPT ![t] = Tail(@)] /\ rest' = [rest EXCEPT ![t] = s]
      /\ truth' = IF formOf[t] = Head(sigs[t])
                  THEN [truth EXCEPT ![t] = Truncate(s)] ELSE truth
      /\ UNCHANGED <<formOf, heap, acks, ackPipe>>
  BY DEF HandlerStarts, counting
<1>2. /\ sigs \in [Threads -> Seq(Addrs)] /\ at \in [Threads -> Addrs \cup {NoAddr}]
      /\ rest \in [Threads -> Seq(Nat)]
  BY DEF Types
<1>3. /\ sigs[t] = <<formOf[t]>> /\ heap[formOf[t]].trace = <<>> /\ truth[t] = NoTrace
      /\ t \in Outstanding /\ t \in slot
  BY <1>1 DEF CallTrue, ThreadTrue, CallCounted, Outstanding
<1>4. Head(sigs[t]) = formOf[t] /\ Tail(sigs[t]) = <<>> /\ s \in Seq(Nat) /\ formOf[t] # NoAddr
  <2>1. s \in Seq(Nat)
    BY DEF Constants
  <2>2. \A x : Head(<<x>>) = x /\ Tail(<<x>>) = <<>>
    OBVIOUS
  <2> QED
    BY <1>3, <2>1, <2>2 DEF slot
<1>5. truth' = [truth EXCEPT ![t] = Truncate(s)]
  BY <1>1, <1>4
<1>6. \A u \in Threads \ {t} : ThreadTrue(u)' /\ (u \in Acked' <=> u \in Acked)
  <2>1. \A u \in Threads \ {t} :
          /\ formOf'[u] = formOf[u] /\ sigs'[u] = sigs[u] /\ at'[u] = at[u]
          /\ rest'[u] = rest[u] /\ truth'[u] = truth[u]
    BY <1>1, <1>2, <1>5
  <2> QED
    BY <1>1, <2>1, OthersStay, Zenon DEF CallTrue
<1>7. sigs'[t] = <<>> /\ at'[t] = formOf'[t] /\ at'[t] # NoAddr /\ rest'[t] = s
      /\ truth'[t] = Truncate(s) /\ heap'[formOf'[t]].trace = <<>>
  BY <1>1, <1>2, <1>3, <1>4, <1>5
<1>8. truth'[t] = Truncate(heap'[formOf'[t]].trace \o rest'[t])
  BY <1>4, <1>7, ConcatEmptySeq
<1>9. t \in slot' /\ t \in Outstanding'
  BY <1>1, <1>3, <1>7 DEF slot, Outstanding
<1>10. ThreadTrue(t)'
  BY <1>7, <1>8, <1>9, Zenon DEF ThreadTrue, Truncate
<1>11. t \notin Acked /\ t \notin Acked'
  BY <1>3, <1>9 DEF Acked
<1> QED
  BY <1>1, <1>6, <1>10, <1>11, AckedCount DEF CallTrue

(* A signal or handler that ends without an ack: its thread has died, or   *)
(* cannot be unwound.                                                      *)
LEMMA TrueLost ==
  ASSUME Constants, Types, CallCounted, CallTrue, NEW t \in Threads,
         at[t] = NoAddr, sigs' = [sigs EXCEPT ![t] = <<>>],
         UNCHANGED <<formOf, heap, at, rest, truth, acks, ackPipe>>
  PROVE  CallTrue'
<1>1. sigs \in [Threads -> Seq(Addrs)] /\ sigs'[t] = <<>> /\ at'[t] = NoAddr
  BY DEF Types
<1>2. \A u \in Threads \ {t} : ThreadTrue(u)' /\ (u \in Acked' <=> u \in Acked)
  BY <1>1, OthersStay DEF CallTrue
<1>3. t \notin Outstanding' /\ (t \in slot' <=> t \in slot)
  BY <1>1 DEF Outstanding, slot
<1>4. CASE sigs[t] = <<>>
  <2>1. t \notin Outstanding
    BY <1>4 DEF Outstanding
  <2>2. ThreadTrue(t)' /\ (t \in Acked' <=> t \in Acked)
    BY <1>1, <1>3, <2>1, Zenon DEF CallTrue, ThreadTrue, Acked
  <2> QED
    BY <1>2, <2>2, AckedCount DEF CallTrue
<1>5. CASE sigs[t] # <<>>
  <2>1. truth[t] = NoTrace
    BY <1>5 DEF CallTrue, ThreadTrue
  <2>2. ThreadTrue(t)' /\ t \notin Acked /\ t \notin Acked'
    BY <1>1, <1>3, <2>1 DEF ThreadTrue, Acked
  <2> QED
    BY <1>2, <2>2, AckedCount DEF CallTrue
<1> QED
  BY <1>4, <1>5

(* AddAddress: a frame goes from what is left of the stack to the form.    *)
LEMMA TrueAdd ==
  ASSUME Constants, Types, OwnForms, CallCounted, CallTrue, NEW t \in Threads, AddAddress(t)
  PROVE  CallTrue'
<1> DEFINE a == formOf[t]
<1>1. /\ at[t] # NoAddr /\ rest[t] # <<>> /\ rest' = [rest EXCEPT ![t] = Tail(@)]
      /\ UNCHANGED <<formOf, sigs, at, acks, ackPipe, truth>>
      /\ heap' = IF heap[at[t]] = Free THEN heap
                 ELSE [heap EXCEPT ![at[t]].trace = Append(@, Head(rest[t]))]
  BY DEF AddAddress, counting, history
<1>2. /\ sigs \in [Threads -> Seq(Addrs)] /\ rest \in [Threads -> Seq(Nat)]
      /\ heap \in [Addrs -> Form] /\ formOf \in [Threads -> Addrs \cup {NoAddr}]
  BY DEF Types
<1>3. at[t] = a /\ truth[t] = Truncate(heap[a].trace \o rest[t]) /\ t \in Outstanding /\ t \in slot
      /\ sigs[t] = <<>>
  BY <1>1 DEF CallTrue, ThreadTrue, CallCounted, Outstanding
<1>4. a \in Addrs /\ heap[a].tid = t /\ heap[a].trace \in Seq(Nat) /\ heap[a] # Free
  BY <1>3, OwnFormFacts
<1>5. heap' = [heap EXCEPT ![a].trace = Append(@, Head(rest[t]))]
  BY <1>1, <1>3, <1>4
<1>6. heap'[a].trace = Append(heap[a].trace, Head(rest[t])) /\ \A b \in Addrs \ {a} : heap'[b] = heap[b]
  BY <1>2, <1>4, <1>5 DEF Form
<1>7. \A u \in slot \ {t} : heap'[formOf[u]] = heap[formOf[u]]
  BY <1>2, <1>3, <1>4, <1>6 DEF OwnForms, slot
<1>8. rest'[t] = Tail(rest[t]) /\ \A u \in Threads \ {t} : rest'[u] = rest[u]
  BY <1>1, <1>2
<1>9. \A u \in Threads \ {t} : ThreadTrue(u)' /\ (u \in Acked' <=> u \in Acked)
  BY <1>1, <1>7, <1>8, OthersStay DEF CallTrue
<1>10. heap'[a].trace \o rest'[t] = heap[a].trace \o rest[t]
  <2>1. rest[t] \in Seq(Nat)
    BY <1>2
  <2>2. Append(heap[a].trace, Head(rest[t])) \o Tail(rest[t]) = heap[a].trace \o rest[t]
    BY <1>1, <1>4, <2>1, TruncateConcat, Zenon
  <2> QED
    BY <1>6, <1>8, <2>2, Zenon
<1>11. t \in Outstanding' /\ t \in slot'
  BY <1>1, <1>3 DEF Outstanding, slot
<1>12. ThreadTrue(t)'
  <2>1. truth'[t] = Truncate(heap'[formOf'[t]].trace \o rest'[t])
    BY <1>1, <1>3, <1>10, Zenon
  <2> QED
    BY <1>1, <1>3, <1>11, <2>1, Zenon DEF ThreadTrue, Truncate
<1>13. t \notin Acked /\ t \notin Acked'
  BY <1>3, <1>11 DEF Acked
<1> QED
  BY <1>1, <1>9, <1>12, <1>13, AckedCount DEF CallTrue

(* Submit: the form holds the whole stack, up to kMaxDepth.                *)
LEMMA TrueSubmit ==
  ASSUME Constants, Types, OwnForms, CallCounted, CallTrue, NEW t \in Threads, Submit(t)
  PROVE  CallTrue'
<1> DEFINE a == formOf[t]
<1>1. /\ at[t] # NoAddr /\ (rest[t] = <<>> \/ Full(t) \/ heap[at[t]] = Free)
      /\ at' = [at EXCEPT ![t] = NoAddr] /\ rest' = [rest EXCEPT ![t] = <<>>]
      /\ ackPipe' = (IF heap[at[t]] = Free THEN ackPipe ELSE ackPipe + 1)
      /\ UNCHANGED <<formOf, sigs, heap, acks, truth>>
  BY DEF Submit, history
<1>2. /\ sigs \in [Threads -> Seq(Addrs)] /\ rest \in [Threads -> Seq(Nat)]
      /\ at \in [Threads -> Addrs \cup {NoAddr}] /\ ackPipe \in Nat /\ acks \in Nat
      /\ heap \in [Addrs -> Form] /\ formOf \in [Threads -> Addrs \cup {NoAddr}]
      /\ \A b \in Addrs : Len(heap[b].trace) <= kMaxDepth
  BY DEF Types
<1>3. at[t] = a /\ truth[t] = Truncate(heap[a].trace \o rest[t]) /\ t \in Outstanding /\ t \in slot
      /\ sigs[t] = <<>>
  BY <1>1 DEF CallTrue, ThreadTrue, CallCounted, Outstanding
<1>4. a \in Addrs /\ heap[a].trace \in Seq(Nat) /\ heap[a] # Free
  BY <1>3, OwnFormFacts, Zenon
<1>5. \A u \in Threads \ {t} : ThreadTrue(u)' /\ (u \in Acked' <=> u \in Acked)
  BY <1>1, <1>2, OthersStay, Zenon DEF CallTrue
<1>6. truth[t] = heap[a].trace
  <2>1. CASE rest[t] = <<>>
    <3>1. heap[a].trace \o rest[t] = heap[a].trace
      BY <1>4, <2>1, ConcatEmptySeq
    <3> QED
      BY <1>2, <1>3, <1>4, <3>1, TruncateFacts
  <2>2. CASE Full(t)
    <3>1. Len(heap[a].trace) = kMaxDepth
      BY <1>2, <1>3, <1>4, <2>2, LenProperties DEF Full, Constants
    <3> QED
      BY <1>2, <1>3, <1>4, <3>1, TruncateConcat, Zenon
  <2> QED
    BY <1>1, <1>3, <1>4, <2>1, <2>2
<1>7. truth[t] # NoTrace
  BY <1>2, <1>3, <1>4, TruncateFacts, TruncateConcat, Zenon
<1>8. at'[t] = NoAddr /\ sigs'[t] = <<>> /\ t \notin Outstanding' /\ t \in slot'
  BY <1>1, <1>2, <1>3 DEF Outstanding, slot
<1>9. ThreadTrue(t)'
  BY <1>1, <1>6, <1>8 DEF ThreadTrue
<1>10. t \notin Acked /\ t \in Acked'
  BY <1>1, <1>3, <1>7, <1>8 DEF Acked
<1>11. Cardinality(Acked') = Cardinality(Acked) + 1 /\ Cardinality(Acked) \in Nat
  BY <1>5, <1>10, AckedCount
<1>12. acks' + ackPipe' = acks + ackPipe + 1
  BY <1>1, <1>2, <1>3, <1>4
<1>13. acks' + ackPipe' <= Cardinality(Acked')
  BY <1>2, <1>11, <1>12 DEF CallTrue
<1> QED
  BY <1>5, <1>9, <1>13 DEF CallTrue

(* Neither handlers nor forms change.                                      *)
LEMMA TrueUnchanged ==
  ASSUME Types, CallTrue, UNCHANGED <<formOf, heap, sigs, at, rest, truth>>,
         acks' + ackPipe' = acks + ackPipe
  PROVE  CallTrue'
<1>1. Outstanding' = Outstanding /\ slot' = slot
  BY DEF Outstanding, slot
<1>2. Acked' = Acked
  BY <1>1 DEF Acked
<1>3. \A t \in Threads : ThreadTrue(t)'
  BY <1>1, Zenon DEF CallTrue, ThreadTrue, Truncate
<1> QED
  BY <1>2, <1>3 DEF CallTrue

(* The stacks of the history.                                              *)
LEMMA TruthTypeStep ==
  ASSUME Constants, truth \in [Threads -> Seq(Int)], [Next]_vars
  PROVE  truth' \in [Threads -> Seq(Int)]
<1>1. NoTrace \in Seq(Int) /\ [t \in Threads |-> NoTrace] \in [Threads -> Seq(Int)]
  BY DEF NoTrace
<1>2. ASSUME NEW t \in Threads, NEW s \in Stacks[t], HandlerStarts(t, s)
      PROVE  truth' \in [Threads -> Seq(Int)]
  <2>1. s \in Seq(Nat)
    BY DEF Constants
  <2>2. Truncate(s) \in Seq(Int)
    BY <2>1, TruncateFacts, SeqMonotonic
  <2> QED
    BY <1>2, <2>2, Zenon DEF HandlerStarts
<1>3. CASE Start \/ StartNoPipe \/ CreateFails \/ SettimeFails \/ TimeOut \/ Finish
  BY <1>1, <1>3 DEF Start, StartNoPipe, CreateFails, SettimeFails, TimeOut, Finish, Return,
                    ForgetHistory, history
<1>4. CASE \/ \E t \in Threads : SignalFails(t) \/ \E a \in Addrs : Signal(t, a)
           \/ TimerFires \/ ReadAck \/ ArmTimer
  BY <1>4 DEF SignalFails, Signal, TimerFires, ReadAck, ArmTimer, history
<1>5. CASE \E t \in Threads : HandlerFails(t) \/ AddAddress(t) \/ Submit(t) \/ Die(t)
  BY <1>5 DEF HandlerFails, AddAddress, Submit, Die, history
<1>6. CASE UNCHANGED vars
  BY <1>6 DEF vars
<1> QED
  BY <1>2, <1>3, <1>4, <1>5, <1>6, Zenon DEF Next, CollectorStep, OpensTimer, HandlerStep

(* Each step keeps what the forms, the handlers and the acks have to do    *)
(* with the stacks of the threads.                                         *)
LEMMA TruthfulStep ==
  ASSUME Constants, Types, Tidy, Counted, Truthful, [Next]_vars
  PROVE  Truthful'
<1>1. OwnForms' /\ truth' \in [Threads -> Seq(Int)]
  BY OwnFormsStep, TruthTypeStep DEF Truthful
<1>2. SUFFICES ASSUME cpc' # "idle", ~forsaken' PROVE CallTrue'
  BY <1>1 DEF Truthful
<1> DEFINE ThisCall == CallCounted /\ CallTrue /\ OwnForms
<1>3. CASE Start
  <2>1. /\ truth' = [t \in Threads |-> NoTrace] /\ forsaken' = (Outstanding # {})
        /\ UNCHANGED <<sigs, at, formOf, acks, ackPipe>> /\ cpc = "idle"
    BY <1>3 DEF Start, handlers, counting
  <2>2. \A t \in Threads : formOf[t] = NoAddr /\ sigs[t] = <<>> /\ at[t] = NoAddr
    BY <1>2, <2>1, Zenon DEF Tidy, Outstanding
  <2>3. slot' = {} /\ acks' + ackPipe' = 0
    BY <2>1, <2>2 DEF slot, Tidy
  <2>4. Acked' = {}
    BY <2>3 DEF Acked
  <2>5. Cardinality(Acked') = 0
    BY <2>4, FS_EmptySet
  <2>6. \A t \in Threads : ThreadTrue(t)'
    BY <2>1, <2>2, <2>3 DEF ThreadTrue
  <2> QED
    BY <2>3, <2>5, <2>6 DEF CallTrue
<1>4. CASE StartNoPipe \/ CreateFails \/ SettimeFails \/ TimeOut \/ Finish
  BY <1>2, <1>4 DEF StartNoPipe, CreateFails, SettimeFails, TimeOut, Finish, Return
<1>5. ASSUME UNCHANGED <<cpc, forsaken>> \/ (cpc = "signal" /\ UNCHANGED forsaken)
      PROVE  ThisCall
  BY <1>2, <1>5 DEF Counted, Truthful
<1>6. ASSUME NEW t \in Threads, NEW a \in Addrs, Signal(t, a) PROVE CallTrue'
  <2>1. ThisCall
    BY <1>5, <1>6 DEF Signal, history
  <2> QED
    BY <1>6, <2>1, TrueSignal
<1>7. CASE (\E t \in Threads : SignalFails(t)) \/ TimerFires \/ ReadAck \/ ArmTimer
  <2>1. ThisCall
    BY <1>5, <1>7 DEF SignalFails, TimerFires, ReadAck, ArmTimer, history
  <2>2. UNCHANGED <<formOf, heap, sigs, at, rest, truth>> /\ acks' + ackPipe' = acks + ackPipe
    <3>1. CASE (\E t \in Threads : SignalFails(t)) \/ TimerFires \/ ArmTimer
      BY <3>1 DEF SignalFails, TimerFires, ArmTimer, history, handlers, counting
    <3>2. CASE ReadAck
      BY <3>2 DEF ReadAck, history, handlers, Types
    <3> QED
      BY <1>7, <3>1, <3>2
  <2> QED
    BY <2>1, <2>2, TrueUnchanged
<1>8. ASSUME NEW t \in Threads, NEW s \in Stacks[t], HandlerStarts(t, s) PROVE CallTrue'
  <2>1. ThisCall
    BY <1>5, <1>8 DEF HandlerStarts
  <2> QED
    BY <1>8, <2>1, TrueStarts DEF Truthful
<1>9. ASSUME NEW t \in Threads, HandlerFails(t) PROVE CallTrue'
  <2>1. ThisCall
    BY <1>5, <1>9 DEF HandlerFails, history
  <2>2. Tail(sigs[t]) = <<>>
    BY <1>9, <2>1, OneElement DEF HandlerFails, CallCounted, Types
  <2>3. /\ at[t] = NoAddr /\ sigs' = [sigs EXCEPT ![t] = <<>>]
        /\ UNCHANGED <<formOf, heap, at, rest, truth, acks, ackPipe>>
    BY <1>9, <2>2, Zenon DEF HandlerFails, history, counting
  <2> QED
    BY <2>1, <2>3, TrueLost, Zenon
<1>10. ASSUME NEW t \in Threads, AddAddress(t) PROVE CallTrue'
  <2>1. ThisCall
    BY <1>5, <1>10 DEF AddAddress, history
  <2> QED
    BY <1>10, <2>1, TrueAdd
<1>11. ASSUME NEW t \in Threads, Submit(t) PROVE CallTrue'
  <2>1. ThisCall
    BY <1>5, <1>11 DEF Submit, history
  <2> QED
    BY <1>11, <2>1, TrueSubmit
<1>12. ASSUME NEW t \in Threads, Die(t) PROVE CallTrue'
  <2>1. ThisCall
    BY <1>5, <1>12 DEF Die, history
  <2>2. /\ at[t] = NoAddr /\ sigs' = [sigs EXCEPT ![t] = <<>>]
        /\ UNCHANGED <<formOf, heap, at, rest, truth, acks, ackPipe>>
    BY <1>12 DEF Die, history, counting
  <2> QED
    BY <2>1, <2>2, TrueLost, Zenon
<1>13. CASE UNCHANGED vars
  <2>1. ThisCall
    BY <1>5, <1>13 DEF vars
  <2>2. UNCHANGED <<formOf, heap, sigs, at, rest, truth, acks, ackPipe>>
    BY <1>13 DEF vars
  <2> QED
    BY <2>1, <2>2, TrueUnchanged
<1> QED
  BY <1>3, <1>4, <1>6, <1>7, <1>8, <1>9, <1>10, <1>11, <1>12, <1>13, Zenon
  DEF Next, CollectorStep, OpensTimer, HandlerStep

-----------------------------------------------------------------------------
(* The forms of slot, in the order of the tids: each thread's own, once.   *)
LEMMA SlotFormsFacts ==
  ASSUME Constants, Types, OwnForms
  PROVE  /\ IsSlot(slotForms) /\ Len(slotForms) = Cardinality(slot)
         /\ \A i \in 1 .. Len(slotForms) :
              /\ slotForms[i].tid \in slot
              /\ slotForms[i].trace = heap[formOf[slotForms[i].tid]].trace
         /\ \A t \in slot : \E i \in 1 .. Len(slotForms) : slotForms[i].tid = t
<1> DEFINE R == {p \in slot \X slot : p[1] < p[2]}
           Rank(t) == Cardinality({u \in slot : u < t})
           n == Cardinality(slot)
<1>1. slot \subseteq Nat /\ IsFiniteSet(slot) /\ n \in Nat
  <2>1. slot \subseteq Nat
    BY Zenon DEF slot, Constants
  <2> QED
    BY <2>1, AnsweredFacts
<1>2. \A t, u \in slot : <<t, u>> \in R <=> t < u
  OBVIOUS
<1> HIDE DEF R
<1>3. /\ \A t \in slot : <<t, t>> \notin R
      /\ \A t, u, v \in slot : <<t, u>> \in R /\ <<u, v>> \in R => <<t, v>> \in R
      /\ \A t, u \in slot : t # u => <<t, u>> \in R \/ <<u, t>> \in R
  BY <1>1, <1>2
<1>4. \A t \in slot : Before(slot, R, t) = {u \in slot : u < t}
  BY <1>2 DEF Before
<1>5. /\ \A t \in slot : Cardinality(Before(slot, R, t)) \in 0 .. n - 1
      /\ \A t, u \in slot :
           Cardinality(Before(slot, R, t)) = Cardinality(Before(slot, R, u)) => t = u
      /\ \A i \in 1 .. n : \E t \in slot : Cardinality(Before(slot, R, t)) = i - 1
  <2>1. IsFiniteSet(slot)
    BY <1>1
  <2>2. \A t \in slot : <<t, t>> \notin R
    BY <1>3, Zenon
  <2>3. \A t, u, v \in slot : <<t, u>> \in R /\ <<u, v>> \in R => <<t, v>> \in R
    BY <1>3
  <2>4. \A t, u \in slot : t # u => <<t, u>> \in R \/ <<u, t>> \in R
    BY <1>3, Zenon
  <2> QED
    BY <2>1, <2>2, <2>3, <2>4, PlacesInOrder
<1>6. /\ \A t \in slot : Rank(t) \in 0 .. n - 1
      /\ \A t, u \in slot : Rank(t) = Rank(u) => t = u
      /\ \A i \in 1 .. n : \E t \in slot : Rank(t) = i - 1
  BY <1>4, <1>5, Zenon
<1>7. \A i : TidAt(i) = CHOOSE t \in slot : Rank(t) = i - 1
  BY DEF TidAt
<1>8. slotForms = [i \in 1 .. n |-> heap[formOf[TidAt(i)]]]
  BY DEF slotForms
<1> HIDE DEF Rank, n
<1>9. \A i \in 1 .. n : TidAt(i) \in slot /\ Rank(TidAt(i)) = i - 1
  BY <1>6, <1>7
<1>10. \A i \in 1 .. n : /\ heap[formOf[TidAt(i)]] \in [tid : Int, trace : Seq(Nat)]
                        /\ heap[formOf[TidAt(i)]].tid = TidAt(i)
  <2> SUFFICES ASSUME NEW i \in 1 .. n
               PROVE  /\ heap[formOf[TidAt(i)]] \in [tid : Int, trace : Seq(Nat)]
                      /\ heap[formOf[TidAt(i)]].tid = TidAt(i)
    OBVIOUS
  <2>1. formOf[TidAt(i)] \in Addrs /\ heap[formOf[TidAt(i)]].tid = TidAt(i)
    BY <1>9, OwnFormFacts
  <2>2. Threads \cup {-1} \subseteq Int
    BY DEF Constants
  <2> QED
    BY <2>1, <2>2 DEF Types, Form
<1>11. slotForms \in Seq([tid : Int, trace : Seq(Nat)]) /\ Len(slotForms) = n
  BY <1>1, <1>8, <1>10
<1>12. \A i \in 1 .. n : slotForms[i] = heap[formOf[TidAt(i)]] /\ slotForms[i].tid = TidAt(i)
  BY <1>8, <1>10
<1>13. \A i, j \in 1 .. n : TidAt(i) = TidAt(j) => i = j
  <2> SUFFICES ASSUME NEW i \in 1 .. n, NEW j \in 1 .. n, TidAt(i) = TidAt(j) PROVE i = j
    OBVIOUS
  <2>1. i - 1 = j - 1
    BY <1>9
  <2> QED
    BY <2>1
<1>14. \A t \in slot : \E i \in 1 .. n : TidAt(i) = t
  <2> SUFFICES ASSUME NEW t \in slot PROVE \E i \in 1 .. n : TidAt(i) = t
    OBVIOUS
  <2>1. Rank(t) + 1 \in 1 .. n /\ (Rank(t) + 1) - 1 = Rank(t)
    BY <1>1, <1>6
  <2>2. TidAt(Rank(t) + 1) = t
    BY <1>6, <1>9, <2>1
  <2> QED
    BY <2>1, <2>2
<1>15. IsSlot(slotForms)
  BY <1>11, <1>12, <1>13 DEF IsSlot
<1> QED
  BY <1>9, <1>11, <1>12, <1>14, <1>15, Zenon DEF n

(* What Collect returns when each form in slot holds its thread's stack.   *)
LEMMA FinishTrue ==
  ASSUME Constants, Types, OwnForms, truth' = truth, result'.groups = Groups(slotForms),
         \A t \in slot : truth[t] = heap[formOf[t]].trace,
         \A t \in Threads \ slot : truth[t] = NoTrace
  PROVE  ReportsTruth'
<1> DEFINE G == result'.groups
           Places(t) == UNION {{g} \X {i \in DOMAIN g.tids : g.tids[i] = t} : g \in G}
           Listed(t) == {i \in DOMAIN PrettyTids(G) : PrettyTids(G)[i] = t}
<1>1. Grouped(G, slotForms, Len(slotForms)) /\ IsSlot(slotForms)
  BY SlotFormsFacts, GroupsCorrect
<1> HIDE DEF G
<1>2. /\ G \in SUBSET Results /\ IsFiniteSet(G)
      /\ \A g, h \in G : g.trace = h.trace => g = h
  BY <1>1 DEF Grouped
<1>3. \A g \in G : DOMAIN g.tids = 1 .. Len(g.tids)
  BY <1>2, LenProperties DEF Results
<1>4. \A g \in G : \A t : Holds(g, t) => t \in slot /\ truth[t] = g.trace
  <2> SUFFICES ASSUME NEW g \in G, NEW t, Holds(g, t) PROVE t \in slot /\ truth[t] = g.trace
    OBVIOUS
  <2>1. \A r \in G : \A u : Holds(r, u) =>
          \E i \in 1 .. Len(slotForms) : slotForms[i].tid = u /\ slotForms[i].trace = r.trace
    BY <1>1, Zenon DEF Grouped
  <2>2. PICK i \in 1 .. Len(slotForms) : slotForms[i].tid = t /\ slotForms[i].trace = g.trace
    BY <2>1, Zenon
  <2> QED
    BY <2>2, SlotFormsFacts
<1>5. \A t \in Threads : \A p \in Places(t) : p[1].trace = truth[t]
  BY <1>3, <1>4 DEF Holds
<1>6. ASSUME NEW t \in Threads, truth[t] # NoTrace
      PROVE  Cardinality(Places(t)) = 1 /\ Cardinality(Listed(t)) = 1
  <2>1. t \in slot
    BY <1>6
  <2>2. PICK i \in 1 .. Len(slotForms) : slotForms[i].tid = t
    BY <2>1, SlotFormsFacts
  <2>3. PICK r \in G : Once(r.tids, t) /\ \A s \in G : s # r => Absent(s.tids, t)
    BY <1>1, <2>2, OneResult
  <2>4. PICK p \in 1 .. Len(r.tids) : \A k \in 1 .. Len(r.tids) : r.tids[k] = t <=> k = p
    BY <2>3 DEF Once
  <2>5. \A g \in G : {k \in DOMAIN g.tids : g.tids[k] = t} = IF g = r THEN {p} ELSE {}
    BY <1>3, <2>3, <2>4 DEF Absent
  <2>6. Places(t) = {<<r, p>>}
    BY <2>5
  <2>7. PrettyTids(G) \in Seq(Int) /\ Once(PrettyTids(G), t)
    BY <1>2, <2>3, ListedOnce
  <2>8. PICK q \in 1 .. Len(PrettyTids(G)) :
          \A k \in 1 .. Len(PrettyTids(G)) : PrettyTids(G)[k] = t <=> k = q
    BY <2>7, Zenon DEF Once
  <2>9. Listed(t) = {q}
    BY <2>7, <2>8, LenProperties
  <2> QED
    BY <2>6, <2>9, FS_Singleton, Zenon
<1> QED
  BY <1>2, <1>5, <1>6, Zenon DEF ReportsTruth, G

(* Unless there was no form, there is a result.                            *)
LEMMA FinishNotEmpty ==
  ASSUME Constants, Types, OwnForms, Groups(slotForms) = {}
  PROVE  slot = {}
<1>1. Grouped(Groups(slotForms), slotForms, Len(slotForms))
  BY SlotFormsFacts, GroupsCorrect, Zenon
<1>2. ~\E i \in 1 .. Len(slotForms) : TRUE
  BY <1>1 DEF Grouped
<1> QED
  BY <1>2, SlotFormsFacts

(* When Collect has counted enough acks, all forms are complete.           *)
LEMMA FinishAllAcked ==
  ASSUME Constants, Types, CallTrue, acks >= Cardinality(slot)
  PROVE  /\ \A t \in slot : truth[t] = heap[formOf[t]].trace
         /\ \A t \in Threads \ slot : truth[t] = NoTrace
<1>1. Acked \in SUBSET slot /\ slot \in SUBSET Threads
  BY DEF Acked, slot
<1>2. IsFiniteSet(slot) /\ Cardinality(slot) \in Nat
  BY AnsweredFacts
<1>3. Cardinality(Acked) \in Nat /\ Cardinality(Acked) <= Cardinality(slot)
  BY <1>1, <1>2, AckedCount, FS_Subset
<1>4. Cardinality(slot) = Cardinality(Acked)
  BY <1>2, <1>3 DEF CallTrue, Types
<1>5. Acked = slot
  BY <1>1, <1>2, <1>4, FS_Subset
<1> QED
  BY <1>1, <1>5 DEF CallTrue, ThreadTrue, Acked

(* A Collect that returns no group, and says nothing of an error, has      *)
(* asked no thread: the one empty result that @error does not explain.     *)
EmptyExplained ==
  result.status # "none" /\ result.groups = {} /\ ~result.error
    => result.asked = {}

(* What a Collect that has returned says. *)
Reported ==
  /\ result.status = "failed" => result.error
  /\ EmptyExplained
  /\ ResultsCorrect

(* It is right when Collect returns, and no later step changes it.         *)
LEMMA ReportedStep ==
  ASSUME Constants, Types, Tidy, Counted, Truthful, Reported, [Next]_vars
  PROVE  Reported'
<1>1. CASE Finish
  <2>1. /\ result'.status = "ok" /\ result'.groups = Groups(slotForms) /\ result'.error = FALSE
        /\ result'.asked = slot /\ truth' = truth /\ forsaken' = forsaken
        /\ cpc = "ack" /\ acks >= Cardinality(slot)
    BY <1>1 DEF Finish, Return, history, tids
  <2>2. OwnForms
    BY DEF Truthful
  <2>3. EmptyExplained'
    BY <2>1, <2>2, FinishNotEmpty DEF EmptyExplained
  <2>4. ASSUME ~forsaken' PROVE ReportsTruth'
    <3>1. CallTrue
      BY <2>1, <2>4 DEF Truthful
    <3>2. /\ \A t \in slot : truth[t] = heap[formOf[t]].trace
          /\ \A t \in Threads \ slot : truth[t] = NoTrace
      BY <2>1, <3>1, FinishAllAcked
    <3> QED
      BY <2>1, <2>2, <3>2, FinishTrue
  <2> QED
    BY <2>1, <2>3, <2>4 DEF Reported, ResultsCorrect
<1>2. CASE CreateFails \/ SettimeFails \/ TimeOut
  <2>1. result'.status = "failed" /\ result'.error = TRUE
    <3>1. CASE CreateFails
      BY <3>1 DEF CreateFails, Return
    <3>2. CASE SettimeFails
      BY <3>2 DEF SettimeFails, Return
    <3>3. CASE TimeOut
      BY <3>3 DEF TimeOut, Return
    <3> QED
      BY <1>2, <3>1, <3>2, <3>3, Zenon
  <2> QED
    BY <2>1 DEF Reported, EmptyExplained, ResultsCorrect
<1>3. CASE Start
  <2>1. result'.status = "none"
    BY <1>3 DEF Start, NoResult
  <2> QED
    BY <2>1 DEF Reported, EmptyExplained, ResultsCorrect
<1>4. CASE StartNoPipe
  <2>1. result'.status = "failed" /\ result'.error = TRUE
    BY <1>4 DEF StartNoPipe, NoResult
  <2> QED
    BY <2>1 DEF Reported, EmptyExplained, ResultsCorrect
<1>5. ASSUME UNCHANGED <<result, truth, forsaken>> PROVE Reported'
  BY <1>5 DEF Reported, EmptyExplained, ResultsCorrect, ReportsTruth
<1>6. CASE \/ \E t \in Threads : SignalFails(t) \/ \E a \in Addrs : Signal(t, a)
           \/ TimerFires \/ ReadAck \/ ArmTimer \/ UNCHANGED vars
  BY <1>5, <1>6 DEF SignalFails, Signal, TimerFires, ReadAck, ArmTimer, history, vars
<1>7. CASE \E t \in Threads : HandlerFails(t) \/ AddAddress(t) \/ Submit(t) \/ Die(t)
  BY <1>5, <1>7 DEF HandlerFails, AddAddress, Submit, Die, history
<1>8. ASSUME NEW t \in Threads, NEW s \in Stacks[t], HandlerStarts(t, s) PROVE Reported'
  <2>1. result' = result /\ forsaken' = forsaken /\ sigs[t] # <<>>
    BY <1>8, Zenon DEF HandlerStarts
  <2>2. ~(result.status = "ok" /\ ~forsaken)
    BY <2>1 DEF Counted, Outstanding
  <2> QED
    BY <2>1, <2>2 DEF Reported, EmptyExplained, ResultsCorrect
<1> QED
  BY <1>1, <1>2, <1>3, <1>4, <1>6, <1>7, <1>8 DEF Next, CollectorStep, OpensTimer, HandlerStep

-----------------------------------------------------------------------------
CollectorInv ==
  Types /\ Tidy /\ FilesKnown /\ Flags /\ Counted /\ Truthful /\ Reported

(* The first Collect finds nothing open, sent or allocated.                *)
LEMMA InitInv == Constants /\ Init => CollectorInv
<1> SUFFICES ASSUME Constants, Init PROVE CollectorInv
  OBVIOUS
<1>1. Free \in Form /\ Free.trace = <<>> /\ Len(<<>>) = 0
  BY DEF Free, Form
<1>2. Types
  BY <1>1 DEF Init, Types, Constants
<1>3. Tidy /\ FilesKnown
  BY DEF Init, Tidy, FilesKnown, Constants
<1>4. Flags
  BY Zenon DEF Init, Flags, NoResult
<1>5. Counted
  BY DEF Init, Counted, NoResult
<1>6. Truthful
  <2>1. NoTrace \in Seq(Int)
    BY DEF NoTrace
  <2> QED
    BY <2>1 DEF Init, Truthful, OwnForms, slot
<1>7. Reported
  BY DEF Init, Reported, EmptyExplained, ResultsCorrect, NoResult
<1> QED
  BY <1>2, <1>3, <1>4, <1>5, <1>6, <1>7 DEF CollectorInv

(* The invariant of Collect and InternalHandler.                           *)
THEOREM CollectorInvariant == ASSUME Constants PROVE Spec => []CollectorInv
<1>1. Init => CollectorInv
  BY InitInv
<1>2. CollectorInv /\ [Next]_vars => CollectorInv'
  BY BaseStep, FilesStep, FlagsStep, CountStep, TruthfulStep, ReportedStep DEF CollectorInv
<1> QED
  BY <1>1, <1>2, PTL DEF Spec

(* Types, among them that no trace is deeper than kMaxDepth. *)
THEOREM CollectorTypes == ASSUME Constants PROVE Spec => []TypeOK
<1>1. CollectorInv => TypeOK
  <2> SUFFICES ASSUME CollectorInv PROVE TypeOK
    OBVIOUS
  <2>1. \A a \in Addrs : heap[a].tid \in Threads \cup {-1} /\ Len(heap[a].trace) <= kMaxDepth
    BY DEF CollectorInv, Types, Form
  <2>2. /\ round \in 0 .. MaxRounds /\ closes \in 0 .. 3
        /\ fds \in closes .. MaxRounds + 3 /\ unset \in 0 .. round
    BY DEF CollectorInv, FilesKnown, Types, Constants
  <2> QED
    BY <2>1, <2>2 DEF CollectorInv, Types, Flags, TypeOK
<1> QED
  BY <1>1, CollectorInvariant, PTL

(* Whatever Collect meets on its way, it closes what it opened, but for    *)
(* one timer for each timerfd_settime that failed.                         *)
THEOREM FdsReturnedCorrect == ASSUME Constants PROVE Spec => []FdsReturned
<1>1. CollectorInv => FdsReturned
  BY DEF CollectorInv, FilesKnown, FdsReturned
<1> QED
  BY <1>1, CollectorInvariant, PTL

(* With any number of threads, dying, failing to answer or late: when      *)
(* Collect has counted enough acks to succeed, the handlers of all threads *)
(* it signalled are over, so none writes to a form it frees.               *)
THEOREM NoHandlerLeftCorrect == ASSUME Constants PROVE Spec => []NoHandlerLeft
<1>1. CollectorInv => NoHandlerLeft
  BY DEF CollectorInv, Counted, NoHandlerLeft
<1> QED
  BY <1>1, CollectorInvariant, PTL

(* What a Collect that succeeds returns is the truth, for any number of    *)
(* threads, any stacks and any interleaving of handlers, deaths, acks and  *)
(* timer: each thread is in exactly one group, once, with the stack its    *)
(* handler walked, cut at kMaxDepth; no two groups have the same trace;    *)
(* and ToPrettyString lists each thread once.  The exception is a call     *)
(* that began with handlers of an earlier one still to run.                *)
THEOREM ReportsCorrect == ASSUME Constants PROVE Spec => []ResultsCorrect
<1>1. CollectorInv => ResultsCorrect
  BY DEF CollectorInv, Reported
<1> QED
  BY <1>1, CollectorInvariant, PTL

(* An empty result without an error: there was no thread to ask.           *)
THEOREM EmptyExplainedCorrect == ASSUME Constants PROVE Spec => []EmptyExplained
<1>1. CollectorInv => EmptyExplained
  BY DEF CollectorInv, Reported
<1> QED
  BY <1>1, CollectorInvariant, PTL

-----------------------------------------------------------------------------
(* Collect returns after it has signalled, and without its acks. *)
GivesUp == CreateFails \/ SettimeFails \/ TimeOut

(* No handler outlives its call. *)
NoneLate == ~forsaken /\ (cpc = "idle" => Outstanding = {})

(* A Collect that succeeds leaves none by itself, one that gives up by     *)
(* assumption, so the next call starts with none.                          *)
LEMMA NoneLateStep ==
  ASSUME CollectorInv, CollectorInv', NoneLate, [Next]_vars, [GivesUp => Outstanding = {}]_vars
  PROVE  NoneLate'
<1>0. Outstanding' = Outstanding \/ ~UNCHANGED <<sigs, at>>
  BY DEF Outstanding
<1>1. CASE Start
  BY <1>1, Zenon DEF Start, NoneLate
<1>2. CASE StartNoPipe
  BY <1>0, <1>2 DEF StartNoPipe, ForgetHistory, NoneLate, handlers
<1>3. CASE Finish
  <2>1. forsaken' = forsaken /\ result'.status = "ok" /\ cpc' = "idle"
    BY <1>3 DEF Finish, Return, history
  <2> QED
    BY <2>1 DEF NoneLate, CollectorInv, Counted
<1>4. CASE GivesUp
  <2>1. UNCHANGED <<sigs, at>> /\ (forsaken' = forsaken \/ forsaken' = FALSE)
    BY <1>4 DEF GivesUp, CreateFails, SettimeFails, TimeOut, Return, ForgetHistory, history, handlers
  <2>2. Outstanding = {} \/ UNCHANGED vars
    BY <1>4
  <2> QED
    BY <1>0, <2>1, <2>2 DEF NoneLate, vars
<1>5. CASE (\E t \in Threads : SignalFails(t) \/ \E a \in Addrs : Signal(t, a))
           \/ ArmTimer \/ TimerFires \/ ReadAck
  <2>1. forsaken' = forsaken /\ cpc # "idle" /\ cpc' \in {cpc, "ack"}
    BY <1>5 DEF SignalFails, Signal, ArmTimer, TimerFires, ReadAck, history
  <2> QED
    BY <2>1 DEF NoneLate
<1>6. CASE \E t \in Threads : HandlerStep(t)
  <2>1. forsaken' = forsaken /\ cpc' = cpc /\ Outstanding # {}
    BY <1>6 DEF HandlerStep, HandlerStarts, HandlerFails, AddAddress, Submit, history, Outstanding
  <2> QED
    BY <2>1 DEF NoneLate
<1>7. CASE \E t \in Threads : Die(t)
  <2>1. forsaken' = forsaken /\ cpc' = cpc /\ Outstanding' \subseteq Outstanding
    BY <1>7 DEF Die, history, Outstanding, CollectorInv, Types
  <2> QED
    BY <2>1 DEF NoneLate
<1>8. CASE UNCHANGED vars
  BY <1>0, <1>8 DEF vars, NoneLate
<1> QED
  BY <1>1, <1>2, <1>3, <1>4, <1>5, <1>6, <1>7, <1>8 DEF Next, CollectorStep, OpensTimer, GivesUp

(* The groups are lists of tids with a trace. *)
GroupsTyped == result.groups \in SUBSET Results

(* They are what grouping the forms makes, or none. *)
LEMMA GroupsTypedStep ==
  ASSUME Constants, CollectorInv, GroupsTyped, [Next]_vars
  PROVE  GroupsTyped'
<1>1. CASE Finish
  <2>1. result'.groups = Groups(slotForms)
    BY <1>1 DEF Finish, Return
  <2>2. Grouped(Groups(slotForms), slotForms, Len(slotForms))
    BY SlotFormsFacts, GroupsCorrect, Zenon DEF CollectorInv, Truthful
  <2> QED
    BY <2>1, <2>2, Zenon DEF Grouped, GroupsTyped
<1>2. CASE CreateFails \/ SettimeFails \/ TimeOut
  <2>1. result'.groups = {}
    <3>1. CASE CreateFails
      BY <3>1 DEF CreateFails, Return
    <3>2. CASE SettimeFails
      BY <3>2 DEF SettimeFails, Return
    <3>3. CASE TimeOut
      BY <3>3 DEF TimeOut, Return
    <3> QED
      BY <1>2, <3>1, <3>2, <3>3, Zenon
  <2> QED
    BY <2>1 DEF GroupsTyped
<1>3. CASE Start \/ StartNoPipe
  <2>1. result' = NoResult \/ result' = [NoResult EXCEPT !.status = "failed", !.error = TRUE]
    BY <1>3 DEF Start, StartNoPipe
  <2>2. NoResult.groups = {} /\ "groups" \in DOMAIN NoResult
    BY DEF NoResult
  <2>3. [NoResult EXCEPT !.status = "failed", !.error = TRUE].groups = NoResult.groups
    BY <2>2
  <2>4. result'.groups = {}
    BY <2>1, <2>2, <2>3
  <2> QED
    BY <2>4 DEF GroupsTyped
<1>4. CASE \/ \E t \in Threads : SignalFails(t) \/ \E a \in Addrs : Signal(t, a)
           \/ TimerFires \/ ReadAck \/ ArmTimer \/ UNCHANGED vars
           \/ \E t \in Threads : HandlerStep(t) \/ Die(t)
  BY <1>4 DEF SignalFails, Signal, TimerFires, ReadAck, ArmTimer, vars, HandlerStep, HandlerStarts,
              HandlerFails, AddAddress, Submit, Die, GroupsTyped
<1> QED
  BY <1>1, <1>2, <1>3, <1>4 DEF Next, CollectorStep, OpensTimer

(* A thread that is in one group, once, with its trace is reported. *)
LEMMA TruthIsReported ==
  ASSUME GroupsTyped, ReportsTruth
  PROVE  ResultsAlwaysCorrect
<1> SUFFICES ASSUME NEW t \in Threads, truth[t] # NoTrace
             PROVE  \E g \in result.groups : g.trace = truth[t] /\ \E i \in 1 .. Len(g.tids) : g.tids[i] = t
  BY DEF ResultsAlwaysCorrect
<1> DEFINE Places == UNION {{g} \X {i \in DOMAIN g.tids : g.tids[i] = t} : g \in result.groups}
<1>1. Cardinality(Places) = 1 /\ \A p \in Places : p[1].trace = truth[t]
  BY DEF ReportsTruth
<1>2. PICK p \in Places : TRUE
  <2>1. Places # {}
    <3> HIDE DEF Places
    <3> QED
      BY <1>1, FS_EmptySet
  <2> QED
    BY <2>1, Zenon
<1>3. p[1] \in result.groups /\ p[2] \in DOMAIN p[1].tids /\ p[1].tids[p[2]] = t
  BY <1>2
<1>4. DOMAIN p[1].tids = 1 .. Len(p[1].tids)
  BY <1>3, LenProperties DEF GroupsTyped, Results
<1> QED
  BY <1>1, <1>2, <1>3, <1>4

(* signal_handler.h's "Returns stack traces of all threads" holds of every *)
(* Collect that succeeds if no Collect gives up while a handler it asked   *)
(* for is still to run or running: such handlers are the only cause of a   *)
(* wrong result.  Without them each handler writes to the form of its own  *)
(* thread, which has not been freed.                                       *)
THEOREM AlwaysCorrectIfNoneLate ==
  ASSUME Constants
  PROVE  Spec /\ [][GivesUp => Outstanding = {}]_vars
           => /\ [](ResultsAlwaysCorrect /\ (result.status = "ok" => ReportsTruth))
              /\ [](\A t \in Threads : at[t] # NoAddr => heap[at[t]] # Free /\ heap[at[t]].tid = t)
<1>1. Init => NoneLate /\ GroupsTyped
  BY DEF Init, NoneLate, Outstanding, GroupsTyped, NoResult
<1>2. CollectorInv /\ CollectorInv' /\ NoneLate /\ GroupsTyped /\ [Next]_vars
        /\ [GivesUp => Outstanding = {}]_vars => NoneLate' /\ GroupsTyped'
  BY NoneLateStep, GroupsTypedStep
<1>3. CollectorInv /\ NoneLate /\ GroupsTyped
        => ResultsAlwaysCorrect /\ (result.status = "ok" => ReportsTruth)
  <2> SUFFICES ASSUME CollectorInv, NoneLate, GroupsTyped, result.status = "ok"
               PROVE  ReportsTruth
    BY TruthIsReported DEF ResultsAlwaysCorrect
  <2> QED
    BY DEF CollectorInv, NoneLate, Reported, ResultsCorrect
<1>4. CollectorInv /\ NoneLate
        => \A t \in Threads : at[t] # NoAddr => heap[at[t]] # Free /\ heap[at[t]].tid = t
  <2> SUFFICES ASSUME CollectorInv, NoneLate, NEW t \in Threads, at[t] # NoAddr
               PROVE  heap[at[t]] # Free /\ heap[at[t]].tid = t
    OBVIOUS
  <2>1. cpc # "idle"
    BY DEF NoneLate, Outstanding
  <2>2. ThreadTrue(t)
    BY <2>1 DEF CollectorInv, NoneLate, Truthful, CallTrue
  <2>3. at[t] = formOf[t] /\ t \in slot
    BY <2>2 DEF ThreadTrue, slot
  <2> QED
    BY <2>3, OwnFormFacts DEF CollectorInv, Truthful
<1> QED
  BY <1>1, <1>2, <1>3, <1>4, CollectorInvariant, PTL DEF Spec
=============================================================================

------------------------------- MODULE ZQueue -------------------------------
(***************************************************************************)
(* zqueue<T> of src/zqueue.h: a std::queue guarded by mutex_, with the     *)
(* condition variable cv_ for consumers that find it empty.                *)
(*                                                                         *)
(* A critical section of mutex_ touches only what mutex_ guards, so it is  *)
(* one step.  What is not atomic in the code is not atomic here: push      *)
(* releases mutex_ before notify_one; a waiter that is notified, or whose  *)
(* two seconds are over, or that wakes for no reason, has still to get     *)
(* mutex_ again, and others may run in between; wait_for reads the clock   *)
(* only after it has mutex_ back, so a consumer can use up a notification  *)
(* and still report a timeout.                                             *)
(***************************************************************************)
EXTENDS Integers, Sequences, FiniteSets

CONSTANTS
  Producers,   \* threads that call push and clear
  Poppers,     \* threads that call pop, over and over
  TryPoppers,  \* threads that call try_pop, over and over
  Items,       \* the values of type T
  NoItem,      \* t before the first successful call
  Garbage,     \* what front() of an empty std::queue may return
  MaxPush      \* bound: number of pushes in a behaviour

Consumers == Poppers \cup TryPoppers

ASSUME ThreadsAssumption ==
  /\ Producers \cap Consumers = {}
  /\ Poppers \cap TryPoppers = {}
  /\ IsFiniteSet(Producers) /\ IsFiniteSet(Consumers)

ASSUME ItemsAssumption == NoItem \notin Items /\ Garbage \notin Items

ASSUME MaxPushAssumption == MaxPush \in Nat

VARIABLES
  que_,        \* the container
  pc,          \* where each thread is in its current call
  late,        \* late[c]: the two seconds of c's wait_for are over
  hist,        \* history: every value pushed
  gone,        \* history: how many values have left the container
  last         \* history: the value each consumer got last

vars == <<que_, pc, late, hist, gone, last>>

Waiting == {c \in Consumers : pc[c] = "waiting"}   \* asleep on cv_
Awake   ==            \* off cv_ without mutex_, or between two calls of try_pop
  {c \in Consumers : pc[c] = "woken" \/ (c \in TryPoppers /\ pc[c] = "idle")}
Notifying == {p \in Producers : pc[p] = "notify"}  \* pushed, notify_one to come

TypeOK ==
  /\ que_ \in Seq(Items)
  /\ pc \in [Producers \cup Consumers -> {"idle", "notify", "waiting", "woken"}]
  /\ \A p \in Producers : pc[p] \in {"idle", "notify"}
  /\ \A c \in Consumers : pc[c] \in {"idle", "waiting", "woken"}
  /\ late \in [Consumers -> BOOLEAN]
  /\ hist \in Seq(Items)
  /\ gone \in Nat
  /\ last \in [Consumers -> Items \cup {NoItem}]

Init ==
  /\ que_ = <<>>
  /\ pc = [t \in Producers \cup Consumers |-> "idle"]
  /\ late = [c \in Consumers |-> FALSE]
  /\ hist = <<>>
  /\ gone = 0
  /\ last = [c \in Consumers |-> NoItem]

-----------------------------------------------------------------------------
(* push: the critical section; notify_one is still to come. *)
PushQuietWhenBusy(p, v) ==        \* mutant: notify only when it was empty
  /\ pc[p] = "idle" /\ Len(hist) < MaxPush
  /\ que_' = Append(que_, v)
  /\ hist' = Append(hist, v)
  /\ pc' = [pc EXCEPT ![p] = IF que_ = <<>> THEN "notify" ELSE "idle"]
  /\ UNCHANGED <<late, gone, last>>

Push(p, v) ==
  /\ pc[p] = "idle" /\ Len(hist) < MaxPush
  /\ que_' = Append(que_, v)
  /\ hist' = Append(hist, v)
  /\ pc' = [pc EXCEPT ![p] = "notify"]
  /\ UNCHANGED <<late, gone, last>>

(* push: notify_one wakes one waiter, any of them, if there is one. *)
NotifyOne(p) ==
  /\ pc[p] = "notify"
  /\ \/ \E c \in Waiting : pc' = [pc EXCEPT ![p] = "idle", ![c] = "woken"]
     \/ Waiting = {} /\ pc' = [pc EXCEPT ![p] = "idle"]
  /\ UNCHANGED <<que_, late, hist, gone, last>>

(* clear pops until the container is empty. *)
Clear(p) ==
  /\ pc[p] = "idle" /\ que_ # <<>>
  /\ que_' = <<>>
  /\ gone' = Len(hist)
  /\ UNCHANGED <<pc, late, hist, last>>

-----------------------------------------------------------------------------
(* t = que_.front(); que_.pop(); return.  On an empty std::queue both are  *)
(* undefined.                                                              *)
Take(c) ==
  /\ last' = [last EXCEPT ![c] = IF que_ = <<>> THEN Garbage ELSE Head(que_)]
  /\ que_' = IF que_ = <<>> THEN <<>> ELSE Tail(que_)
  /\ gone' = gone + 1
  /\ pc' = [pc EXCEPT ![c] = "idle"]
  /\ UNCHANGED <<late, hist>>

(* A wait on cv_ starts: mutex_ is released and the clock starts anew. *)
Sleep(c) ==
  /\ pc' = [pc EXCEPT ![c] = "waiting"]
  /\ late' = [late EXCEPT ![c] = FALSE]
  /\ UNCHANGED <<que_, hist, gone, last>>

(* The head of the while loop of pop and try_pop, with mutex_ held. *)
TakeOrWait(c) ==
  \/ que_ # <<>> /\ Take(c)
  \/ que_ = <<>> /\ Sleep(c)

SleepFirst(c) == pc[c] = "idle" /\ Sleep(c)     \* mutant: do wait while empty

(* pop, try_pop: from the call to the first wait or to the return. *)
Begin(c) == pc[c] = "idle" /\ TakeOrWait(c)

TakeWhenWoken(c) == pc[c] = "woken" /\ ~late[c] /\ Take(c) \* mutant: if, not while

(* wait or wait_for returned without a timeout: the loop tests again. *)
Resume(c) == pc[c] = "woken" /\ ~late[c] /\ TakeOrWait(c)

(* wait_for returned cv_status::timeout: try_pop returns false, whatever   *)
(* the container holds by now.                                             *)
ReturnFalse(c) ==
  /\ pc[c] = "woken" /\ late[c]
  /\ pc' = [pc EXCEPT ![c] = "idle"]
  /\ UNCHANGED <<que_, late, hist, gone, last>>

(* The two seconds pass; a thread already notified is late all the same. *)
Expire(c) ==
  /\ c \in TryPoppers
  /\ pc[c] \in {"waiting", "woken"} /\ ~late[c]
  /\ late' = [late EXCEPT ![c] = TRUE]
  /\ pc' = [pc EXCEPT ![c] = "woken"]
  /\ UNCHANGED <<que_, hist, gone, last>>

(* A condition variable may wake a waiter for no reason. *)
SpuriousWakeup(c) ==
  /\ pc[c] = "waiting"
  /\ pc' = [pc EXCEPT ![c] = "woken"]
  /\ UNCHANGED <<que_, late, hist, gone, last>>

ConsumerStep(c) == Begin(c) \/ Resume(c) \/ ReturnFalse(c) \/ Expire(c)

Next ==
  \/ \E p \in Producers : \E v \in Items : Push(p, v)
  \/ \E p \in Producers : NotifyOne(p)
  \/ \E p \in Producers : Clear(p)
  \/ \E c \in Consumers : Begin(c)
  \/ \E c \in Consumers : Resume(c)
  \/ \E c \in Consumers : ReturnFalse(c)
  \/ \E c \in Consumers : Expire(c)
  \/ \E c \in Consumers : SpuriousWakeup(c)

Spec == Init /\ [][Next]_vars

(* A thread inside push, pop or try_pop keeps running, the two seconds     *)
(* pass, and the consumers call again: their loops are endless in          *)
(* src/trace_agent.h.  Nothing makes a producer push.                      *)
Fairness ==
  /\ \A p \in Producers : WF_vars(NotifyOne(p))
  /\ \A c \in Consumers : WF_vars(ConsumerStep(c))

LiveSpec == Spec /\ Fairness

-----------------------------------------------------------------------------
(* The consumers in a call that has waited, and may be waiting again. *)
Blocked == {c \in Consumers : pc[c] # "idle"}

Fifo == INSTANCE FifoQueue WITH blocked <- Blocked

(* zqueue is a first-in first-out queue: no value is lost, delivered       *)
(* twice, reordered or made up, whatever the interleaving of push, pop,    *)
(* try_pop and clear, the spurious wakeups and the timeouts.  pop and      *)
(* try_pop wait only if they find it empty, pop returns with a value, and  *)
(* try_pop returns without one only if it has waited.                      *)
IsFifo == Fifo!Spec

(* The container is the part of the history that has not left, in order.   *)
QueueIsSuffix ==
  /\ gone + Len(que_) = Len(hist)
  /\ \A i \in 1 .. Len(que_) : que_[i] = hist[gone + i]

(* No wakeup is lost: while a consumer sleeps in pop or try_pop, every     *)
(* value in the container has a thread on its way to it: a producer that   *)
(* has still to call notify_one (push calls it after unlock), a consumer   *)
(* that is awake, or one between two calls of try_pop, which will look at  *)
(* the container at once.  The last kind is needed: a try_pop whose two    *)
(* seconds are over uses up a notification, returns false and leaves the   *)
(* value behind while another consumer sleeps.                             *)
NoLostWakeup ==
  Waiting # {} => Len(que_) <= Cardinality(Notifying) + Cardinality(Awake)

(* A thread looping on try_pop empties the queue even though try_pop may   *)
(* use up a notification and return false: each pushed value leaves.       *)
EveryItemLeaves == \A n \in 1 .. MaxPush : Len(hist) >= n ~> gone >= n
=============================================================================

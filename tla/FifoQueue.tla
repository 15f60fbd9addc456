------------------------------ MODULE FifoQueue ------------------------------
(***************************************************************************)
(* What zqueue<T> (src/zqueue.h) promises its callers: a first-in          *)
(* first-out queue.  There is no container here, only the history: the     *)
(* sequence of values ever pushed and how many of them have left.  The     *)
(* value a consumer obtains is the oldest one that has not left yet.  A    *)
(* call blocks only if it finds the queue empty; a call that has blocked   *)
(* may end without a value if it is a try_pop, whatever was pushed since.  *)
(***************************************************************************)
EXTENDS Integers, Sequences

CONSTANTS
  Consumers,   \* threads that call pop or try_pop
  TryPoppers,  \* those that call try_pop
  Items,       \* the values of type T
  NoItem,      \* what a consumer holds before its first successful call
  MaxPush      \* bound: number of pushes in a behaviour

VARIABLES
  hist,        \* every value pushed, in the order of the pushes
  gone,        \* how many of them have left the queue
  last,        \* last[c]: the value c's latest successful call gave it
  blocked      \* consumers in a call that has found the queue empty

fifoVars == <<hist, gone, last, blocked>>

Init ==
  /\ hist = <<>>
  /\ gone = 0
  /\ last = [c \in Consumers |-> NoItem]
  /\ blocked = {}

Put(v) ==
  /\ Len(hist) < MaxPush
  /\ hist' = Append(hist, v)
  /\ UNCHANGED <<gone, last, blocked>>

Get(c) ==
  /\ gone < Len(hist)
  /\ last' = [last EXCEPT ![c] = hist[gone + 1]]
  /\ gone' = gone + 1
  /\ blocked' = blocked \ {c}
  /\ UNCHANGED hist

Block(c) ==
  /\ c \notin blocked /\ gone = Len(hist)
  /\ blocked' = blocked \cup {c}
  /\ UNCHANGED <<hist, gone, last>>

GiveUp(c) ==
  /\ c \in blocked \cap TryPoppers
  /\ blocked' = blocked \ {c}
  /\ UNCHANGED <<hist, gone, last>>

Flush ==
  /\ gone' = Len(hist)
  /\ UNCHANGED <<hist, last, blocked>>

Next ==
  \/ \E v \in Items : Put(v)
  \/ \E c \in Consumers : Get(c) \/ Block(c) \/ GiveUp(c)
  \/ Flush

Spec == Init /\ [][Next]_fifoVars
=============================================================================

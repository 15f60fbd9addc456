----------------------------- MODULE Rendezvous -----------------------------
(***************************************************************************)
(* What a channel of capacity zero promises (src/ts/common/channel.h, for  *)
(* UnbufferedChannel): a value passes from a write that is being offered   *)
(* to a read that is being made, at one instant; the write then reports    *)
(* success, and a write that no read took reports a timeout.  There is no  *)
(* mutex, condition variable or handshake zone here.                       *)
(***************************************************************************)
CONSTANTS
  Writers, Readers,
  Values,       \* the values of type ValueType
  Default,      \* ValueType()
  NoValue       \* nothing written or read yet

VARIABLES
  wst,          \* each writer: idle, offering, or accepted by a reader
  offer,        \* the value of its latest Write
  outcome,      \* what its latest finished Write reported
  rst,          \* each reader: idle or wanting
  got,          \* the value of its latest finished Read
  closed,       \* Close() has happened
  crashed       \* a LOG(FATAL) has ended the process

rendezvousVars == <<wst, offer, outcome, rst, got, closed, crashed>>

Init ==
  /\ wst = [w \in Writers |-> "idle"]
  /\ offer = [w \in Writers |-> NoValue]
  /\ outcome = [w \in Writers |-> "none"]
  /\ rst = [r \in Readers |-> "idle"]
  /\ got = [r \in Readers |-> NoValue]
  /\ closed = FALSE
  /\ crashed = FALSE

Offer(w, v) ==
  /\ wst[w] = "idle"
  /\ wst' = [wst EXCEPT ![w] = "offering"]
  /\ offer' = [offer EXCEPT ![w] = v]
  /\ outcome' = [outcome EXCEPT ![w] = "none"]
  /\ UNCHANGED <<rst, got, closed, crashed>>

Want(r) ==
  /\ rst[r] = "idle"
  /\ rst' = [rst EXCEPT ![r] = "wanting"]
  /\ UNCHANGED <<wst, offer, outcome, got, closed, crashed>>

(* The one step in which a value changes hands. *)
Transfer(w, r) ==
  /\ wst[w] = "offering" /\ rst[r] = "wanting" /\ ~closed
  /\ wst' = [wst EXCEPT ![w] = "accepted"]
  /\ rst' = [rst EXCEPT ![r] = "idle"]
  /\ got' = [got EXCEPT ![r] = offer[w]]
  /\ UNCHANGED <<offer, outcome, closed, crashed>>

Finish(w, from, report) ==
  /\ wst[w] = from
  /\ wst' = [wst EXCEPT ![w] = "idle"]
  /\ outcome' = [outcome EXCEPT ![w] = report]
  /\ UNCHANGED <<offer, rst, got, closed, crashed>>

ReadNothing(r) ==                          \* a timeout; got is untouched
  /\ rst[r] = "wanting" /\ ~closed
  /\ rst' = [rst EXCEPT ![r] = "idle"]
  /\ UNCHANGED <<wst, offer, outcome, got, closed, crashed>>

ReadClosed(r) ==
  /\ rst[r] = "wanting" /\ closed
  /\ rst' = [rst EXCEPT ![r] = "idle"]
  /\ got' = [got EXCEPT ![r] = Default]
  /\ UNCHANGED <<wst, offer, outcome, closed, crashed>>

Close ==
  /\ ~closed
  /\ closed' = TRUE
  /\ UNCHANGED <<wst, offer, outcome, rst, got, crashed>>

(* A value is still being offered to a closed channel, or Close is called  *)
(* on a closed channel.                                                    *)
Crash ==
  /\ closed
  /\ crashed' = TRUE
  /\ UNCHANGED <<wst, offer, outcome, rst, got, closed>>

Next ==
  /\ ~crashed
  /\ \/ \E w \in Writers :
          \/ \E v \in Values : Offer(w, v)
          \/ Finish(w, "accepted", "written")
          \/ Finish(w, "offering", "timedout")
          \/ \E r \in Readers : Transfer(w, r)
     \/ \E r \in Readers : Want(r) \/ ReadNothing(r) \/ ReadClosed(r)
     \/ Close
     \/ Crash

Spec == Init /\ [][Next]_rendezvousVars
=============================================================================

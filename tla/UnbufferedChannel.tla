-------------------------- MODULE UnbufferedChannel --------------------------
(***************************************************************************)
(* UnbufferedChannel of src/ts/common/unbuffered_channel.h: writers and    *)
(* readers meet in a handshake zone guarded by m_, with one condition      *)
(* variable for the writers outside the zone, one for the readers and one  *)
(* for the writer inside.                                                  *)
(*                                                                         *)
(* A critical section of m_ is one step.  A thread that calls ("wCall",    *)
(* "rCall"), or that leaves a condition variable ("wLock", "hLock",        *)
(* "rLock"), first competes for m_: whoever comes first may overtake it.   *)
(* Each wait is a wait_for with a predicate: with m_ back, the predicate   *)
(* decides, and the deadline matters only if it is false.                  *)
(***************************************************************************)
EXTENDS Integers, FiniteSets

CONSTANTS
  Writers, Readers, Closers,   \* threads that call Write, Read, Close
  Timed,        \* threads that pass a wait_duration; others pass kInifinity
  Values,       \* the values of type ValueType
  Default,      \* ValueType()
  NoValue,      \* a variable that holds no value yet
  Dangling,     \* *item_ once the Write that set item_ has returned
  NoWriter,     \* item_ = nullptr
  MaxWrites     \* bound: Write calls of each writer

Threads == Writers \cup Readers \cup Closers

ASSUME ThreadsAssumption ==
  /\ Writers \cap Readers = {}
  /\ Closers \cap (Writers \cup Readers) = {}
  /\ NoWriter \notin Writers

ASSUME MaxWritesAssumption == MaxWrites \in Nat

VARIABLES
  closed_, writter_in_zone_, reader_in_zone_,
  item_,        \* the Write whose argument it points to, or NoWriter
  pc,           \* where each thread is in its call
  late,         \* the deadline of the thread's current wait_for has passed
  val,          \* the argument of each writer's latest Write
  outcome,      \* what that Write reported
  got,          \* the value of each reader's latest Read
  writes,       \* number of Write calls of each writer
  expired,      \* history: deadlines that passed during each writer's latest Write
  crashed       \* LOG(FATAL) aborted the process

vars == <<closed_, writter_in_zone_, reader_in_zone_, item_, pc, late,
          val, outcome, got, writes, expired, crashed>>

zone == <<closed_, writter_in_zone_, reader_in_zone_, item_>>
data == <<val, outcome, got, writes, expired>>

Asleep(label) == {t \in Threads : pc[t] = label}

WriterLabels == {"idle", "wCall", "wLock", "wWait", "hLock", "hWait"}
ReaderLabels == {"idle", "rCall", "rLock", "rWait"}
CloserLabels == {"idle", "nWriters", "nReaders", "nHandshake", "done"}

InZone == {w \in Writers : pc[w] \in {"hLock", "hWait"}}

TypeOK ==
  /\ closed_ \in BOOLEAN
  /\ writter_in_zone_ \in BOOLEAN
  /\ reader_in_zone_ \in BOOLEAN
  /\ item_ \in Writers \cup {NoWriter}
  /\ pc \in [Threads -> WriterLabels \cup ReaderLabels \cup CloserLabels]
  /\ \A w \in Writers : pc[w] \in WriterLabels
  /\ \A r \in Readers : pc[r] \in ReaderLabels
  /\ \A k \in Closers : pc[k] \in CloserLabels
  /\ late \in [Threads -> BOOLEAN]
  /\ val \in [Writers -> Values \cup {NoValue}]
  /\ outcome \in [Writers -> {"none", "written", "timedout"}]
  /\ got \in [Readers -> Values \cup {NoValue, Default}]
  /\ writes \in [Writers -> 0 .. MaxWrites]
  /\ expired \in [Writers -> Nat]
  /\ crashed \in BOOLEAN

Init ==
  /\ closed_ = FALSE
  /\ writter_in_zone_ = FALSE
  /\ reader_in_zone_ = FALSE
  /\ item_ = NoWriter
  /\ pc = [t \in Threads |-> "idle"]
  /\ late = [t \in Threads |-> FALSE]
  /\ val = [w \in Writers |-> NoValue]
  /\ outcome = [w \in Writers |-> "none"]
  /\ got = [r \in Readers |-> NoValue]
  /\ writes = [w \in Writers |-> 0]
  /\ expired = [w \in Writers |-> 0]
  /\ crashed = FALSE

(* notify_one: f with one of the threads asleep at label moved on to m_.   *)
WakeOne(f, label, lock) ==
  IF Asleep(label) = {} THEN {f}
  ELSE {[f EXCEPT ![t] = lock] : t \in Asleep(label)}

(* notify_all *)
WakeAll(f, label, lock) ==
  [t \in Threads |-> IF pc[t] = label THEN lock ELSE f[t]]

Goto(t, label) == pc' = [pc EXCEPT ![t] = label]

-----------------------------------------------------------------------------
(* Write: the call, up to its first attempt to lock m_. *)
CallWrite(w, v) ==
  /\ pc[w] = "idle" /\ writes[w] < MaxWrites
  /\ Goto(w, "wCall")
  /\ late' = [late EXCEPT ![w] = FALSE]
  /\ val' = [val EXCEPT ![w] = v]
  /\ outcome' = [outcome EXCEPT ![w] = "none"]
  /\ writes' = [writes EXCEPT ![w] = @ + 1]
  /\ expired' = [expired EXCEPT ![w] = 0]
  /\ UNCHANGED <<zone, got, crashed>>

(* No writer in the zone: enter, set item_, notify one reader and wait on  *)
(* handshake_ (or not, should the predicate hold at once).                 *)
EnterZone(w) ==
  /\ pc[w] \in {"wCall", "wLock"} /\ ~closed_ /\ ~writter_in_zone_
  /\ writter_in_zone_' = TRUE
  /\ item_' = w
  /\ pc' \in WakeOne([pc EXCEPT ![w] = IF reader_in_zone_ THEN "hLock" ELSE "hWait"],
                     "rWait", "rLock")
  /\ late' = [late EXCEPT ![w] = FALSE]
  /\ UNCHANGED <<closed_, reader_in_zone_, data, crashed>>

(* A writer is in the zone: sleep on writers_, or report a timeout. *)
StayOut(w) ==
  /\ pc[w] \in {"wCall", "wLock"} /\ ~closed_ /\ writter_in_zone_
  /\ \/ ~late[w] /\ Goto(w, "wWait") /\ UNCHANGED outcome
     \/ late[w] /\ Goto(w, "idle") /\ outcome' = [outcome EXCEPT ![w] = "timedout"]
  /\ UNCHANGED <<zone, late, val, got, writes, expired, crashed>>

(* LOG_IF(FATAL, ...): the channel is closed and the value was not taken. *)
WriteFatal(w) ==
  /\ closed_
  /\ pc[w] \in {"wCall", "wLock"} \/ (pc[w] = "hLock" /\ ~reader_in_zone_)
  /\ crashed' = TRUE
  /\ UNCHANGED <<zone, pc, late, data>>

(* In the zone, the handshake has not happened: sleep again on handshake_. *)
KeepWaiting(w) ==
  /\ pc[w] = "hLock" /\ ~closed_ /\ ~reader_in_zone_ /\ ~late[w]
  /\ Goto(w, "hWait")
  /\ UNCHANGED <<zone, late, data, crashed>>

(* In the zone, no reader came in time: leave, report a timeout. *)
LeaveZoneOnTimeoutAlways(w) ==      \* mutant: trusts the clock, not the predicate
  /\ pc[w] = "hLock" /\ ~closed_ /\ late[w]
  /\ writter_in_zone_' = FALSE
  /\ pc' \in WakeOne([pc EXCEPT ![w] = "idle"], "wWait", "wLock")
  /\ outcome' = [outcome EXCEPT ![w] = "timedout"]
  /\ UNCHANGED <<closed_, reader_in_zone_, item_, late, val, got, writes, expired, crashed>>

LeaveZoneOnTimeout(w) ==
  /\ pc[w] = "hLock" /\ ~closed_ /\ ~reader_in_zone_ /\ late[w]
  /\ writter_in_zone_' = FALSE
  /\ pc' \in WakeOne([pc EXCEPT ![w] = "idle"], "wWait", "wLock")
  /\ outcome' = [outcome EXCEPT ![w] = "timedout"]
  /\ UNCHANGED <<closed_, reader_in_zone_, item_, late, val, got, writes, expired, crashed>>

(* In the zone, a reader took the value: both flags down, notify a writer. *)
LeaveZoneForgetReader(w) ==         \* mutant: reader_in_zone_ stays up
  /\ pc[w] = "hLock" /\ reader_in_zone_
  /\ writter_in_zone_' = FALSE
  /\ pc' \in WakeOne([pc EXCEPT ![w] = "idle"], "wWait", "wLock")
  /\ outcome' = [outcome EXCEPT ![w] = "written"]
  /\ UNCHANGED <<closed_, reader_in_zone_, item_, late, val, got, writes, expired, crashed>>

LeaveZone(w) ==
  /\ pc[w] = "hLock" /\ reader_in_zone_
  /\ writter_in_zone_' = FALSE
  /\ reader_in_zone_' = FALSE
  /\ pc' \in WakeOne([pc EXCEPT ![w] = "idle"], "wWait", "wLock")
  /\ outcome' = [outcome EXCEPT ![w] = "written"]
  /\ UNCHANGED <<closed_, item_, late, val, got, writes, expired, crashed>>

-----------------------------------------------------------------------------
(* Read: the call, up to its first attempt to lock m_. *)
CallRead(r) ==
  /\ pc[r] = "idle"
  /\ Goto(r, "rCall")
  /\ late' = [late EXCEPT ![r] = FALSE]
  /\ UNCHANGED <<zone, data, crashed>>

(* *item = *item_: the argument of a Write that has returned is gone. *)
Pointee == IF item_ \in InZone THEN val[item_] ELSE Dangling

(* A writer and no reader in the zone: take the value, notify the writer. *)
ConsumeAnyway(r) ==                 \* mutant: does not look at writter_in_zone_
  /\ pc[r] \in {"rCall", "rLock"} /\ ~closed_ /\ ~reader_in_zone_
  /\ reader_in_zone_' = TRUE
  /\ got' = [got EXCEPT ![r] = Pointee]
  /\ pc' \in WakeOne([pc EXCEPT ![r] = "idle"], "hWait", "hLock")
  /\ UNCHANGED <<closed_, writter_in_zone_, item_, late, val, outcome, writes, expired, crashed>>

ConsumeQuietly(r) ==                \* mutant: no handshake_.notify_one
  /\ pc[r] \in {"rCall", "rLock"} /\ ~closed_ /\ ~reader_in_zone_ /\ writter_in_zone_
  /\ reader_in_zone_' = TRUE
  /\ got' = [got EXCEPT ![r] = Pointee]
  /\ Goto(r, "idle")
  /\ UNCHANGED <<closed_, writter_in_zone_, item_, late, val, outcome, writes, expired, crashed>>

Consume(r) ==
  /\ pc[r] \in {"rCall", "rLock"} /\ ~closed_ /\ ~reader_in_zone_ /\ writter_in_zone_
  /\ reader_in_zone_' = TRUE
  /\ got' = [got EXCEPT ![r] = Pointee]
  /\ pc' \in WakeOne([pc EXCEPT ![r] = "idle"], "hWait", "hLock")
  /\ UNCHANGED <<closed_, writter_in_zone_, item_, late, val, outcome, writes, expired, crashed>>

(* No value to take: sleep on readers_, or return false with a timeout. *)
FindNothing(r) ==
  /\ pc[r] \in {"rCall", "rLock"} /\ ~closed_ /\ (reader_in_zone_ \/ ~writter_in_zone_)
  /\ \/ ~late[r] /\ Goto(r, "rWait")
     \/ late[r] /\ Goto(r, "idle")
  /\ UNCHANGED <<zone, late, data, crashed>>

(* Closed: the default value and false, even if a writer is in the zone. *)
ReadClosed(r) ==
  /\ pc[r] \in {"rCall", "rLock"} /\ closed_
  /\ got' = [got EXCEPT ![r] = Default]
  /\ Goto(r, "idle")
  /\ UNCHANGED <<zone, late, val, outcome, writes, expired, crashed>>

-----------------------------------------------------------------------------
(* Close: the critical section, then three notifications without m_. *)
Close(k) ==
  /\ pc[k] = "idle" /\ ~closed_
  /\ closed_' = TRUE
  /\ Goto(k, "nWriters")
  /\ UNCHANGED <<writter_in_zone_, reader_in_zone_, item_, late, data, crashed>>

CloseFatal(k) ==
  /\ pc[k] = "idle" /\ closed_
  /\ crashed' = TRUE
  /\ UNCHANGED <<zone, pc, late, data>>

NotifyWriters(k) ==
  /\ pc[k] = "nWriters"
  /\ pc' = WakeAll([pc EXCEPT ![k] = "nReaders"], "wWait", "wLock")
  /\ UNCHANGED <<zone, late, data, crashed>>

NotifyOneReader(k) ==               \* mutant: notify_one instead of notify_all
  /\ pc[k] = "nReaders"
  /\ pc' \in WakeOne([pc EXCEPT ![k] = "nHandshake"], "rWait", "rLock")
  /\ UNCHANGED <<zone, late, data, crashed>>

NotifyReaders(k) ==
  /\ pc[k] = "nReaders"
  /\ pc' = WakeAll([pc EXCEPT ![k] = "nHandshake"], "rWait", "rLock")
  /\ UNCHANGED <<zone, late, data, crashed>>

NotifyHandshake(k) ==
  /\ pc[k] = "nHandshake"
  /\ pc' \in WakeOne([pc EXCEPT ![k] = "done"], "hWait", "hLock")
  /\ UNCHANGED <<zone, late, data, crashed>>

-----------------------------------------------------------------------------
LockOf(label) ==
  CASE label \in {"wWait", "wLock"} -> "wLock"
    [] label \in {"hWait", "hLock"} -> "hLock"
    [] label \in {"rWait", "rLock"} -> "rLock"

(* The deadline of the current wait_for passes. *)
Expire(t) ==
  /\ t \in Timed /\ ~late[t]
  /\ pc[t] \in {"wLock", "wWait", "rLock", "rWait", "hLock", "hWait"}
  /\ late' = [late EXCEPT ![t] = TRUE]
  /\ expired' = [w \in Writers |-> IF w = t THEN expired[w] + 1 ELSE expired[w]]
  /\ pc' = [pc EXCEPT ![t] = LockOf(@)]
  /\ UNCHANGED <<zone, val, outcome, got, writes, crashed>>

SpuriousWakeup(t) ==
  /\ pc[t] \in {"wWait", "hWait", "rWait"}
  /\ pc' = [pc EXCEPT ![t] = LockOf(@)]
  /\ UNCHANGED <<zone, late, data, crashed>>

WriterStep(w) ==
  \/ EnterZone(w)   \/ StayOut(w)    \/ WriteFatal(w)
  \/ KeepWaiting(w) \/ LeaveZoneOnTimeout(w) \/ LeaveZone(w)

ReaderStep(r) == Consume(r) \/ FindNothing(r) \/ ReadClosed(r)

CloserStep(k) == NotifyWriters(k) \/ NotifyReaders(k) \/ NotifyHandshake(k)

Next ==
  /\ ~crashed
  /\ \/ \E w \in Writers : \E v \in Values : CallWrite(w, v)
     \/ \E w \in Writers : WriterStep(w)
     \/ \E r \in Readers : CallRead(r) \/ ReaderStep(r)
     \/ \E k \in Closers : Close(k) \/ CloseFatal(k) \/ CloserStep(k)
     \/ \E t \in Threads : Expire(t) \/ SpuriousWakeup(t)

Spec == Init /\ [][Next]_vars

(* A thread inside a call keeps running whenever it can get m_, deadlines  *)
(* pass, and readers read again and again.                                 *)
Fairness ==
  /\ \A w \in Writers : WF_vars(~crashed /\ WriterStep(w))
  /\ \A r \in Readers : WF_vars(~crashed /\ (CallRead(r) \/ ReaderStep(r)))
  /\ \A k \in Closers : WF_vars(~crashed /\ CloserStep(k))
  /\ \A t \in Threads : WF_vars(~crashed /\ Expire(t))

LiveSpec == Spec /\ Fairness

-----------------------------------------------------------------------------
(* UnbufferedChannel is a rendezvous: a value passes at one instant from   *)
(* one Write to one Read; the Write whose value passed reports success,    *)
(* whatever deadlines passed meanwhile, and a Write whose value did not    *)
(* pass reports a timeout; the process aborts only on a closed channel.    *)
Meeting == INSTANCE Rendezvous WITH
  wst <- [w \in Writers |-> IF pc[w] = "idle" THEN "idle"
                            ELSE IF w \in InZone /\ reader_in_zone_ THEN "accepted"
                            ELSE "offering"],
  rst <- [r \in Readers |-> IF pc[r] = "idle" THEN "idle" ELSE "wanting"],
  offer <- val,
  closed <- closed_

IsRendezvous == Meeting!Spec

(* writter_in_zone_ is up exactly while one Write is between its two       *)
(* critical sections, item_ then points to that Write's argument, and      *)
(* reader_in_zone_ is up only while the writer it belongs to is there.     *)
ZoneConsistent ==
  /\ ~writter_in_zone_ => InZone = {}
  /\ writter_in_zone_ => InZone = {item_}
  /\ reader_in_zone_ => writter_in_zone_

(* No notification is lost: a thread that sleeps although the condition it *)
(* waits for holds has somebody who will wake it, or who will take its     *)
(* turn and notify again: another thread already on its way to m_, or a    *)
(* Close that has not yet sent its notifications.                          *)
NoLostWakeup ==
  /\ Asleep("rWait") # {} /\ writter_in_zone_ /\ ~reader_in_zone_ /\ ~closed_
       => Asleep("rLock") # {}
  /\ Asleep("wWait") # {} /\ ~writter_in_zone_ /\ ~closed_
       => Asleep("wLock") # {}
  /\ Asleep("hWait") # {} => ~reader_in_zone_
  /\ closed_ /\ Asleep("wWait") # {} => Asleep("nWriters") # {}
  /\ closed_ /\ Asleep("rWait") # {}
       => Asleep("nWriters") \cup Asleep("nReaders") # {}
  /\ closed_ /\ Asleep("hWait") # {}
       => Asleep("nWriters") \cup Asleep("nReaders") \cup Asleep("nHandshake") # {}

(* channel.h: "If the values can't be written [...] within @wait_duration, *)
(* @timedout is set to true."  A Write that reports its value as written   *)
(* has not waited for two such times: at most one deadline, which the      *)
(* reader may have met at the last moment, has passed.                     *)
WithinWaitDuration ==
  \A w \in Writers : outcome[w] = "written" => expired[w] <= 1

(* With readers that keep reading, every Write returns: it is taken, times *)
(* out, or ends in the documented abort on a closed channel.               *)
EveryWriteReturns ==
  \A w \in Writers : pc[w] # "idle" ~> (pc[w] = "idle" \/ crashed)

=============================================================================

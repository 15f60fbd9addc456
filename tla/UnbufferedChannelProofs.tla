----------------------- MODULE UnbufferedChannelProofs -----------------------
(***************************************************************************)
(* For any writers, readers, closers, values and deadlines, what the run   *)
(* channel checks of UnbufferedChannel but for liveness: the zone is       *)
(* consistent, no notification is lost, deadlines are kept, and the        *)
(* channel is a Rendezvous.                                                *)
(***************************************************************************)
EXTENDS UnbufferedChannel, TLAPS

Labels == WriterLabels \cup ReaderLabels \cup CloserLabels

(* pc after the step of u to label l in which a notify_one wakes a thread  *)
(* from its sleep at s to m_.                                              *)
Notified(u, l, s, m) ==
  /\ pc' \in [Threads -> Labels]
  /\ pc'[u] = l
  /\ \A t \in Threads \ {u} : pc'[t] = pc[t] \/ (pc[t] = s /\ pc'[t] = m)
  /\ Asleep(s) # {} => \E t \in Threads \ {u} : pc[t] = s /\ pc'[t] = m

(* What notify_one does. *)
LEMMA NotifyOne ==
  ASSUME TypeOK, NEW u \in Threads, NEW l \in Labels, NEW s, NEW m \in Labels,
         pc[u] # s, pc' \in WakeOne([pc EXCEPT ![u] = l], s, m)
  PROVE  Notified(u, l, s, m)
<1>1. pc \in [Threads -> Labels]
  BY DEF TypeOK, Labels
<1>2. CASE Asleep(s) = {}
  BY <1>1, <1>2 DEF WakeOne, Notified
<1>3. CASE Asleep(s) # {}
  <2>1. PICK t \in Asleep(s) : pc' = [[pc EXCEPT ![u] = l] EXCEPT ![t] = m]
    BY <1>3 DEF WakeOne
  <2>2. t \in Threads /\ pc[t] = s /\ t # u
    BY <2>1 DEF Asleep
  <2> QED
    BY <1>1, <2>1, <2>2 DEF Notified
<1> QED
  BY <1>2, <1>3

(* pc after the step of u to label l, all others where they were. *)
Moved(u, l) ==
  /\ pc' \in [Threads -> Labels]
  /\ pc'[u] = l
  /\ \A t \in Threads \ {u} : pc'[t] = pc[t]

(* A step without a notification. *)
LEMMA MoveOne ==
  ASSUME TypeOK, NEW u \in Threads, NEW l \in Labels, pc' = [pc EXCEPT ![u] = l]
  PROVE  Moved(u, l)
BY DEF TypeOK, Labels, Moved

(* pc after the step of u to label l with a notify_all. *)
NotifiedAll(u, l, s, m) ==
  /\ pc' \in [Threads -> Labels]
  /\ pc'[u] = l
  /\ \A t \in Threads \ {u} : pc'[t] = IF pc[t] = s THEN m ELSE pc[t]

(* What notify_all does. *)
LEMMA NotifyAll ==
  ASSUME TypeOK, NEW u \in Threads, NEW l \in Labels, NEW s, NEW m \in Labels,
         pc[u] # s, pc' = WakeAll([pc EXCEPT ![u] = l], s, m)
  PROVE  NotifiedAll(u, l, s, m)
BY DEF TypeOK, Labels, NotifiedAll, WakeAll

-----------------------------------------------------------------------------
(* Where a step takes the threads, by the action that it is.               *)
WriterMoves(w) ==
  \/ EnterZone(w) /\ Notified(w, IF reader_in_zone_ THEN "hLock" ELSE "hWait", "rWait", "rLock")
  \/ StayOut(w) /\ Moved(w, IF late[w] THEN "idle" ELSE "wWait")
  \/ WriteFatal(w)
  \/ KeepWaiting(w) /\ Moved(w, "hWait")
  \/ LeaveZoneOnTimeout(w) /\ Notified(w, "idle", "wWait", "wLock")
  \/ LeaveZone(w) /\ Notified(w, "idle", "wWait", "wLock")

(* Write moves its own thread and the one it notifies. *)
LEMMA WriterMove ==
  ASSUME TypeOK, NEW w \in Writers, WriterStep(w)
  PROVE  WriterMoves(w)
<1> w \in Threads /\ {"idle", "hLock", "hWait", "wWait", "rLock", "wLock"} \subseteq Labels
  BY DEF Threads, Labels, WriterLabels, ReaderLabels
<1>1. CASE EnterZone(w)
  <2>1. (IF reader_in_zone_ THEN "hLock" ELSE "hWait") \in Labels /\ pc[w] # "rWait"
    BY <1>1 DEF EnterZone
  <2> QED
    BY <1>1, <2>1, NotifyOne DEF EnterZone, WriterMoves
<1>2. CASE StayOut(w)
  BY <1>2, MoveOne DEF StayOut, WriterMoves, Goto
<1>3. CASE WriteFatal(w)
  BY <1>3 DEF WriterMoves
<1>4. CASE KeepWaiting(w)
  BY <1>4, MoveOne DEF KeepWaiting, WriterMoves, Goto
<1>5. CASE LeaveZoneOnTimeout(w)
  BY <1>5, NotifyOne DEF LeaveZoneOnTimeout, WriterMoves
<1>6. CASE LeaveZone(w)
  BY <1>6, NotifyOne DEF LeaveZone, WriterMoves
<1> QED
  BY <1>1, <1>2, <1>3, <1>4, <1>5, <1>6 DEF WriterStep

ReaderMoves(r) ==
  \/ CallRead(r) /\ Moved(r, "rCall")
  \/ Consume(r) /\ Notified(r, "idle", "hWait", "hLock")
  \/ FindNothing(r) /\ Moved(r, IF late[r] THEN "idle" ELSE "rWait")
  \/ ReadClosed(r) /\ Moved(r, "idle")

(* Read moves its own thread and the writer it notifies. *)
LEMMA ReaderMove ==
  ASSUME TypeOK, NEW r \in Readers, CallRead(r) \/ ReaderStep(r)
  PROVE  ReaderMoves(r)
<1> r \in Threads /\ {"idle", "rCall", "rWait", "hLock"} \subseteq Labels
  BY DEF Threads, Labels, WriterLabels, ReaderLabels
<1>1. CASE CallRead(r)
  BY <1>1, MoveOne DEF CallRead, ReaderMoves, Goto
<1>2. CASE Consume(r)
  BY <1>2, NotifyOne DEF Consume, ReaderMoves
<1>3. CASE FindNothing(r)
  BY <1>3, MoveOne DEF FindNothing, ReaderMoves, Goto
<1>4. CASE ReadClosed(r)
  BY <1>4, MoveOne DEF ReadClosed, ReaderMoves, Goto
<1> QED
  BY <1>1, <1>2, <1>3, <1>4 DEF ReaderStep

CloserMoves(k) ==
  \/ Close(k) /\ Moved(k, "nWriters")
  \/ CloseFatal(k)
  \/ NotifyWriters(k) /\ NotifiedAll(k, "nReaders", "wWait", "wLock")
  \/ NotifyReaders(k) /\ NotifiedAll(k, "nHandshake", "rWait", "rLock")
  \/ NotifyHandshake(k) /\ Notified(k, "done", "hWait", "hLock")

(* Close moves its own thread and those it notifies. *)
LEMMA CloserMove ==
  ASSUME TypeOK, NEW k \in Closers, Close(k) \/ CloseFatal(k) \/ CloserStep(k)
  PROVE  CloserMoves(k)
<1> /\ k \in Threads
    /\ {"nWriters", "nReaders", "nHandshake", "done", "wLock", "rLock", "hLock"} \subseteq Labels
  BY DEF Threads, Labels, WriterLabels, ReaderLabels, CloserLabels
<1>1. CASE Close(k)
  BY <1>1, MoveOne DEF Close, CloserMoves, Goto
<1>2. CASE CloseFatal(k)
  BY <1>2 DEF CloserMoves
<1>3. CASE NotifyWriters(k)
  BY <1>3, NotifyAll DEF NotifyWriters, CloserMoves
<1>4. CASE NotifyReaders(k)
  BY <1>4, NotifyAll DEF NotifyReaders, CloserMoves
<1>5. CASE NotifyHandshake(k)
  BY <1>5, NotifyOne DEF NotifyHandshake, CloserMoves
<1> QED
  BY <1>1, <1>2, <1>3, <1>4, <1>5 DEF CloserStep

(* A thread that wakes by itself, or whose deadline passes, goes to m_.    *)
Woken(t) ==
  /\ pc' \in [Threads -> Labels]
  /\ pc'[t] = LockOf(pc[t])
  /\ \A u \in Threads \ {t} : pc'[u] = pc[u]

(* A wakeup moves the thread itself. *)
LEMMA WakeMove ==
  ASSUME TypeOK, NEW t \in Threads, Expire(t) \/ SpuriousWakeup(t)
  PROVE  Woken(t)
<1>1. pc' = [pc EXCEPT ![t] = LockOf(pc[t])]
  BY DEF Expire, SpuriousWakeup
<1>2. LockOf(pc[t]) \in Labels
  BY DEF Expire, SpuriousWakeup, LockOf, Labels, WriterLabels, ReaderLabels
<1> QED
  BY <1>1, <1>2 DEF TypeOK, Labels, Woken

(* Every step is one of these. *)
Moves ==
  \/ \E w \in Writers, v \in Values : CallWrite(w, v) /\ Moved(w, "wCall")
  \/ \E w \in Writers : WriterMoves(w)
  \/ \E r \in Readers : ReaderMoves(r)
  \/ \E k \in Closers : CloserMoves(k)
  \/ \E t \in Threads : (Expire(t) \/ SpuriousWakeup(t)) /\ Woken(t)

(* Every step of the channel is one of Moves. *)
LEMMA NextMoves ==
  ASSUME TypeOK, Next
  PROVE  Moves
<1>1. ASSUME NEW w \in Writers, NEW v \in Values, CallWrite(w, v)
      PROVE  Moved(w, "wCall")
  BY <1>1, MoveOne DEF CallWrite, Goto, Threads, Labels, WriterLabels
<1> QED
  BY <1>1, WriterMove, ReaderMove, CloserMove, WakeMove DEF Next, Moves

-----------------------------------------------------------------------------
(* The constructor leaves a well typed state. *)
LEMMA InitTypes == Init => TypeOK
<1> SUFFICES ASSUME Init PROVE TypeOK
  OBVIOUS
<1>1. /\ closed_ \in BOOLEAN /\ writter_in_zone_ \in BOOLEAN
      /\ reader_in_zone_ \in BOOLEAN /\ crashed \in BOOLEAN
  BY Zenon DEF Init
<1> QED
  BY <1>1, MaxWritesAssumption
  DEF Init, TypeOK, Threads, WriterLabels, ReaderLabels, CloserLabels

(* The labels of each thread are those of its call. *)
LabelsOK ==
  /\ pc \in [Threads -> Labels]
  /\ \A w \in Writers : pc[w] \in WriterLabels
  /\ \A r \in Readers : pc[r] \in ReaderLabels
  /\ \A k \in Closers : pc[k] \in CloserLabels

(* A wakeup takes no thread into another call. *)
LEMMA LabelsStep ==
  ASSUME LabelsOK, Moves
  PROVE  LabelsOK'
<1> USE ThreadsAssumption DEF LabelsOK, Threads, WriterLabels, ReaderLabels, CloserLabels
<1>1. ASSUME NEW w \in Writers, Moved(w, "wCall")
      PROVE  LabelsOK'
  BY <1>1 DEF Moved
<1>2. ASSUME NEW w \in Writers, WriterMoves(w)
      PROVE  LabelsOK'
  <2>1. CASE WriteFatal(w)
    BY <2>1 DEF WriteFatal
  <2>2. CASE \E l \in WriterLabels : Moved(w, l)
    BY <2>2 DEF Moved
  <2>3. CASE \E l \in WriterLabels : \/ Notified(w, l, "rWait", "rLock")
                                     \/ Notified(w, l, "wWait", "wLock")
    BY <2>3 DEF Notified
  <2> QED
    BY <1>2, <2>1, <2>2, <2>3 DEF WriterMoves
<1>3. ASSUME NEW r \in Readers, ReaderMoves(r)
      PROVE  LabelsOK'
  <2>1. CASE \E l \in ReaderLabels : Moved(r, l)
    BY <2>1 DEF Moved
  <2>2. CASE Notified(r, "idle", "hWait", "hLock")
    BY <2>2 DEF Notified
  <2> QED
    BY <1>3, <2>1, <2>2 DEF ReaderMoves
<1>4. ASSUME NEW k \in Closers, CloserMoves(k)
      PROVE  LabelsOK'
  <2>1. CASE Moved(k, "nWriters")
    BY <2>1 DEF Moved
  <2>2. CASE CloseFatal(k)
    BY <2>2 DEF CloseFatal
  <2>3. CASE \/ NotifiedAll(k, "nReaders", "wWait", "wLock")
             \/ NotifiedAll(k, "nHandshake", "rWait", "rLock")
    BY <2>3 DEF NotifiedAll
  <2>4. CASE Notified(k, "done", "hWait", "hLock")
    BY <2>4 DEF Notified
  <2> QED
    BY <1>4, <2>1, <2>2, <2>3, <2>4 DEF CloserMoves
<1>5. ASSUME NEW t \in Threads, Expire(t) \/ SpuriousWakeup(t), Woken(t)
      PROVE  LabelsOK'
  BY <1>5 DEF Expire, SpuriousWakeup, Woken, LockOf
<1> QED
  BY <1>1, <1>2, <1>3, <1>4, <1>5 DEF Moves

(* The rest of the state. *)
DataOK ==
  /\ item_ \in Writers \cup {NoWriter}
  /\ val \in [Writers -> Values \cup {NoValue}]
  /\ outcome \in [Writers -> {"none", "written", "timedout"}]
  /\ got \in [Readers -> Values \cup {NoValue, Default}]
  /\ writes \in [Writers -> 0 .. MaxWrites]
  /\ expired \in [Writers -> Nat]

FlagsOK ==
  /\ closed_ \in BOOLEAN /\ writter_in_zone_ \in BOOLEAN
  /\ reader_in_zone_ \in BOOLEAN /\ crashed \in BOOLEAN
  /\ late \in [Threads -> BOOLEAN]

(* TypeOK, in three parts. *)
LEMMA TypeParts == TypeOK <=> LabelsOK /\ DataOK /\ FlagsOK
BY DEF TypeOK, LabelsOK, DataOK, FlagsOK, Labels

(* Flags stay Boolean. *)
LEMMA FlagsStep ==
  ASSUME FlagsOK, Next
  PROVE  FlagsOK'
<1> USE DEF FlagsOK, zone, data, Threads,
        CallWrite, WriterStep, EnterZone, StayOut, WriteFatal, KeepWaiting,
        LeaveZoneOnTimeout, LeaveZone, CallRead, ReaderStep, Consume, FindNothing,
        ReadClosed, Close, CloseFatal, CloserStep, NotifyWriters, NotifyReaders,
        NotifyHandshake, Expire, SpuriousWakeup
<1>1. ASSUME NEW t \in Threads, late' = late \/ \E b \in BOOLEAN : late' = [late EXCEPT ![t] = b]
      PROVE  late' \in [Threads -> BOOLEAN]
  BY <1>1
<1>2. late' \in [Threads -> BOOLEAN]
  BY <1>1 DEF Next
<1>3. /\ closed_' \in BOOLEAN /\ writter_in_zone_' \in BOOLEAN
      /\ reader_in_zone_' \in BOOLEAN /\ crashed' \in BOOLEAN
  BY Zenon DEF Next
<1> QED
  BY <1>2, <1>3

(* A Read finds a value: item_ does not dangle while the zone is taken. *)
LEMMA DataStep ==
  ASSUME TypeOK, ZoneConsistent, Next
  PROVE  DataOK'
<1>0. DataOK /\ MaxWrites \in Nat
  BY TypeParts, MaxWritesAssumption
<1> USE <1>0 DEF DataOK, zone, data
<1>1. ASSUME NEW w \in Writers, NEW v \in Values, CallWrite(w, v)
      PROVE  DataOK'
  BY <1>1 DEF CallWrite
<1>2. ASSUME NEW w \in Writers, WriterStep(w)
      PROVE  DataOK'
  BY <1>2 DEF WriterStep, EnterZone, StayOut, WriteFatal, KeepWaiting,
              LeaveZoneOnTimeout, LeaveZone
<1>3. ASSUME NEW r \in Readers, CallRead(r) \/ ReaderStep(r)
      PROVE  DataOK'
  <2>1. writter_in_zone_ => Pointee \in Values \cup {NoValue}
    BY DEF ZoneConsistent, Pointee, InZone
  <2> QED
    BY <1>3, <2>1 DEF CallRead, ReaderStep, Consume, FindNothing, ReadClosed
<1>4. ASSUME NEW k \in Closers, Close(k) \/ CloseFatal(k) \/ CloserStep(k)
      PROVE  DataOK'
  BY <1>4 DEF Close, CloseFatal, CloserStep, NotifyWriters, NotifyReaders, NotifyHandshake
<1>5. ASSUME NEW t \in Threads, Expire(t) \/ SpuriousWakeup(t)
      PROVE  DataOK'
  BY <1>5 DEF Expire, SpuriousWakeup
<1> QED
  BY <1>1, <1>2, <1>3, <1>4, <1>5 DEF Next

-----------------------------------------------------------------------------
(* Where the threads are, and the flags: all that the handshake looks at.  *)
PlacesOK ==
  /\ \A w \in Writers : pc[w] \in WriterLabels
  /\ \A r \in Readers : pc[r] \in ReaderLabels
  /\ \A k \in Closers : pc[k] \in CloserLabels
  /\ closed_ \in BOOLEAN /\ writter_in_zone_ \in BOOLEAN /\ reader_in_zone_ \in BOOLEAN
  /\ item_ \in Writers \cup {NoWriter}

(* A Write is in the zone exactly from EnterZone to its leave: notify and  *)
(* wakeup move a writer from hWait to hLock at most.                       *)
LEMMA ZoneStep ==
  ASSUME TypeOK, ZoneConsistent, Moves
  PROVE  ZoneConsistent'
<1>0. PlacesOK
  BY DEF TypeOK, PlacesOK
<1> USE <1>0, ThreadsAssumption DEF PlacesOK, ZoneConsistent, InZone, zone, Threads,
        WriterLabels, ReaderLabels, CloserLabels
<1>1. ASSUME NEW w \in Writers, NEW v \in Values, CallWrite(w, v), Moved(w, "wCall")
      PROVE  ZoneConsistent'
  BY <1>1 DEF CallWrite, Moved
<1>2. ASSUME NEW w \in Writers, WriterMoves(w)
      PROVE  ZoneConsistent'
  <2>1. CASE EnterZone(w) /\ Notified(w, IF reader_in_zone_ THEN "hLock" ELSE "hWait",
                                      "rWait", "rLock")
    BY <2>1 DEF EnterZone, Notified
  <2>2. CASE StayOut(w) /\ Moved(w, IF late[w] THEN "idle" ELSE "wWait")
    BY <2>2 DEF StayOut, Moved
  <2>3. CASE WriteFatal(w)
    BY <2>3 DEF WriteFatal
  <2>4. CASE KeepWaiting(w) /\ Moved(w, "hWait")
    BY <2>4 DEF KeepWaiting, Moved
  <2>5. CASE LeaveZoneOnTimeout(w) /\ Notified(w, "idle", "wWait", "wLock")
    BY <2>5 DEF LeaveZoneOnTimeout, Notified
  <2>6. CASE LeaveZone(w) /\ Notified(w, "idle", "wWait", "wLock")
    BY <2>6 DEF LeaveZone, Notified
  <2> QED
    BY <1>2, <2>1, <2>2, <2>3, <2>4, <2>5, <2>6 DEF WriterMoves
<1>3. ASSUME NEW r \in Readers, ReaderMoves(r)
      PROVE  ZoneConsistent'
  <2>1. CASE Consume(r) /\ Notified(r, "idle", "hWait", "hLock")
    BY <2>1 DEF Consume, Notified
  <2>2. CASE UNCHANGED zone /\ \E l \in ReaderLabels : Moved(r, l)
    BY <2>2 DEF Moved
  <2> QED
    BY <1>3, <2>1, <2>2 DEF ReaderMoves, CallRead, FindNothing, ReadClosed
<1>4. ASSUME NEW k \in Closers, CloserMoves(k)
      PROVE  ZoneConsistent'
  <2>1. CASE Close(k) /\ Moved(k, "nWriters")
    BY <2>1 DEF Close, Moved
  <2>2. CASE CloseFatal(k)
    BY <2>2 DEF CloseFatal
  <2>3. CASE NotifyWriters(k) /\ NotifiedAll(k, "nReaders", "wWait", "wLock")
    BY <2>3 DEF NotifyWriters, NotifiedAll
  <2>4. CASE NotifyReaders(k) /\ NotifiedAll(k, "nHandshake", "rWait", "rLock")
    BY <2>4 DEF NotifyReaders, NotifiedAll
  <2>5. CASE NotifyHandshake(k) /\ Notified(k, "done", "hWait", "hLock")
    BY <2>5 DEF NotifyHandshake, Notified
  <2> QED
    BY <1>4, <2>1, <2>2, <2>3, <2>4, <2>5 DEF CloserMoves
<1>5. ASSUME NEW t \in Threads, Expire(t) \/ SpuriousWakeup(t), Woken(t)
      PROVE  ZoneConsistent'
  BY <1>5 DEF Expire, SpuriousWakeup, Woken, LockOf
<1> QED
  BY <1>1, <1>2, <1>3, <1>4, <1>5 DEF Moves

-----------------------------------------------------------------------------
(* A condition becomes true in a step that notifies, and a thread on its   *)
(* way to m_ goes back to sleep only if the condition is false again.      *)
LEMMA WakeupStep ==
  ASSUME TypeOK, ZoneConsistent, NoLostWakeup, Moves
  PROVE  NoLostWakeup'
<1>0. PlacesOK
  BY DEF TypeOK, PlacesOK
<1> USE <1>0, ThreadsAssumption DEF PlacesOK, ZoneConsistent, InZone, zone, Threads,
        NoLostWakeup, Asleep,
        WriterLabels, ReaderLabels, CloserLabels
<1>1. ASSUME NEW w \in Writers, NEW v \in Values, CallWrite(w, v), Moved(w, "wCall")
      PROVE  NoLostWakeup'
  BY <1>1 DEF CallWrite, Moved
<1>2. ASSUME NEW w \in Writers, WriterMoves(w)
      PROVE  NoLostWakeup'
  <2>1. CASE EnterZone(w) /\ Notified(w, IF reader_in_zone_ THEN "hLock" ELSE "hWait",
                                      "rWait", "rLock")
    <3>1. closed_' = FALSE /\ writter_in_zone_' = TRUE /\ reader_in_zone_' = FALSE
      BY <2>1 DEF EnterZone
    <3>2. Asleep("rWait")' # {} => Asleep("rLock")' # {}
      <4>1. /\ pc'[w] \in {"hLock", "hWait"}
            /\ \A t \in Threads \ {w} : pc'[t] = "rWait" => pc[t] = "rWait"
            /\ Asleep("rWait") # {} => \E t \in Threads : pc'[t] = "rLock"
        BY <2>1 DEF Notified
      <4> HIDE DEF PlacesOK, NoLostWakeup, ZoneConsistent, Threads
      <4> QED
        BY <4>1
    <3> HIDE DEF Asleep
    <3> QED
      BY <3>1, <3>2
  <2>2. CASE StayOut(w) /\ Moved(w, IF late[w] THEN "idle" ELSE "wWait")
    <3>1. UNCHANGED zone /\ writter_in_zone_ /\ ~closed_
      BY <2>2 DEF StayOut
    <3>2. /\ Asleep("rWait")' = Asleep("rWait") /\ Asleep("rLock")' = Asleep("rLock")
          /\ Asleep("hWait")' = Asleep("hWait")
      <4>1. /\ pc[w] \in {"wCall", "wLock"} /\ pc'[w] \in {"idle", "wWait"}
            /\ \A t \in Threads \ {w} : pc'[t] = pc[t]
        BY <2>2 DEF StayOut, Moved
      <4> HIDE DEF PlacesOK, NoLostWakeup, ZoneConsistent, Threads
      <4> QED
        BY <4>1
    <3> HIDE DEF Asleep
    <3> QED
      BY <3>1, <3>2
  <2>3. CASE WriteFatal(w)
    BY <2>3 DEF WriteFatal
  <2>4. CASE KeepWaiting(w) /\ Moved(w, "hWait")
    BY <2>4 DEF KeepWaiting, Moved
  <2>5. CASE LeaveZoneOnTimeout(w) /\ Notified(w, "idle", "wWait", "wLock")
    BY <2>5, SMTT(30) DEF LeaveZoneOnTimeout, Notified
  <2>6. CASE LeaveZone(w) /\ Notified(w, "idle", "wWait", "wLock")
    BY <2>6, SMTT(30) DEF LeaveZone, Notified
  <2> QED
    BY <1>2, <2>1, <2>2, <2>3, <2>4, <2>5, <2>6 DEF WriterMoves
<1>3. ASSUME NEW r \in Readers, ReaderMoves(r)
      PROVE  NoLostWakeup'
  <2>1. CASE Consume(r) /\ Notified(r, "idle", "hWait", "hLock")
    BY <2>1, SMTT(30) DEF Consume, Notified
  <2>2. CASE CallRead(r) /\ Moved(r, "rCall")
    BY <2>2 DEF CallRead, Moved
  <2>3. CASE FindNothing(r) /\ Moved(r, IF late[r] THEN "idle" ELSE "rWait")
    <3>1. UNCHANGED zone /\ ~closed_ /\ (reader_in_zone_ \/ ~writter_in_zone_)
      BY <2>3 DEF FindNothing
    <3>2. /\ Asleep("wWait")' = Asleep("wWait") /\ Asleep("wLock")' = Asleep("wLock")
          /\ Asleep("hWait")' = Asleep("hWait")
      <4>1. /\ pc[r] \in {"rCall", "rLock"} /\ pc'[r] \in {"idle", "rWait"}
            /\ \A t \in Threads \ {r} : pc'[t] = pc[t]
        BY <2>3 DEF FindNothing, Moved
      <4> HIDE DEF PlacesOK, NoLostWakeup, ZoneConsistent, Threads
      <4> QED
        BY <4>1
    <3> HIDE DEF Asleep
    <3> QED
      BY <3>1, <3>2
  <2>4. CASE ReadClosed(r) /\ Moved(r, "idle")
    BY <2>4 DEF ReadClosed, Moved
  <2> QED
    BY <1>3, <2>1, <2>2, <2>3, <2>4 DEF ReaderMoves
<1>4. ASSUME NEW k \in Closers, CloserMoves(k)
      PROVE  NoLostWakeup'
  <2>1. CASE Close(k) /\ Moved(k, "nWriters")
    BY <2>1 DEF Close, Moved
  <2>2. CASE CloseFatal(k)
    BY <2>2 DEF CloseFatal
  <2>3. CASE NotifyWriters(k) /\ NotifiedAll(k, "nReaders", "wWait", "wLock")
    <3>1. Asleep("wWait")' = {} /\ Asleep("nReaders")' # {}
      BY <2>3 DEF NotifiedAll
    <3>2. /\ Asleep("rWait")' = Asleep("rWait") /\ Asleep("rLock")' = Asleep("rLock")
          /\ Asleep("hWait")' = Asleep("hWait")
      <4>1. /\ k \in Threads /\ pc[k] = "nWriters" /\ pc'[k] = "nReaders"
            /\ \A t \in Threads \ {k} : \/ pc[t] = "wWait" /\ pc'[t] = "wLock"
                                        \/ pc[t] # "wWait" /\ pc'[t] = pc[t]
        BY <2>3 DEF NotifyWriters, NotifiedAll
      <4> HIDE DEF PlacesOK, NoLostWakeup, ZoneConsistent, Threads
      <4> QED
        BY <4>1
    <3>3. UNCHANGED zone
      BY <2>3 DEF NotifyWriters
    <3> HIDE DEF Asleep
    <3> QED
      BY <3>1, <3>2, <3>3
  <2>4. CASE NotifyReaders(k) /\ NotifiedAll(k, "nHandshake", "rWait", "rLock")
    <3>1. Asleep("rWait")' = {} /\ Asleep("nHandshake")' # {}
      BY <2>4 DEF NotifiedAll
    <3>2. /\ Asleep("wWait")' = Asleep("wWait") /\ Asleep("wLock")' = Asleep("wLock")
          /\ Asleep("hWait")' = Asleep("hWait") /\ Asleep("nWriters")' = Asleep("nWriters")
      <4>1. /\ k \in Threads /\ pc[k] = "nReaders" /\ pc'[k] = "nHandshake"
            /\ \A t \in Threads \ {k} : \/ pc[t] = "rWait" /\ pc'[t] = "rLock"
                                        \/ pc[t] # "rWait" /\ pc'[t] = pc[t]
        BY <2>4 DEF NotifyReaders, NotifiedAll
      <4> HIDE DEF PlacesOK, NoLostWakeup, ZoneConsistent, Threads
      <4> QED
        BY <4>1
    <3>3. UNCHANGED zone
      BY <2>4 DEF NotifyReaders
    <3> HIDE DEF Asleep
    <3> QED
      BY <3>1, <3>2, <3>3
  <2>5. CASE NotifyHandshake(k) /\ Notified(k, "done", "hWait", "hLock")
    <3>1. UNCHANGED zone
      BY <2>5 DEF NotifyHandshake
    <3>2. /\ k \in Threads /\ pc[k] = "nHandshake" /\ pc'[k] = "done"
          /\ \A t \in Threads \ {k} : \/ pc'[t] = pc[t]
                                      \/ pc[t] = "hWait" /\ pc'[t] = "hLock"
          /\ Asleep("hWait") # {} => \E t \in Threads : pc[t] = "hWait" /\ pc'[t] = "hLock"
      BY <2>5 DEF NotifyHandshake, Notified
    <3>3. /\ Asleep("rWait")' = Asleep("rWait") /\ Asleep("rLock")' = Asleep("rLock")
          /\ Asleep("wWait")' = Asleep("wWait") /\ Asleep("wLock")' = Asleep("wLock")
          /\ Asleep("nWriters")' = Asleep("nWriters") /\ Asleep("nReaders")' = Asleep("nReaders")
          /\ Asleep("hWait")' \subseteq Asleep("hWait")
      <4> HIDE DEF PlacesOK, NoLostWakeup, ZoneConsistent, Threads
      <4> QED
        BY <3>2
    <3>4. Asleep("hWait")' = {}
      <4>1. \A t, u \in Threads : pc[t] = "hWait" /\ pc[u] = "hWait" => t = u
        OBVIOUS
      <4> HIDE DEF PlacesOK, NoLostWakeup, ZoneConsistent, Threads
      <4> QED
        BY <3>2, <4>1
    <3> HIDE DEF Asleep
    <3> QED
      BY <3>1, <3>3, <3>4
  <2> QED
    BY <1>4, <2>1, <2>2, <2>3, <2>4, <2>5 DEF CloserMoves
<1>5. ASSUME NEW t \in Threads, Expire(t) \/ SpuriousWakeup(t), Woken(t)
      PROVE  NoLostWakeup'
  BY <1>5 DEF Expire, SpuriousWakeup, Woken, LockOf
<1> QED
  BY <1>1, <1>2, <1>3, <1>4, <1>5 DEF Moves

-----------------------------------------------------------------------------
(* How many deadlines have passed, by where the Write is: none before its  *)
(* first wait, at most one when it enters the zone, at most two inside.    *)
Deadlines ==
  \A w \in Writers :
    /\ pc[w] = "wCall" => expired[w] = 0 /\ ~late[w]
    /\ pc[w] \in {"wLock", "wWait"} => /\ late[w] => expired[w] = 1
                                       /\ ~late[w] => expired[w] = 0
    /\ pc[w] \in {"hLock", "hWait"} => /\ late[w] => expired[w] \in {1, 2}
                                       /\ ~late[w] => expired[w] \in {0, 1}
    /\ pc[w] # "idle" => outcome[w] = "none"
    /\ expired[w] <= 2
    /\ outcome[w] = "timedout" => expired[w] >= 1

(* Only Expire adds to the deadlines of a Write, once for each wait. *)
LEMMA DeadlinesStep ==
  ASSUME TypeOK, Deadlines, Moves
  PROVE  Deadlines'
<1> USE ThreadsAssumption DEF Deadlines, data, Threads, TypeOK,
        WriterLabels, ReaderLabels, CloserLabels
<1>1. ASSUME NEW w \in Writers, NEW v \in Values, CallWrite(w, v), Moved(w, "wCall")
      PROVE  Deadlines'
  BY <1>1 DEF CallWrite, Moved
<1>2. ASSUME NEW w \in Writers, WriterMoves(w)
      PROVE  Deadlines'
  <2>1. CASE EnterZone(w) /\ Notified(w, IF reader_in_zone_ THEN "hLock" ELSE "hWait",
                                      "rWait", "rLock")
    BY <2>1, SMTT(30) DEF EnterZone, Notified
  <2>2. CASE StayOut(w) /\ Moved(w, IF late[w] THEN "idle" ELSE "wWait")
    BY <2>2 DEF StayOut, Moved
  <2>3. CASE WriteFatal(w)
    BY <2>3 DEF WriteFatal
  <2>4. CASE KeepWaiting(w) /\ Moved(w, "hWait")
    BY <2>4 DEF KeepWaiting, Moved
  <2>5. CASE LeaveZoneOnTimeout(w) /\ Notified(w, "idle", "wWait", "wLock")
    BY <2>5, SMTT(30) DEF LeaveZoneOnTimeout, Notified
  <2>6. CASE LeaveZone(w) /\ Notified(w, "idle", "wWait", "wLock")
    BY <2>6, SMTT(30) DEF LeaveZone, Notified
  <2> QED
    BY <1>2, <2>1, <2>2, <2>3, <2>4, <2>5, <2>6 DEF WriterMoves
(* The others may move a sleeping writer to m_, and do no more to it.      *)
<1>3. ASSUME UNCHANGED <<expired, outcome>>, \A w \in Writers : late'[w] = late[w],
             \A w \in Writers : \/ pc'[w] = pc[w]
                                \/ pc[w] = "wWait" /\ pc'[w] = "wLock"
                                \/ pc[w] = "hWait" /\ pc'[w] = "hLock"
      PROVE  Deadlines'
  BY <1>3
<1>4. ASSUME NEW r \in Readers, ReaderMoves(r)
      PROVE  Deadlines'
  <2>0. r \notin Writers
    OBVIOUS
  <2>1. CASE CallRead(r) /\ Moved(r, "rCall")
    BY <1>3, <2>0, <2>1 DEF CallRead, Moved
  <2>2. CASE Consume(r) /\ Notified(r, "idle", "hWait", "hLock")
    <3>1. \A w \in Writers : pc'[w] = pc[w] \/ (pc[w] = "hWait" /\ pc'[w] = "hLock")
      BY <2>0, <2>2 DEF Notified
    <3>2. UNCHANGED <<expired, outcome, late>>
      BY <2>2 DEF Consume
    <3> QED
      BY <1>3, <3>1, <3>2
  <2>3. CASE FindNothing(r) /\ Moved(r, IF late[r] THEN "idle" ELSE "rWait")
    BY <1>3, <2>0, <2>3 DEF FindNothing, Moved
  <2>4. CASE ReadClosed(r) /\ Moved(r, "idle")
    BY <1>3, <2>0, <2>4 DEF ReadClosed, Moved
  <2> QED
    BY <1>4, <2>1, <2>2, <2>3, <2>4 DEF ReaderMoves
<1>5. ASSUME NEW k \in Closers, CloserMoves(k)
      PROVE  Deadlines'
  <2>0. k \notin Writers
    OBVIOUS
  <2>1. CASE Close(k) /\ Moved(k, "nWriters")
    BY <1>3, <2>0, <2>1 DEF Close, Moved
  <2>2. CASE CloseFatal(k)
    BY <1>3, <2>2 DEF CloseFatal
  <2>3. CASE NotifyWriters(k) /\ NotifiedAll(k, "nReaders", "wWait", "wLock")
    BY <1>3, <2>0, <2>3 DEF NotifyWriters, NotifiedAll
  <2>4. CASE NotifyReaders(k) /\ NotifiedAll(k, "nHandshake", "rWait", "rLock")
    BY <1>3, <2>0, <2>4 DEF NotifyReaders, NotifiedAll
  <2>5. CASE NotifyHandshake(k) /\ Notified(k, "done", "hWait", "hLock")
    <3>1. \A w \in Writers : pc'[w] = pc[w] \/ (pc[w] = "hWait" /\ pc'[w] = "hLock")
      BY <2>0, <2>5 DEF Notified
    <3>2. UNCHANGED <<expired, outcome, late>>
      BY <2>5 DEF NotifyHandshake
    <3> QED
      BY <1>3, <3>1, <3>2
  <2> QED
    BY <1>5, <2>1, <2>2, <2>3, <2>4, <2>5 DEF CloserMoves
<1>6. ASSUME NEW t \in Threads, SpuriousWakeup(t), Woken(t)
      PROVE  Deadlines'
  BY <1>3, <1>6 DEF SpuriousWakeup, Woken, LockOf
<1>7. ASSUME NEW t \in Threads, Expire(t), Woken(t)
      PROVE  Deadlines'
  BY <1>7 DEF Expire, Woken, LockOf
<1> QED
  BY <1>1, <1>2, <1>4, <1>5, <1>6, <1>7 DEF Moves

-----------------------------------------------------------------------------
(* The inductive invariant. *)
ChannelInv == TypeOK /\ ZoneConsistent /\ NoLostWakeup /\ Deadlines

(* The invariant holds of a new channel. *)
LEMMA InitInv == Init => ChannelInv
<1> SUFFICES ASSUME Init PROVE ChannelInv
  OBVIOUS
<1>1. TypeOK
  BY InitTypes
<1>2. \A t \in Threads : pc[t] = "idle"
  BY DEF Init
<1>3. ZoneConsistent
  BY <1>2 DEF Init, ZoneConsistent, InZone, Threads
<1>4. NoLostWakeup
  BY <1>2 DEF Init, NoLostWakeup, Asleep
<1>5. Deadlines
  BY <1>2 DEF Init, Deadlines, Threads
<1> QED
  BY <1>1, <1>3, <1>4, <1>5 DEF ChannelInv

(* The invariant is inductive. *)
LEMMA StepInv == ChannelInv /\ [Next]_vars => ChannelInv'
<1> SUFFICES ASSUME ChannelInv, [Next]_vars PROVE ChannelInv'
  OBVIOUS
<1>1. CASE Next
  <2>1. Moves
    BY <1>1, NextMoves DEF ChannelInv
  <2>2. TypeOK'
    <3>1. TypeOK' <=> LabelsOK' /\ DataOK' /\ FlagsOK'
      BY DEF TypeOK, LabelsOK, DataOK, FlagsOK, Labels
    <3> QED
      BY <1>1, <2>1, <3>1, TypeParts, LabelsStep, DataStep, FlagsStep DEF ChannelInv
  <2> QED
    BY <2>1, <2>2, ZoneStep, WakeupStep, DeadlinesStep DEF ChannelInv
<1>2. CASE UNCHANGED vars
  BY <1>2 DEF vars, ChannelInv, TypeOK, ZoneConsistent, InZone, NoLostWakeup, Asleep, Deadlines
<1> QED
  BY <1>1, <1>2

(* The invariant holds whatever writers, readers and closers do. *)
THEOREM ChannelInvariant == Spec => []ChannelInv
BY InitInv, StepInv, PTL DEF Spec

(* Every reachable state is well typed; a Read never gets the argument of  *)
(* a Write that has returned (Dangling is no value).                       *)
THEOREM TypeCorrect == Spec => []TypeOK
BY ChannelInvariant, PTL DEF ChannelInv

(* The two flags and item_ agree with where the writers are, whoever       *)
(* barges in between the critical sections of a Write.                     *)
THEOREM ZoneCorrect == Spec => []ZoneConsistent
BY ChannelInvariant, PTL DEF ChannelInv

(* Nobody sleeps on writers_, readers_ or handshake_ with work to do and   *)
(* nobody about to wake it, though Close notifies without m_.              *)
THEOREM WakeupCorrect == Spec => []NoLostWakeup
BY ChannelInvariant, PTL DEF ChannelInv

(* What there is of "subject to timeout of @wait_duration", as Write waits *)
(* twice: it may last two such times, however often it is woken and        *)
(* overtaken, but no longer, and it reports a timeout only after one.      *)
DeadlinesKept ==
  \A w \in Writers : expired[w] <= 2 /\ (outcome[w] = "timedout" => expired[w] >= 1)

(* A Write lasts at most two deadlines and reports a timeout after one.    *)
THEOREM DeadlinesCorrect == Spec => []DeadlinesKept
<1>1. ChannelInv => DeadlinesKept
  BY DEF ChannelInv, Deadlines, DeadlinesKept
<1> QED
  BY <1>1, ChannelInvariant, PTL

-----------------------------------------------------------------------------
(* The states of writers and readers as Rendezvous sees them.              *)
WriterState(w) ==
  IF pc[w] = "idle" THEN "idle"
  ELSE IF w \in InZone /\ reader_in_zone_ THEN "accepted" ELSE "offering"
ReaderState(r) == IF pc[r] = "idle" THEN "idle" ELSE "wanting"

(* A step that Rendezvous does not see. *)
Unseen ==
  /\ \A w \in Writers : WriterState(w)' = WriterState(w)
  /\ \A r \in Readers : ReaderState(r)' = ReaderState(r)
  /\ UNCHANGED <<val, outcome, got, closed_, crashed>>

(* An unseen step leaves the variables of Rendezvous alone. *)
LEMMA UnseenStep == Unseen => UNCHANGED Meeting!rendezvousVars
BY DEF Unseen, Meeting!rendezvousVars, WriterState, ReaderState

(* The step of one writer, or of one reader, from one state to another.    *)
WriterGoes(w, from, to) ==
  /\ WriterState(w) = from /\ WriterState(w)' = to
  /\ \A u \in Writers \ {w} : WriterState(u)' = WriterState(u)
ReaderGoes(r, from, to) ==
  /\ ReaderState(r) = from /\ ReaderState(r)' = to
  /\ \A u \in Readers \ {r} : ReaderState(u)' = ReaderState(u)
WritersStay == \A w \in Writers : WriterState(w)' = WriterState(w)
ReadersStay == \A r \in Readers : ReaderState(r)' = ReaderState(r)

(* A Write is called. *)
LEMMA OfferStep ==
  ASSUME NEW w \in Writers, NEW v \in Values, WriterGoes(w, "idle", "offering"), ReadersStay,
         val' = [val EXCEPT ![w] = v], outcome' = [outcome EXCEPT ![w] = "none"],
         UNCHANGED <<got, closed_, crashed>>
  PROVE  Meeting!Offer(w, v)
BY DEF WriterGoes, ReadersStay, WriterState, ReaderState, Meeting!Offer

(* A Write returns. *)
LEMMA FinishStep ==
  ASSUME NEW w \in Writers, NEW from, NEW report, WriterGoes(w, from, "idle"), ReadersStay,
         outcome' = [outcome EXCEPT ![w] = report], UNCHANGED <<val, got, closed_, crashed>>
  PROVE  Meeting!Finish(w, from, report)
BY DEF WriterGoes, ReadersStay, WriterState, ReaderState, Meeting!Finish

(* A value changes hands. *)
LEMMA TransferStep ==
  ASSUME NEW w \in Writers, NEW r \in Readers, ~closed_,
         WriterGoes(w, "offering", "accepted"), ReaderGoes(r, "wanting", "idle"),
         got' = [got EXCEPT ![r] = val[w]], UNCHANGED <<val, outcome, closed_, crashed>>
  PROVE  Meeting!Transfer(w, r)
<1> DEFINE wst == [u \in Writers |-> WriterState(u)]
           rst == [u \in Readers |-> ReaderState(u)]
<1>1. wst[w] = "offering" /\ wst' = [wst EXCEPT ![w] = "accepted"]
  BY DEF WriterGoes
<1>2. rst[r] = "wanting" /\ rst' = [rst EXCEPT ![r] = "idle"]
  BY DEF ReaderGoes
<1> QED
  BY <1>1, <1>2, Zenon DEF WriterState, ReaderState, Meeting!Transfer

(* A Read is called. *)
LEMMA WantStep ==
  ASSUME NEW r \in Readers, ReaderGoes(r, "idle", "wanting"), WritersStay,
         UNCHANGED <<val, outcome, got, closed_, crashed>>
  PROVE  Meeting!Want(r)
BY DEF ReaderGoes, WritersStay, WriterState, ReaderState, Meeting!Want

(* A Read times out. *)
LEMMA ReadNothingStep ==
  ASSUME NEW r \in Readers, ~closed_, ReaderGoes(r, "wanting", "idle"), WritersStay,
         UNCHANGED <<val, outcome, got, closed_, crashed>>
  PROVE  Meeting!ReadNothing(r)
BY DEF ReaderGoes, WritersStay, WriterState, ReaderState, Meeting!ReadNothing

(* A Read finds the channel closed. *)
LEMMA ReadClosedStep ==
  ASSUME NEW r \in Readers, closed_, ReaderGoes(r, "wanting", "idle"), WritersStay,
         got' = [got EXCEPT ![r] = Default], UNCHANGED <<val, outcome, closed_, crashed>>
  PROVE  Meeting!ReadClosed(r)
BY DEF ReaderGoes, WritersStay, WriterState, ReaderState, Meeting!ReadClosed

(* Every step of the channel is a step of Rendezvous, or unseen. *)
LEMMA MeetingStep ==
  ASSUME ChannelInv, Moves, ~crashed
  PROVE  [Meeting!Next]_(Meeting!rendezvousVars)
<1>0. PlacesOK /\ ZoneConsistent
  BY DEF ChannelInv, TypeOK, PlacesOK
<1> USE <1>0, ThreadsAssumption DEF PlacesOK, ZoneConsistent, InZone, zone, data, Threads,
        WriterLabels, ReaderLabels, CloserLabels, WriterState, ReaderState,
        WriterGoes, ReaderGoes, WritersStay, ReadersStay
<1>1. ASSUME NEW w \in Writers, NEW v \in Values, CallWrite(w, v), Moved(w, "wCall")
      PROVE  Meeting!Offer(w, v)
  <2>1. WriterGoes(w, "idle", "offering") /\ ReadersStay
    BY <1>1 DEF CallWrite, Moved
  <2> QED
    BY <1>1, <2>1, OfferStep DEF CallWrite
<1>2. ASSUME NEW w \in Writers, WriterMoves(w)
      PROVE  Unseen \/ Meeting!Crash \/ Meeting!Finish(w, "accepted", "written")
               \/ Meeting!Finish(w, "offering", "timedout")
  <2>1. CASE EnterZone(w) /\ Notified(w, IF reader_in_zone_ THEN "hLock" ELSE "hWait",
                                      "rWait", "rLock")
    BY <2>1 DEF EnterZone, Notified, Unseen
  <2>2. CASE StayOut(w) /\ Moved(w, IF late[w] THEN "idle" ELSE "wWait")
    <3>1. CASE late[w]
      <4>1. WriterGoes(w, "offering", "idle") /\ ReadersStay
        BY <2>2, <3>1 DEF StayOut, Moved
      <4> QED
        BY <2>2, <3>1, <4>1, FinishStep DEF StayOut
    <3>2. CASE ~late[w]
      BY <2>2, <3>2 DEF StayOut, Moved, Unseen
    <3> QED
      BY <3>1, <3>2
  <2>3. CASE WriteFatal(w)
    BY <2>3 DEF WriteFatal, Meeting!Crash
  <2>4. CASE KeepWaiting(w) /\ Moved(w, "hWait")
    BY <2>4 DEF KeepWaiting, Moved, Unseen
  <2>5. CASE LeaveZoneOnTimeout(w) /\ Notified(w, "idle", "wWait", "wLock")
    <3>1. WriterGoes(w, "offering", "idle") /\ ReadersStay
      BY <2>5 DEF LeaveZoneOnTimeout, Notified
    <3> QED
      BY <2>5, <3>1, FinishStep DEF LeaveZoneOnTimeout
  <2>6. CASE LeaveZone(w) /\ Notified(w, "idle", "wWait", "wLock")
    <3>1. WriterGoes(w, "accepted", "idle") /\ ReadersStay
      BY <2>6 DEF LeaveZone, Notified
    <3> QED
      BY <2>6, <3>1, FinishStep DEF LeaveZone
  <2> QED
    BY <1>2, <2>1, <2>2, <2>3, <2>4, <2>5, <2>6 DEF WriterMoves
<1>3. ASSUME NEW r \in Readers, ReaderMoves(r)
      PROVE  \/ Unseen \/ Meeting!Want(r) \/ Meeting!ReadNothing(r) \/ Meeting!ReadClosed(r)
             \/ \E w \in Writers : Meeting!Transfer(w, r)
  <2>1. CASE CallRead(r) /\ Moved(r, "rCall")
    <3>1. ReaderGoes(r, "idle", "wanting") /\ WritersStay
      BY <2>1 DEF CallRead, Moved
    <3> QED
      BY <2>1, <3>1, WantStep DEF CallRead
  <2>2. CASE Consume(r) /\ Notified(r, "idle", "hWait", "hLock")
    <3>1. item_ \in Writers /\ Pointee = val[item_]
      BY <2>2 DEF Consume, Pointee
    <3>2. WriterGoes(item_, "offering", "accepted")
      BY <2>2 DEF Consume, Notified
    <3>3. ReaderGoes(r, "wanting", "idle")
      BY <2>2 DEF Consume, Notified
    <3> QED
      BY <2>2, <3>1, <3>2, <3>3, TransferStep DEF Consume
  <2>3. CASE FindNothing(r) /\ Moved(r, IF late[r] THEN "idle" ELSE "rWait")
    <3>1. CASE late[r]
      <4>1. ReaderGoes(r, "wanting", "idle") /\ WritersStay
        BY <2>3, <3>1 DEF FindNothing, Moved
      <4> QED
        BY <2>3, <3>1, <4>1, ReadNothingStep DEF FindNothing
    <3>2. CASE ~late[r]
      BY <2>3, <3>2 DEF FindNothing, Moved, Unseen
    <3> QED
      BY <3>1, <3>2
  <2>4. CASE ReadClosed(r) /\ Moved(r, "idle")
    <3>1. ReaderGoes(r, "wanting", "idle") /\ WritersStay
      BY <2>4 DEF ReadClosed, Moved
    <3> QED
      BY <2>4, <3>1, ReadClosedStep DEF ReadClosed
  <2> QED
    BY <1>3, <2>1, <2>2, <2>3, <2>4 DEF ReaderMoves
<1>4. ASSUME NEW k \in Closers, CloserMoves(k)
      PROVE  Unseen \/ Meeting!Close \/ Meeting!Crash
  <2>1. CASE Close(k) /\ Moved(k, "nWriters")
    BY <2>1 DEF Close, Moved, Meeting!Close
  <2>2. CASE CloseFatal(k)
    BY <2>2 DEF CloseFatal, Meeting!Crash
  <2>3. CASE NotifyWriters(k) /\ NotifiedAll(k, "nReaders", "wWait", "wLock")
    BY <2>3 DEF NotifyWriters, NotifiedAll, Unseen
  <2>4. CASE NotifyReaders(k) /\ NotifiedAll(k, "nHandshake", "rWait", "rLock")
    BY <2>4 DEF NotifyReaders, NotifiedAll, Unseen
  <2>5. CASE NotifyHandshake(k) /\ Notified(k, "done", "hWait", "hLock")
    BY <2>5 DEF NotifyHandshake, Notified, Unseen
  <2> QED
    BY <1>4, <2>1, <2>2, <2>3, <2>4, <2>5 DEF CloserMoves
<1>5. ASSUME NEW t \in Threads, Expire(t) \/ SpuriousWakeup(t), Woken(t)
      PROVE  Unseen
  BY <1>5 DEF Expire, SpuriousWakeup, Woken, LockOf, Unseen
<1> QED
  BY <1>1, <1>2, <1>3, <1>4, <1>5, UnseenStep DEF Moves, Meeting!Next

(* UnbufferedChannel implements Rendezvous: Consume is the step in which   *)
(* the value changes hands, and every other step of the handshake is a     *)
(* call, a return or unseen.                                               *)
THEOREM RendezvousRefinement == Spec => IsRendezvous
<1>1. Init => Meeting!Init
  <2> SUFFICES ASSUME Init PROVE Meeting!Init
    OBVIOUS
  <2>1. /\ \A w \in Writers : WriterState(w) = "idle"
        /\ \A r \in Readers : ReaderState(r) = "idle"
    BY DEF Init, WriterState, ReaderState, Threads
  <2> QED
    BY <2>1 DEF Init, WriterState, ReaderState, Meeting!Init
<1>2. ChannelInv /\ [Next]_vars => [Meeting!Next]_(Meeting!rendezvousVars)
  <2> SUFFICES ASSUME ChannelInv, [Next]_vars
               PROVE  [Meeting!Next]_(Meeting!rendezvousVars)
    OBVIOUS
  <2>1. CASE Next
    BY <2>1, NextMoves, MeetingStep DEF ChannelInv, Next
  <2>2. CASE UNCHANGED vars
    BY <2>2 DEF vars, Meeting!rendezvousVars, InZone
  <2> QED
    BY <2>1, <2>2
<1> QED
  BY <1>1, <1>2, ChannelInvariant, PTL DEF Spec, IsRendezvous, Meeting!Spec
=============================================================================

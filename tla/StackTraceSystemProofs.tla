----------------------- MODULE StackTraceSystemProofs -----------------------
(***************************************************************************)
(* Theorems about the stack trace service, first alone: its ack            *)
(* descriptors, and that output is flushed before the requester is acked;  *)
(* then with the collector inside.  The whole implements the service alone *)
(* and the collector alone: the steps of either are stutters of the other. *)
(* So what is shown of the parts, here and in StackTraceCollectorProofs,   *)
(* holds of the whole.                                                     *)
(***************************************************************************)
EXTENDS StackTraceSystem, SequenceTheorems, TLAPS

(* What the DEFERs of the request at hand are still to do. *)
DefersKnown ==
  /\ ack_fd = NoFd <=> defers = <<>>
  /\ defers = <<"close">> => ~dirty

ServiceInv == TypeOK /\ DefersKnown /\ FdsAccounted

(* The three stacks of DEFERs, popped. *)
LEMMA DeferFacts ==
  ASSUME TypeOK, defers # <<>>
  PROVE  \/ defers = <<"close">> /\ LastDefer = "close" /\ Popped = <<>>
         \/ /\ defers = <<"close", "fflush">>
            /\ LastDefer = "fflush" /\ Popped = <<"close">>
<1>1. CASE defers = <<"close">>
  <2>1. Len(defers) = 1 /\ defers[1] = "close"
    BY <1>1
  <2>2. SubSeq(<<"close">>, 1, 0) = <<>>
    OBVIOUS
  <2> QED
    BY <1>1, <2>1, <2>2 DEF LastDefer, Popped
<1>2. CASE defers = <<"close", "fflush">>
  <2>1. Len(defers) = 2 /\ defers[2] = "fflush"
    BY <1>2
  <2>2. defers \in Seq({"close", "fflush"}) /\ <<"close">> \in Seq({"close", "fflush"})
    BY <1>2
  <2>3. /\ SubSeq(defers, 1, 1) \in Seq({"close", "fflush"})
        /\ Len(SubSeq(defers, 1, 1)) = 1
        /\ SubSeq(defers, 1, 1)[1] = "close"
    BY <1>2, <2>2, SubSeqProperties
  <2>4. SubSeq(defers, 1, 1) = <<"close">>
    <3> DEFINE a == SubSeq(defers, 1, 1)
               b == <<"close">>
    <3>1. Len(a) = Len(b) /\ \A i \in 1 .. Len(a) : a[i] = b[i]
      BY <2>3
    <3> HIDE DEF a, b
    <3>2. a \in Seq({"close", "fflush"}) /\ b \in Seq({"close", "fflush"})
      BY <2>2, <2>3 DEF a, b
    <3>3. a = b
      BY <3>1, <3>2, SeqEqual
    <3> QED
      BY <3>3 DEF a, b
  <2> QED
    BY <1>2, <2>1, <2>4 DEF LastDefer, Popped
<1> QED
  BY <1>1, <1>2 DEF TypeOK

(* Before InstallExternalHandler nothing is open. *)
LEMMA InitInv == Init => ServiceInv
<1> SUFFICES ASSUME Init PROVE ServiceInv
  OBVIOUS
<1>1. TypeOK
  <2>1. installed \in BOOLEAN /\ dirty \in BOOLEAN
    BY Zenon DEF Init
  <2> QED
    BY <2>1, BoundsAssumption DEF Init, TypeOK, NoFd
<1>2. DefersKnown
  BY DEF Init, DefersKnown
<1>3. FdsAccounted
  BY FdsAssumption DEF Init, FdsAccounted, Sending, Queued, NoFd
<1> QED
  BY <1>1, <1>2, <1>3 DEF ServiceInv

-----------------------------------------------------------------------------
(* Each step keeps the types. *)
LEMMA TypeStep == ServiceInv /\ [Next]_vars => TypeOK'
<1> SUFFICES ASSUME ServiceInv, [Next]_vars PROVE TypeOK'
  OBVIOUS
<1>0. TypeOK
  BY DEF ServiceInv
<1> USE <1>0, FdsAssumption, BoundsAssumption
<1>1. CASE InstallExternalHandler
  BY <1>1 DEF InstallExternalHandler, StartServer, TypeOK
<1>2. ASSUME NEW t \in Threads, NoPipe(t) PROVE TypeOK'
  BY <1>2 DEF NoPipe, CanTake, TypeOK
<1>3. ASSUME NEW t \in Threads, NEW fd \in Fds, TakeRequest(t, fd) PROVE TypeOK'
  BY <1>3 DEF TakeRequest, CanTake, TypeOK
<1>4. ASSUME NEW t \in Threads, WriteRequest(t) PROVE TypeOK'
  BY <1>4 DEF WriteRequest, TypeOK
<1>5. ASSUME NEW t \in Threads, WriteFails(t) PROVE TypeOK'
  BY <1>5 DEF WriteFails, TypeOK
<1>6. ASSUME NEW fd \in Fds, ForeignSignal(fd) PROVE TypeOK'
  BY <1>6 DEF ForeignSignal, TypeOK
<1>7. CASE ReadRequest
  BY <1>7 DEF ReadRequest, Defers, TypeOK
<1>8. CASE RunFlush
  BY <1>8, DeferFacts DEF RunFlush, TypeOK
<1>9. CASE RunClose
  BY <1>9, DeferFacts DEF RunClose, TypeOK
<1>10. CASE UNCHANGED vars
  BY <1>10 DEF vars, TypeOK
<1> QED
  BY <1>1, <1>2, <1>3, <1>4, <1>5, <1>6, <1>7, <1>8, <1>9, <1>10
  DEF Next, HandlerStep, ServiceStep

(* The DEFERs run innermost first. *)
LEMMA DefersStep == ServiceInv /\ [Next]_vars => DefersKnown'
<1> SUFFICES ASSUME ServiceInv, [Next]_vars PROVE DefersKnown'
  OBVIOUS
<1>0. TypeOK /\ DefersKnown
  BY DEF ServiceInv
<1>1. CASE UNCHANGED <<ack_fd, defers, dirty>>
  BY <1>0, <1>1 DEF DefersKnown
<1>2. CASE ReadRequest
  BY <1>0, <1>2, FdsAssumption DEF ReadRequest, Defers, TypeOK, DefersKnown, NoFd
<1>3. CASE RunFlush
  <2>1. defers' = <<"close">> /\ ack_fd' = ack_fd /\ dirty' = FALSE /\ ack_fd # NoFd
    BY <1>0, <1>3, DeferFacts DEF RunFlush, DefersKnown
  <2>2. ~dirty'
    BY <2>1
  <2> QED
    BY <2>1, <2>2 DEF DefersKnown
<1>4. CASE RunClose
  BY <1>0, <1>4, DeferFacts DEF RunClose, DefersKnown
<1> QED
  BY <1>1, <1>2, <1>3, <1>4
  DEF Next, vars, HandlerStep, ServiceStep, InstallExternalHandler, NoPipe,
      TakeRequest, WriteRequest, WriteFails, ForeignSignal

-----------------------------------------------------------------------------
(* FdsAccounted speaks of the descriptors in their places only. *)
LEMMA FdsUnchanged ==
  ASSUME FdsAccounted, UNCHANGED <<open, sending, pipe, ack_fd>>,
         server' = "broken" \/ server' = server
  PROVE  FdsAccounted'
BY DEF FdsAccounted, Sending, Queued

(* ExternalHandler gets a descriptor that is nowhere yet. *)
LEMMA FdsTake ==
  ASSUME ServiceInv, NEW t \in Threads, NEW fd \in Fds, TakeRequest(t, fd)
  PROVE  FdsAccounted'
<1>1. /\ sending' = [sending EXCEPT ![t] = fd] /\ sending \in [Threads -> Fds \cup {NoFd}]
      /\ sending[t] = NoFd /\ fd \notin open /\ open' = open \cup {fd}
      /\ UNCHANGED <<server, pipe, ack_fd>> /\ 0 \notin Fds /\ NoFd = 0
      /\ FdsAccounted
  BY FdsAssumption DEF TakeRequest, CanTake, ServiceInv, TypeOK, NoFd
<1>2. ~Sending(fd) /\ ~Queued(fd) /\ ack_fd # fd
  BY <1>1 DEF FdsAccounted
<1>3. \A e \in Fds : Sending(e)' <=> Sending(e) \/ e = fd
  BY <1>1 DEF Sending
<1>4. \A e \in Fds : Queued(e)' <=> Queued(e)
  BY <1>1 DEF Queued
<1>5. \A e \in Fds : \A r, u \in Threads : sending'[r] = e /\ sending'[u] = e => r = u
  BY <1>1, <1>2 DEF FdsAccounted, Sending
<1> QED
  BY <1>1, <1>2, <1>3, <1>4, <1>5 DEF FdsAccounted

(* ExternalHandler hands its descriptor over to the pipe. *)
LEMMA FdsWrite ==
  ASSUME ServiceInv, NEW t \in Threads, WriteRequest(t)
  PROVE  FdsAccounted'
<1> DEFINE fd == sending[t]
<1>1. /\ sending' = [sending EXCEPT ![t] = NoFd] /\ sending \in [Threads -> Fds \cup {NoFd}]
      /\ fd \in Fds /\ NoFd \notin Fds
      /\ UNCHANGED <<server, open, ack_fd>> /\ FdsAccounted
      /\ pipe \in Seq(Fds) /\ pipe' = Append(pipe, fd)
  BY FdsAssumption DEF WriteRequest, ServiceInv, TypeOK, NoFd
<1>2. /\ Len(pipe) \in Nat /\ Len(pipe') = Len(pipe) + 1
      /\ \A i \in 1 .. Len(pipe) : pipe'[i] = pipe[i]
      /\ pipe'[Len(pipe) + 1] = fd
  BY <1>1, AppendProperties, LenProperties
<1>3. Sending(fd) /\ ~Queued(fd) /\ ack_fd # fd /\ fd \in open
  BY <1>1 DEF FdsAccounted, Sending
<1>4. \A e \in Fds : Sending(e)' <=> Sending(e) /\ e # fd
  BY <1>1 DEF FdsAccounted, Sending
<1>5. \A e \in Fds : Queued(e)' <=> Queued(e) \/ e = fd
  BY <1>2 DEF Queued
<1>6. \A e \in Fds : \A r, u \in Threads : sending'[r] = e /\ sending'[u] = e => r = u
  BY <1>1 DEF FdsAccounted
<1>7. \A e \in Fds : \A i, j \in 1 .. Len(pipe') : pipe'[i] = e /\ pipe'[j] = e => i = j
  BY <1>1, <1>2, <1>3 DEF FdsAccounted, Queued
<1> HIDE DEF fd
<1> QED
  BY <1>1, <1>3, <1>4, <1>5, <1>6, <1>7 DEF FdsAccounted

(* Without a service pipe it closes its descriptor, or loses it. *)
LEMMA FdsWriteFails ==
  ASSUME ServiceInv, NEW t \in Threads, WriteFails(t)
  PROVE  FdsAccounted'
<1> DEFINE fd == sending[t]
<1>1. /\ sending' = [sending EXCEPT ![t] = NoFd] /\ sending \in [Threads -> Fds \cup {NoFd}]
      /\ fd \in Fds /\ NoFd \notin Fds
      /\ server' = "broken" /\ open' \in {open, open \ {fd}}
      /\ UNCHANGED <<pipe, ack_fd>> /\ FdsAccounted
  BY FdsAssumption DEF WriteFails, ServiceInv, TypeOK, NoFd
<1>2. Sending(fd) /\ ~Queued(fd) /\ ack_fd # fd
  BY <1>1 DEF FdsAccounted, Sending
<1>3. \A e \in Fds : Sending(e)' <=> Sending(e) /\ e # fd
  BY <1>1 DEF FdsAccounted, Sending
<1>4. \A e \in Fds : Queued(e)' <=> Queued(e)
  BY <1>1 DEF Queued
<1>5. \A e \in Fds : \A r, u \in Threads : sending'[r] = e /\ sending'[u] = e => r = u
  BY <1>1 DEF FdsAccounted
<1> HIDE DEF fd
<1> QED
  BY <1>1, <1>2, <1>3, <1>4, <1>5 DEF FdsAccounted

(* RequestProcessor takes the oldest request. *)
LEMMA FdsRead ==
  ASSUME ServiceInv, ReadRequest
  PROVE  FdsAccounted'
<1> DEFINE fd == Head(pipe)
<1>1. /\ pipe \in Seq(Fds) /\ pipe # <<>> /\ pipe' = Tail(pipe) /\ ack_fd' = fd
      /\ ack_fd = NoFd /\ NoFd \notin Fds
      /\ UNCHANGED <<server, open, sending>> /\ FdsAccounted
  BY FdsAssumption DEF ReadRequest, ServiceInv, TypeOK, NoFd
<1>2. /\ Len(pipe) \in Nat /\ Len(pipe) >= 1 /\ Len(pipe') = Len(pipe) - 1
      /\ fd = pipe[1] /\ fd \in Fds
      /\ \A i \in 1 .. Len(pipe) - 1 : pipe'[i] = pipe[i + 1]
  BY <1>1, HeadTailProperties, LenProperties, EmptySeq
<1>3. Queued(fd) /\ ~Sending(fd) /\ fd \in open
  BY <1>1, <1>2 DEF FdsAccounted, Queued
<1>4. \A e \in Fds : Queued(e)' <=> Queued(e) /\ e # fd
  <2> SUFFICES ASSUME NEW e \in Fds PROVE Queued(e)' <=> Queued(e) /\ e # fd
    OBVIOUS
  <2>1. ASSUME Queued(e)' PROVE Queued(e) /\ e # fd
    <3>1. PICK i \in 1 .. Len(pipe) - 1 : pipe[i + 1] = e
      BY <1>2, <2>1 DEF Queued
    <3>2. i + 1 \in 1 .. Len(pipe) /\ i + 1 # 1 /\ 1 \in 1 .. Len(pipe)
      BY <1>2
    <3> QED
      BY <1>1, <1>2, <3>1, <3>2 DEF FdsAccounted, Queued
  <2>2. ASSUME Queued(e), e # fd PROVE Queued(e)'
    <3>1. PICK i \in 1 .. Len(pipe) : pipe[i] = e
      BY <2>2 DEF Queued
    <3>2. i - 1 \in 1 .. Len(pipe) - 1
      BY <1>2, <2>2, <3>1
    <3>3. pipe'[i - 1] = e
      BY <1>2, <3>1, <3>2
    <3> QED
      BY <1>2, <3>2, <3>3 DEF Queued
  <2> QED
    BY <2>1, <2>2
<1>5. \A e \in Fds : \A i, j \in 1 .. Len(pipe') : pipe'[i] = e /\ pipe'[j] = e => i = j
  <2> SUFFICES ASSUME NEW e \in Fds, NEW i \in 1 .. Len(pipe'), NEW j \in 1 .. Len(pipe'),
                      pipe'[i] = e, pipe'[j] = e
               PROVE  i = j
    OBVIOUS
  <2>1. /\ i + 1 \in 1 .. Len(pipe) /\ j + 1 \in 1 .. Len(pipe)
        /\ pipe[i + 1] = e /\ pipe[j + 1] = e
    BY <1>2
  <2>2. i + 1 = j + 1
    BY <1>1, <2>1 DEF FdsAccounted
  <2> QED
    BY <1>2, <2>2
<1>6. \A e \in Fds : Sending(e)' <=> Sending(e)
  BY <1>1 DEF Sending
<1> HIDE DEF fd
<1> QED
  BY <1>1, <1>2, <1>3, <1>4, <1>5, <1>6 DEF FdsAccounted

(* The deferred close closes the descriptor of the request, once. *)
LEMMA FdsClose ==
  ASSUME ServiceInv, RunClose
  PROVE  FdsAccounted'
<1>1. /\ open' = open \ {ack_fd} /\ ack_fd' = NoFd /\ NoFd \notin Fds
      /\ UNCHANGED <<server, pipe, sending>> /\ FdsAccounted
  BY DeferFacts, FdsAssumption DEF RunClose, ServiceInv, NoFd
<1>2. \A e \in Fds : (Sending(e)' <=> Sending(e)) /\ (Queued(e)' <=> Queued(e))
  BY <1>1 DEF Sending, Queued
<1> QED
  BY <1>1, <1>2 DEF FdsAccounted

-----------------------------------------------------------------------------
(* The invariant of the service. *)
LEMMA ServiceStepInv == ServiceInv /\ [Next]_vars => ServiceInv'
<1> SUFFICES ASSUME ServiceInv, [Next]_vars PROVE FdsAccounted'
  BY TypeStep, DefersStep DEF ServiceInv
<1>0. FdsAccounted
  BY DEF ServiceInv
<1>1. CASE InstallExternalHandler
  <2>1. PICK s \in {"up", "broken"} : server = "none" /\ server' = s
    BY <1>1 DEF InstallExternalHandler, StartServer
  <2> QED
    BY <1>0, <1>1, <2>1 DEF InstallExternalHandler, FdsAccounted, Sending, Queued
<1>2. ASSUME NEW t \in Threads, NoPipe(t) PROVE FdsAccounted'
  BY <1>0, <1>2, FdsUnchanged DEF NoPipe
<1>3. ASSUME NEW fd \in Fds, ForeignSignal(fd) PROVE FdsAccounted'
  BY <1>0, <1>3, FdsUnchanged DEF ForeignSignal
<1>4. CASE RunFlush
  <2>1. ack_fd' = ack_fd
    BY <1>4, DeferFacts DEF RunFlush, ServiceInv
  <2> QED
    BY <1>0, <1>4, <2>1, FdsUnchanged DEF RunFlush
<1>5. CASE UNCHANGED vars
  BY <1>0, <1>5, FdsUnchanged DEF vars
<1> QED
  BY <1>1, <1>2, <1>3, <1>4, <1>5, FdsTake, FdsWrite, FdsWriteFails, FdsRead, FdsClose
  DEF Next, HandlerStep, ServiceStep

(* The invariant holds in every state the service reaches. *)
THEOREM ServiceInvariant == Spec => []ServiceInv
BY InitInv, ServiceStepInv, PTL DEF Spec

(* ExternalHandler and RequestProcessor leak no ack descriptor, close none *)
(* twice and none of another request, except that one may be lost if the   *)
(* service pipe was never made.                                            *)
THEOREM FdsCorrect == Spec => []FdsAccounted
<1>1. ServiceInv => FdsAccounted
  BY DEF ServiceInv
<1> QED
  BY <1>1, ServiceInvariant, PTL

(* RequestProcessor never closes a descriptor before it has flushed what   *)
(* it printed for that request.                                            *)
THEOREM FlushFirst == Spec => AckAfterFlush
<1>1. ServiceInv /\ [Next]_vars
        => [\A fd \in Fds : ack_fd = fd /\ fd \in open /\ fd \notin open' => ~dirty]_vars
  <2> SUFFICES ASSUME ServiceInv, Next, NEW fd \in Fds,
                      ack_fd = fd, fd \in open, fd \notin open'
               PROVE  ~dirty
    OBVIOUS
  <2>1. CASE RunClose
    <3>1. defers = <<"close">>
      BY <2>1, DeferFacts DEF RunClose, ServiceInv
    <3> QED
      BY <3>1 DEF ServiceInv, DefersKnown
  <2>2. ASSUME NEW t \in Threads, WriteFails(t) PROVE FALSE
    BY <2>2 DEF WriteFails, ServiceInv, FdsAccounted, Sending
  <2> QED
    BY <2>1, <2>2
    DEF Next, HandlerStep, ServiceStep, InstallExternalHandler, NoPipe, TakeRequest,
        WriteRequest, ForeignSignal, ReadRequest, RunFlush
<1> QED
  BY <1>1, ServiceInvariant, PTL DEF Spec, AckAfterFlush

-----------------------------------------------------------------------------
(* Each step of the whole is a step of ExternalHandler or RequestProcessor *)
(* as StackTraceService has it, or none of theirs.                         *)
LEMMA SystemStep == [SystemNext]_systemVars => [Next]_vars
<1> SUFFICES ASSUME [SystemNext]_systemVars PROVE [Next]_vars
  OBVIOUS
<1>1. CASE Install
  BY <1>1 DEF Install, Next
<1>2. ASSUME NEW t \in Threads, Lose(t) \/ ExternalStep(t) \/ \E fd \in Fds : Take(t, fd)
      PROVE  Next
  BY <1>2 DEF Lose, ExternalStep, Take, Next
<1>3. ASSUME NEW t \in Threads, InternalStep(t) \/ Dies(t)
      PROVE  UNCHANGED vars
  BY <1>3 DEF InternalStep, Dies
<1>4. ASSUME NEW fd \in Fds, Foreign(fd) PROVE Next
  BY <1>4 DEF Foreign, Next
<1>5. CASE Request \/ EndRequest
  BY <1>5 DEF Request, EndRequest, Next, ServiceStep
<1>6. CASE BeginCollect \/ GoOnCollecting
  BY <1>6 DEF BeginCollect, GoOnCollecting
<1>7. CASE UNCHANGED systemVars
  BY <1>7 DEF systemVars
<1> QED
  BY <1>1, <1>2, <1>3, <1>4, <1>5, <1>6, <1>7 DEF SystemNext, ServiceThread

(* The composition implements StackTraceService. *)
THEOREM ImplementsService == SystemSpec => Spec
<1>1. SystemInit => Init
  BY DEF SystemInit
<1> QED
  BY <1>1, SystemStep, PTL DEF SystemSpec, Spec

(* With Collect running inside RequestProcessor, and its handlers and the  *)
(* external ones on top of each other, ack descriptors are accounted for,  *)
THEOREM SystemFds == SystemSpec => []FdsAccounted
BY ImplementsService, FdsCorrect, PTL

(* and output is flushed before the requester is acked.                    *)
THEOREM SystemFlush == SystemSpec => AckAfterFlush
BY ImplementsService, FlushFirst, PTL

-----------------------------------------------------------------------------
(* The assumptions of the collector's theorems hold.                       *)
LEMMA CollectorConstants == Collector!Constants
<1>1. Collector!IsFiniteSet(Threads)
  BY TidsAssumption DEF Collector!IsFiniteSet, IsFiniteSet
<1> QED
  BY <1>1, TidsAssumption, CollectorAssumption, StacksAssumption, AddrsAssumption
  DEF Collector!Constants

(* Each step of the whole is a step of Collect or InternalHandler, or none *)
(* of theirs.                                                              *)
LEMMA CollectorSystemStep == [SystemNext]_systemVars => [Collector!Next]_collectorVars
<1> SUFFICES ASSUME [SystemNext]_systemVars PROVE [Collector!Next]_collectorVars
  OBVIOUS
<1>1. CASE Install
  BY <1>1 DEF Install
<1>2. ASSUME NEW t \in Threads, Lose(t) \/ ExternalStep(t) \/ \E fd \in Fds : Take(t, fd)
      PROVE  UNCHANGED collectorVars
  BY <1>2 DEF Lose, ExternalStep, Take
<1>3. ASSUME NEW t \in Threads, InternalStep(t) \/ Dies(t)
      PROVE  Collector!Next
  BY <1>3 DEF InternalStep, Dies, Collector!Next
<1>4. ASSUME NEW fd \in Fds, Foreign(fd) PROVE UNCHANGED collectorVars
  BY <1>4 DEF Foreign
<1>5. CASE Request \/ EndRequest
  BY <1>5 DEF Request, EndRequest
<1>6. CASE BeginCollect \/ GoOnCollecting
  BY <1>6 DEF BeginCollect, GoOnCollecting, Collector!Next
<1>7. CASE UNCHANGED systemVars
  BY <1>7 DEF systemVars
<1> QED
  BY <1>1, <1>2, <1>3, <1>4, <1>5, <1>6, <1>7 DEF SystemNext, ServiceThread

(* The composition implements StackTraceCollector: each request runs the   *)
(* Collect of that module.                                                 *)
THEOREM ImplementsCollector == SystemSpec => Collector!Spec
<1>1. SystemInit => Collector!Init
  BY DEF SystemInit
<1>2. [SystemNext]_systemVars => [Collector!Next]_(Collector!vars)
  BY CollectorSystemStep DEF collectorVars, Collector!vars
<1> QED
  BY <1>1, <1>2, PTL DEF SystemSpec, Collector!Spec

(* So whichever way a request ends, Collect has closed what it opened, but *)
(* for one timer for each timerfd_settime that failed,                     *)
THEOREM SystemFdsReturned == SystemSpec => []FdsReturned
<1>1. Collector!Spec => []Collector!FdsReturned
  BY CollectorConstants, Collector!FdsReturnedCorrect
<1>2. Collector!FdsReturned => FdsReturned
  BY DEF FdsReturned
<1> QED
  BY <1>1, <1>2, ImplementsCollector, PTL

(* and a collection that succeeds has no InternalHandler left, even with   *)
(* ExternalHandler on top of it.                                           *)
THEOREM SystemNoHandlerLeft == SystemSpec => []NoHandlerLeft
<1>1. Collector!Spec => []Collector!NoHandlerLeft
  BY CollectorConstants, Collector!NoHandlerLeftCorrect
<1>2. Collector!NoHandlerLeft => NoHandlerLeft
  BY DEF NoHandlerLeft
<1> QED
  BY <1>1, <1>2, ImplementsCollector, PTL

(* A request that is answered is answered with the truth: each thread that *)
(* was asked is once in one group, with the stack its handler walked, and  *)
(* ToPrettyString lists it once.                                           *)
THEOREM SystemReports == SystemSpec => []ResultsCorrect
<1>1. Collector!Spec => []Collector!ResultsCorrect
  BY CollectorConstants, Collector!ReportsCorrect
<1>2. Collector!ResultsCorrect => ResultsCorrect
  BY DEF ResultsCorrect
<1> QED
  BY <1>1, <1>2, ImplementsCollector, PTL

(* Every reachable state of the whole is well typed: no trace is deeper    *)
(* than kMaxDepth, and no form, thread or descriptor is out of range.      *)
THEOREM SystemTypes == SystemSpec => []SystemTypeOK
<1> DEFINE Own == collected \in BOOLEAN /\ above \subseteq Threads
<1>1. SystemInit => Own
  BY Zenon DEF SystemInit
<1>2. Own /\ [SystemNext]_systemVars => Own'
  <2> SUFFICES ASSUME Own, [SystemNext]_systemVars PROVE Own'
    OBVIOUS
  <2>1. collected' \in BOOLEAN
    BY Zenon DEF SystemNext, ServiceThread, Install, Lose, ExternalStep, InternalStep, Dies,
                 Take, Foreign, Request, BeginCollect, GoOnCollecting, EndRequest, systemVars
  <2>2. above' \subseteq Threads
    BY DEF SystemNext, ServiceThread, Install, Lose, ExternalStep, InternalStep, Dies,
           Take, Foreign, Request, BeginCollect, GoOnCollecting, EndRequest, systemVars
  <2> QED
    BY <2>1, <2>2
<1>3. Collector!Spec => []Collector!TypeOK
  BY CollectorConstants, Collector!CollectorTypes
<1>4. ServiceInv /\ Collector!TypeOK /\ Own => SystemTypeOK
  BY DEF ServiceInv, SystemTypeOK
<1> QED
  BY <1>1, <1>2, <1>3, <1>4, ImplementsService, ImplementsCollector, ServiceInvariant, PTL
  DEF SystemSpec
=============================================================================

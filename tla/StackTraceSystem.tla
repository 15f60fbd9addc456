-------------------------- MODULE StackTraceSystem --------------------------
(***************************************************************************)
(* src/ts/signal_handler.cc as a whole: StackTraceService, whose thread    *)
(* runs StackTraceCollector::Collect for each request.  The two share the  *)
(* threads, which may be in both signal handlers at once, one on top of    *)
(* the other, and the descriptors of the process.                          *)
(***************************************************************************)
EXTENDS StackTraceService

CONSTANTS Stacks, kMaxDepth, Addrs, MaxRounds   \* see StackTraceCollector

ASSUME TidsAssumption == Threads \subseteq Nat /\ IsFiniteSet(Threads)
ASSUME CollectorAssumption == kMaxDepth \in Nat /\ MaxRounds \in Nat
ASSUME StacksAssumption == \A t \in Threads : Stacks[t] \subseteq Seq(Nat)
ASSUME AddrsAssumption == IsFiniteSet(Addrs) /\ 0 \notin Addrs

VARIABLES
  alive, cpc, todo, formOf, heap, sigs, at, rest, ackPipe, acks, fired,
  result, round, fds, closes, unset, truth, forsaken,  \* see StackTraceCollector
  collected,   \* the Collect of the request at hand has returned
  above        \* threads whose ExternalHandler interrupted their InternalHandler

(* StackTraceCollector, with the theorems about it, which hold here too.   *)
Collector == INSTANCE StackTraceCollectorProofs WITH Self <- Service

collectorVars == <<alive, cpc, todo, formOf, heap, sigs, at, rest, ackPipe, acks,
                   fired, result, round, fds, closes, unset, truth, forsaken>>
systemVars == <<vars, collectorVars, collected, above>>

SystemTypeOK ==
  /\ TypeOK /\ Collector!TypeOK
  /\ collected \in BOOLEAN /\ above \subseteq Threads

SystemInit == Init /\ Collector!Init /\ collected = FALSE /\ above = {}

(* The kernel: n descriptors more, besides those of the ack pipes and of   *)
(* Collect.                                                                *)
CanOpen(n) == Cardinality(open) + fds + n <= OpenMax

InInternal(t) == at[t] # Collector!NoAddr
InExternal(t) == sending[t] # NoFd

-----------------------------------------------------------------------------
Install == InstallExternalHandler /\ UNCHANGED <<collectorVars, collected, above>>

(* The external signal interrupts whatever t does, InternalHandler too: no *)
(* signal is in the sa_mask of the other.  The kernel gives the lowest     *)
(* free descriptor; those of Collect are counted, not named.               *)
Take(t, fd) ==
  /\ t \in alive /\ CanOpen(2)
  /\ \A e \in Fds \ open : fd <= e
  /\ TakeRequest(t, fd)
  /\ above' = IF InInternal(t) THEN above \cup {t} ELSE above
  /\ UNCHANGED <<collectorVars, collected>>

Lose(t) == t \in alive /\ NoPipe(t) /\ UNCHANGED <<collectorVars, collected, above>>

Foreign(fd) == ForeignSignal(fd) /\ UNCHANGED <<collectorVars, collected, above>>

ExternalStep(t) ==
  /\ InInternal(t) => t \in above
  /\ HandlerStep(t)
  /\ above' = above \ {t}
  /\ UNCHANGED <<collectorVars, collected>>

InternalStep(t) ==
  /\ InExternal(t) => t \notin above
  /\ Collector!HandlerStep(t)
  /\ UNCHANGED <<vars, collected, above>>

Dies(t) ==
  /\ ~InExternal(t)
  /\ Collector!Die(t)
  /\ UNCHANGED <<vars, collected, above>>

-----------------------------------------------------------------------------
(* RequestProcessor: the request, *)
Request ==
  /\ ReadRequest
  /\ collected' = FALSE
  /\ UNCHANGED <<collectorVars, above>>

(* Collect, *)
BeginCollect ==
  /\ ServiceRuns /\ ack_fd # NoFd /\ ~collected
  /\ \/ CanOpen(2) /\ Collector!Start /\ UNCHANGED collected
     \/ Collector!StartNoPipe /\ collected' = TRUE
  /\ UNCHANGED <<vars, above>>

GoOnCollecting ==
  /\ ServiceRuns
  /\ Collector!CollectorStep \/ (CanOpen(1) /\ Collector!OpensTimer)
  /\ collected' = (cpc' = "idle")
  /\ UNCHANGED <<vars, above>>

(* and the DEFERs of the request. *)
EndRequest ==
  /\ collected
  /\ RunFlush \/ RunClose
  /\ UNCHANGED <<collectorVars, collected, above>>

ServiceThread == Request \/ BeginCollect \/ GoOnCollecting \/ EndRequest

SystemNext ==
  \/ Install
  \/ \E t \in Threads : \/ Lose(t) \/ ExternalStep(t) \/ InternalStep(t) \/ Dies(t)
                        \/ \E fd \in Fds : Take(t, fd)
  \/ \E fd \in Fds : Foreign(fd)
  \/ ServiceThread

(* Threads run, each in the handler on top and the service in its loop,    *)
(* where the five seconds pass.                                            *)
ThreadRuns(t) ==
  ExternalStep(t) \/ InternalStep(t) \/ (t = Service /\ ServiceThread)

SystemSpec ==
  /\ SystemInit /\ [][SystemNext]_systemVars
  /\ \A t \in Threads : WF_systemVars(ThreadRuns(t))

-----------------------------------------------------------------------------
(* Collect reports each thread that answered once, with the stack it had,  *)
(* unless a handler of a call that gave up was still to run at the start:  *)
(* so the service prints the truth though external signals interrupt the   *)
(* handlers that gather it.                                                *)
ResultsCorrect == Collector!ResultsCorrect

(* A Collect that succeeds leaves no InternalHandler behind that would     *)
(* write to a form it has freed.                                           *)
NoHandlerLeft == Collector!NoHandlerLeft

(* Whichever way Collect returns it has closed its pipe and timer, except  *)
(* one timer for each timerfd_settime that failed: the service does not    *)
(* run out of descriptors request by request.                              *)
FdsReturned == Collector!FdsReturned
=============================================================================

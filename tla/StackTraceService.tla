------------------------- MODULE StackTraceService -------------------------
(***************************************************************************)
(* The stack trace service of src/ts/signal_handler.cc: a thread that gets *)
(* the external signal, or calls backtrace(), runs ExternalHandler, which  *)
(* makes a pipe and writes the descriptor of its write end to the service  *)
(* pipe.  RequestProcessor, on a thread of its own, reads the descriptor,  *)
(* collects and prints the stack traces, and closes the descriptor.        *)
(*                                                                         *)
(* Collect is one step here; module StackTraceCollector has its inside.    *)
(***************************************************************************)
EXTENDS Integers, Sequences, FiniteSets

CONSTANTS
  Threads,     \* threads of the server's process, Service among them
  Service,     \* the thread that runs RequestProcessor
  Signalled,   \* the threads on which ExternalHandler may run
  Fds,         \* descriptors that ack pipes may get
  OpenMax,     \* how many descriptors may be open: RLIMIT_NOFILE
  Capacity,    \* requests the service pipe holds
  MaxRequests  \* bound: signals taken

ASSUME ThreadsAssumption == Service \in Threads /\ Signalled \subseteq Threads
ASSUME FdsAssumption == IsFiniteSet(Fds) /\ 0 \notin Fds
ASSUME BoundsAssumption ==
  Capacity \in Nat \ {0} /\ OpenMax \in Nat /\ MaxRequests \in Nat

NoFd == 0

VARIABLES
  server,      \* "none", "up", or "broken" if the service pipe was not made
  installed,   \* the external handler is installed
  pipe,        \* requests in the service pipe
  open,        \* open descriptors of Fds
  sending,     \* the descriptor each thread's ExternalHandler is to send, or NoFd
  ack_fd,      \* the request RequestProcessor is on, or NoFd
  defers,      \* the deferred calls of that request, the innermost last
  dirty,       \* stderr holds output not flushed
  requests     \* signals taken

vars == <<server, installed, pipe, open, sending, ack_fd, defers, dirty, requests>>

TypeOK ==
  /\ server \in {"none", "up", "broken"} /\ installed \in BOOLEAN
  /\ pipe \in Seq(Fds) /\ Len(pipe) <= Capacity
  /\ open \subseteq Fds
  /\ sending \in [Threads -> Fds \cup {NoFd}]
  /\ ack_fd \in Fds \cup {NoFd}
  /\ defers \in {<<>>, <<"close">>, <<"close", "fflush">>}
  /\ dirty \in BOOLEAN
  /\ requests \in 0 .. MaxRequests

Init ==
  /\ server = "none" /\ installed = FALSE
  /\ pipe = <<>> /\ open = {}
  /\ sending = [t \in Threads |-> NoFd]
  /\ ack_fd = NoFd /\ defers = <<>> /\ dirty = FALSE
  /\ requests = 0

-----------------------------------------------------------------------------
(* The first use of GetExternalHandlerState constructs the state: the      *)
(* service thread starts, makes its pipe, or fails to, and says so.  Both  *)
(* ends are uninitialised then; the end it reads is taken to be no open    *)
(* file, so that its loop never gets a request.                            *)
StartServer ==
  /\ server = "none"
  /\ server' \in {"up", "broken"}

(* InstallExternalHandler: without a pipe server_fd is uninitialised, and  *)
(* the handler is installed if it is not negative.                         *)
InstallExternalHandler ==
  /\ StartServer
  /\ installed' \in (IF server' = "up" THEN {TRUE} ELSE BOOLEAN)
  /\ UNCHANGED <<pipe, open, sending, ack_fd, defers, dirty, requests>>

(* Service runs its loop only when it is not in the signal handler. *)
ServiceRuns == server = "up" /\ sending[Service] = NoFd

(* The signal, if the handler is installed, or a call of backtrace(). *)
CanTake(t) ==
  /\ server # "none" /\ requests < MaxRequests
  /\ t \in Signalled /\ sending[t] = NoFd

(* ExternalHandler: the pipe is made and its read end closed. *)
TakeRequest(t, fd) ==
  /\ CanTake(t)
  /\ fd \in Fds \ open /\ Cardinality(open) + 2 <= OpenMax
  /\ open' = open \cup {fd}
  /\ sending' = [sending EXCEPT ![t] = fd]
  /\ requests' = requests + 1
  /\ UNCHANGED <<server, installed, pipe, ack_fd, defers, dirty>>

(* pipe() fails: the process or the system is out of descriptors. *)
NoPipe(t) ==
  /\ CanTake(t)
  /\ requests' = requests + 1
  /\ UNCHANGED <<server, installed, pipe, open, sending, ack_fd, defers, dirty>>

ForeignRequest(fd) ==        \* mutant: the thread group is not compared
  /\ installed /\ requests < MaxRequests /\ Len(pipe) < Capacity /\ server = "up"
  /\ pipe' = Append(pipe, fd)
  /\ requests' = requests + 1
  /\ UNCHANGED <<server, installed, open, sending, ack_fd, defers, dirty>>

(* The signal reaches a forked child, which has the handler and the end of *)
(* the service pipe but no service thread: it must not write its own       *)
(* descriptor fd.                                                          *)
ForeignSignal(fd) ==
  /\ installed /\ requests < MaxRequests
  /\ requests' = requests + 1
  /\ UNCHANGED <<server, installed, pipe, open, sending, ack_fd, defers, dirty>>

(* The write of the request waits while the pipe is full. *)
WriteRequest(t) ==
  /\ sending[t] # NoFd /\ server = "up" /\ Len(pipe) < Capacity
  /\ pipe' = Append(pipe, sending[t])
  /\ sending' = [sending EXCEPT ![t] = NoFd]
  /\ UNCHANGED <<server, installed, open, ack_fd, defers, dirty, requests>>

(* server_fd is uninitialised: the write fails and the descriptor is       *)
(* closed, or server_fd, if it is not negative, happens to be some open    *)
(* file and the request is lost in it.                                     *)
WriteFails(t) ==
  /\ sending[t] # NoFd /\ server = "broken"
  /\ \/ open' = open \ {sending[t]}
     \/ installed /\ UNCHANGED open
  /\ sending' = [sending EXCEPT ![t] = NoFd]
  /\ UNCHANGED <<server, installed, pipe, ack_fd, defers, dirty, requests>>

-----------------------------------------------------------------------------
DefersSwapped == <<"fflush", "close">>    \* mutant: the DEFERs in the other order

(* The order in which RequestProcessor declares its DEFERs. *)
Defers == <<"close", "fflush">>

(* RequestProcessor reads a request, collects, prints. *)
ReadRequest ==
  /\ ServiceRuns /\ ack_fd = NoFd /\ pipe # <<>>
  /\ ack_fd' = Head(pipe)
  /\ pipe' = Tail(pipe)
  /\ defers' = Defers
  /\ dirty' = TRUE
  /\ UNCHANGED <<server, installed, open, sending, requests>>

LastDefer == defers[Len(defers)]
Popped == SubSeq(defers, 1, Len(defers) - 1)

(* The end of the loop body: the destructors run, the last declared first. *)
RunFlush ==
  /\ ServiceRuns /\ defers # <<>> /\ LastDefer = "fflush"
  /\ dirty' = FALSE
  /\ defers' = Popped
  /\ ack_fd' = IF Popped = <<>> THEN NoFd ELSE ack_fd
  /\ UNCHANGED <<server, installed, pipe, open, sending, requests>>

RunCloseNot ==               \* mutant: the descriptor is not closed
  /\ ServiceRuns /\ defers # <<>> /\ LastDefer = "close"
  /\ defers' = Popped
  /\ ack_fd' = IF Popped = <<>> THEN NoFd ELSE ack_fd
  /\ UNCHANGED <<server, installed, pipe, open, sending, dirty, requests>>

RunClose ==
  /\ ServiceRuns /\ defers # <<>> /\ LastDefer = "close"
  /\ open' = open \ {ack_fd}
  /\ defers' = Popped
  /\ ack_fd' = IF Popped = <<>> THEN NoFd ELSE ack_fd
  /\ UNCHANGED <<server, installed, pipe, sending, dirty, requests>>

ServiceStep == ReadRequest \/ RunFlush \/ RunClose

HandlerStep(t) == WriteRequest(t) \/ WriteFails(t)

Next ==
  \/ InstallExternalHandler
  \/ \E t \in Threads : NoPipe(t) \/ HandlerStep(t) \/ \E fd \in Fds : TakeRequest(t, fd)
  \/ \E fd \in Fds : ForeignSignal(fd)
  \/ ServiceStep

Spec == Init /\ [][Next]_vars

(* Threads run: each goes on in its handler, the service in its loop, and  *)
(* Collect returns.                                                        *)
LiveSpec ==
  /\ Spec
  /\ WF_vars(ServiceStep)
  /\ \A t \in Threads : WF_vars(HandlerStep(t))

-----------------------------------------------------------------------------
Sending(fd) == \E t \in Threads : sending[t] = fd
Queued(fd) == \E i \in 1 .. Len(pipe) : pipe[i] = fd

(* Every open ack descriptor is in exactly one place, a handler, the       *)
(* service pipe or the service thread, and what is in such a place is      *)
(* open: ExternalHandler and RequestProcessor leak none and close none     *)
(* twice, nor one of another request.  Only if the service pipe could not  *)
(* be made may a descriptor be lost, written to whatever file server_fd    *)
(* happens to name.                                                        *)
FdsAccounted ==
  \A fd \in Fds :
    /\ Sending(fd) \/ Queued(fd) \/ ack_fd = fd => fd \in open
    /\ fd \in open /\ server # "broken" => Sending(fd) \/ Queued(fd) \/ ack_fd = fd
    /\ Sending(fd) => ~Queued(fd) /\ ack_fd # fd
    /\ Queued(fd) => ack_fd # fd
    /\ \A t, u \in Threads : sending[t] = fd /\ sending[u] = fd => t = u
    /\ \A i, j \in 1 .. Len(pipe) : pipe[i] = fd /\ pipe[j] = fd => i = j

(* "Flush stderr before acking the requester": when the service thread     *)
(* closes a descriptor its output is flushed.                              *)
AckAfterFlush ==
  [][\A fd \in Fds : ack_fd = fd /\ fd \in open /\ fd \notin open' => ~dirty]_vars

(* Each request written is serviced: its descriptor is closed at the end.  *)
RequestServed ==
  \A fd \in Fds : Queued(fd) ~> fd \notin open

(* "We don't wait for the stack trace service thread to finish servicing   *)
(* this request": ExternalHandler returns.                                 *)
HandlerReturns == \A t \in Signalled : sending[t] # NoFd ~> sending[t] = NoFd
=============================================================================

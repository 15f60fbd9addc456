------------------------ MODULE StackTraceCollector ------------------------
(***************************************************************************)
(* StackTraceCollector::Collect and InternalHandler of                     *)
(* src/ts/signal_handler.cc: the collector lists the threads, sends each   *)
(* a real-time signal with a pointer to a form, and counts acks on a pipe  *)
(* until all have come or a timer of 5 seconds fires; each thread fills in *)
(* its form in its signal handler and writes one byte to the pipe.         *)
(*                                                                         *)
(* Forms live on the heap: an address freed when Collect returns may be    *)
(* given to a form of the next Collect, which may also get the same file   *)
(* descriptor for its pipe.  A thread may die, may find unwinding          *)
(* impossible and not answer, or may answer after Collect has given up.    *)
(***************************************************************************)
EXTENDS Integers, Sequences, FiniteSets, StackGrouping

CONSTANTS
  Threads,     \* tids of the threads of the process
  Self,        \* the one that runs Collect
  Stacks,      \* the call stacks each thread may have
  kMaxDepth,   \* ThreadStack::kMaxDepth
  Addrs,       \* heap addresses for forms
  MaxRounds    \* bound: calls of Collect that get their pipe

NoAddr == 0
Free == [tid |-> -1, trace |-> <<>>]     \* an address that is not allocated

VARIABLES
  alive,       \* threads that exist
  cpc,         \* where the collector is
  todo,        \* tids not signalled yet
  formOf,      \* slot: the form of each thread signalled, or NoAddr
  heap,        \* the form at each address
  sigs,        \* payloads of the signals pending for each thread
  at,          \* the form the thread's running handler writes to, or NoAddr
  rest,        \* the frames that handler has still to add
  ackPipe,     \* acks in the pipe
  acks,        \* acks read
  fired,       \* the timer has fired
  result,      \* what the latest Collect returned
  round,       \* calls of Collect that got their pipe
  fds,         \* descriptors opened by Collect and not closed
  closes,      \* DEFERs of the running Collect, one close each
  unset,       \* history: calls in which timerfd_settime failed
  truth,       \* history: the trace of each thread's handler in this round
  forsaken     \* history: handlers of earlier calls were to run at the start

vars == <<alive, cpc, todo, formOf, heap, sigs, at, rest, ackPipe, acks, fired,
          result, round, fds, closes, unset, truth, forsaken>>

handlers == <<sigs, at, rest>>
counting == <<ackPipe, acks, fired>>
files    == <<fds, closes, unset>>
history  == <<truth, forsaken>>

slot == {t \in Threads : formOf[t] # NoAddr}
(* init_tids without failed_tids: the threads whose form is in slot. *)
tids == slot
(* The i-th of them: init_tids is a std::set, slot is filled in its order. *)
TidAt(i) == CHOOSE t \in slot : Cardinality({u \in slot : u < t}) = i - 1
slotForms == [i \in 1 .. Cardinality(slot) |-> heap[formOf[TidAt(i)]]]

Truncate(s) == SubSeq(s, 1, IF Len(s) < kMaxDepth THEN Len(s) ELSE kMaxDepth)

NoTrace == <<-1>>
NoResult == [status |-> "none", groups |-> {}, error |-> FALSE, asked |-> {}]

TypeOK ==
  /\ alive \subseteq Threads
  /\ cpc \in {"idle", "signal", "ack"}
  /\ todo \subseteq Threads
  /\ formOf \in [Threads -> Addrs \cup {NoAddr}]
  /\ \A a \in Addrs : heap[a].tid \in Threads \cup {-1} /\ Len(heap[a].trace) <= kMaxDepth
  /\ \A t \in Threads : sigs[t] \in Seq(Addrs)
  /\ at \in [Threads -> Addrs \cup {NoAddr}]
  /\ ackPipe \in Nat /\ acks \in Nat /\ fired \in BOOLEAN
  /\ result.status \in {"none", "ok", "failed"} /\ result.error \in BOOLEAN
  /\ round \in 0 .. MaxRounds
  /\ closes \in 0 .. 3 /\ fds \in closes .. MaxRounds + 3
  /\ unset \in 0 .. round
  /\ forsaken \in BOOLEAN

Init ==
  /\ alive = Threads
  /\ cpc = "idle"
  /\ todo = {}
  /\ formOf = [t \in Threads |-> NoAddr]
  /\ heap = [a \in Addrs |-> Free]
  /\ sigs = [t \in Threads |-> <<>>]
  /\ at = [t \in Threads |-> NoAddr]
  /\ rest = [t \in Threads |-> <<>>]
  /\ ackPipe = 0 /\ acks = 0 /\ fired = FALSE
  /\ result = NoResult
  /\ round = 0
  /\ fds = 0 /\ closes = 0 /\ unset = 0
  /\ truth = [t \in Threads |-> NoTrace]
  /\ forsaken = FALSE

-----------------------------------------------------------------------------
(* Signals that Collect sends to its own thread are handled before the     *)
(* system call that sent them returns.                                     *)
CollectorRuns == sigs[Self] = <<>> /\ at[Self] = NoAddr

Outstanding == {t \in Threads : sigs[t] # <<>> \/ at[t] # NoAddr}

(* The history matters for a Collect that succeeds only. *)
ForgetHistory == truth' = [t \in Threads |-> NoTrace] /\ forsaken' = FALSE

(* Collect returns: the DEFERs close what they were declared for, of the   *)
(* n descriptors open by then, and the forms are freed.                    *)
Return(status, groups, error, n) ==
  /\ cpc' = "idle"
  /\ result' = [status |-> status, groups |-> groups, error |-> error,
                asked |-> IF error THEN {} ELSE slot]
  /\ IF status = "ok" THEN UNCHANGED history ELSE ForgetHistory
  /\ heap' = [a \in Addrs |-> IF \E t \in slot : formOf[t] = a THEN Free ELSE heap[a]]
  /\ formOf' = [t \in Threads |-> NoAddr]
  /\ todo' = {}
  /\ ackPipe' = 0 /\ acks' = 0 /\ fired' = FALSE
  /\ fds' = n - closes /\ closes' = 0
  /\ UNCHANGED <<alive, handlers, round>>

(* ListThreads, which returns no thread if /proc/self/task cannot be read, *)
(* and the pipe.                                                           *)
Start ==
  /\ cpc = "idle" /\ CollectorRuns /\ round < MaxRounds
  /\ round' = round + 1
  /\ todo' \in {alive, {}}
  /\ cpc' = "signal"
  /\ result' = NoResult
  /\ fds' = fds + 2 /\ closes' = 2
  /\ truth' = [t \in Threads |-> NoTrace]
  /\ forsaken' = (Outstanding # {})
  /\ UNCHANGED <<alive, formOf, heap, handlers, counting, unset>>

StartNoPipe ==
  /\ cpc = "idle" /\ CollectorRuns
  /\ result' = [NoResult EXCEPT !.status = "failed", !.error = TRUE]
  /\ ForgetHistory
  /\ UNCHANGED <<alive, cpc, todo, formOf, heap, handlers, counting, round, files>>

(* The loop over init_tids, a std::set: by ascending tid. *)
IsNext(t) == t \in todo /\ \A u \in todo : t <= u

(* A new form, and SignalThread succeeds: the form goes into slot. *)
Signal(t, a) ==
  /\ cpc = "signal" /\ CollectorRuns
  /\ IsNext(t) /\ t \in alive /\ heap[a] = Free
  /\ heap' = [heap EXCEPT ![a] = [tid |-> t, trace |-> <<>>]]
  /\ formOf' = [formOf EXCEPT ![t] = a]
  /\ sigs' = [sigs EXCEPT ![t] = Append(@, a)]
  /\ todo' = todo \ {t}
  /\ UNCHANGED <<alive, cpc, at, rest, counting, result, round, files, history>>

(* SignalThread fails, because the thread is gone or its signal queue is   *)
(* full: the tid goes into failed_tids and the form is freed.              *)
SignalFails(t) ==
  /\ cpc = "signal" /\ CollectorRuns
  /\ IsNext(t)
  /\ todo' = todo \ {t}
  /\ UNCHANGED <<alive, cpc, formOf, heap, handlers, counting, result, round, files, history>>

ArmTimerNoClose ==                 \* mutant: no DEFER for the timer
  /\ cpc = "signal" /\ CollectorRuns /\ todo = {}
  /\ cpc' = "ack"
  /\ fds' = fds + 1
  /\ UNCHANGED <<alive, todo, formOf, heap, handlers, counting, result, round, closes, unset, history>>

(* timerfd_create and timerfd_settime. *)
ArmTimer ==
  /\ cpc = "signal" /\ CollectorRuns /\ todo = {}
  /\ cpc' = "ack"
  /\ fds' = fds + 1 /\ closes' = closes + 1
  /\ UNCHANGED <<alive, todo, formOf, heap, handlers, counting, result, round, unset, history>>

CreateFails ==
  /\ cpc = "signal" /\ CollectorRuns /\ todo = {}
  /\ Return("failed", {}, TRUE, fds)
  /\ UNCHANGED unset

(* The DEFER that closes the timer has not been declared yet. *)
SettimeFails ==
  /\ cpc = "signal" /\ CollectorRuns /\ todo = {}
  /\ Return("failed", {}, TRUE, fds + 1)
  /\ unset' = unset + 1

(* Five seconds pass. *)
TimerFires ==
  /\ cpc = "ack" /\ ~fired
  /\ fired' = TRUE
  /\ UNCHANGED <<alive, cpc, todo, formOf, heap, handlers, ackPipe, acks, result, round, files, history>>

(* The loop on select: the timer is looked at before the pipe. *)
ReadAck ==
  /\ cpc = "ack" /\ acks < Cardinality(tids) /\ ~fired /\ ackPipe > 0
  /\ ackPipe' = ackPipe - 1
  /\ acks' = acks + 1
  /\ UNCHANGED <<alive, cpc, todo, formOf, heap, handlers, fired, result, round, files, history>>

TimeOutNever ==                    \* mutant: no timer in read_fds
  /\ FALSE
  /\ Return("failed", {}, TRUE, fds)
  /\ UNCHANGED unset

TimeOut ==
  /\ cpc = "ack" /\ acks < Cardinality(tids) /\ fired
  /\ Return("failed", {}, TRUE, fds)
  /\ UNCHANGED unset

FinishEarly ==                     \* mutant: one ack too few
  /\ cpc = "ack" /\ acks + 1 >= Cardinality(tids)
  /\ Return("ok", Groups(slotForms), FALSE, fds)
  /\ UNCHANGED unset

(* All acks are there: group the traces. *)
Finish ==
  /\ cpc = "ack" /\ acks >= Cardinality(tids)
  /\ Return("ok", Groups(slotForms), FALSE, fds)
  /\ UNCHANGED unset

-----------------------------------------------------------------------------
(* InternalHandler starts: the thread's stack is s. *)
HandlerStarts(t, s) ==
  /\ t \in alive /\ at[t] = NoAddr /\ sigs[t] # <<>>
  /\ at' = [at EXCEPT ![t] = Head(sigs[t])]
  /\ sigs' = [sigs EXCEPT ![t] = Tail(@)]
  /\ rest' = [rest EXCEPT ![t] = s]
  /\ truth' = IF formOf[t] = Head(sigs[t])
              THEN [truth EXCEPT ![t] = Truncate(s)] ELSE truth
  /\ UNCHANGED <<alive, cpc, todo, formOf, heap, counting, result, round, files, forsaken>>

(* unw_getcontext or unw_init_local fails: no ack. *)
HandlerFails(t) ==
  /\ t \in alive /\ at[t] = NoAddr /\ sigs[t] # <<>>
  /\ sigs' = [sigs EXCEPT ![t] = Tail(@)]
  /\ UNCHANGED <<alive, cpc, todo, formOf, heap, at, rest, counting, result, round, files, history>>

FullLate(t) == Len(heap[at[t]].trace) > kMaxDepth     \* mutant: > for >=

(* AddAddress refuses. *)
Full(t) == Len(heap[at[t]].trace) >= kMaxDepth

(* One turn of the unwinding loop; AddAddress writes to what is at the     *)
(* form's address now.                                                     *)
AddAddress(t) ==
  /\ at[t] # NoAddr /\ rest[t] # <<>> /\ ~Full(t)
  /\ rest' = [rest EXCEPT ![t] = Tail(@)]
  /\ heap' = IF heap[at[t]] = Free THEN heap
             ELSE [heap EXCEPT ![at[t]].trace = Append(@, Head(rest[t]))]
  /\ UNCHANGED <<alive, cpc, todo, formOf, sigs, at, counting, result, round, files, history>>

(* The frames are used up or AddAddress refuses: Submit writes the ack, to *)
(* ack_fd_ as read from that address.  In a form that is freed both depth  *)
(* and ack_fd_ are overwritten, and the write goes elsewhere or fails.     *)
Submit(t) ==
  /\ at[t] # NoAddr
  /\ rest[t] = <<>> \/ Full(t) \/ heap[at[t]] = Free
  /\ at' = [at EXCEPT ![t] = NoAddr]
  /\ rest' = [rest EXCEPT ![t] = <<>>]
  /\ ackPipe' = IF heap[at[t]] = Free THEN ackPipe ELSE ackPipe + 1
  /\ UNCHANGED <<alive, cpc, todo, formOf, heap, sigs, acks, fired, result, round, files, history>>

(* A thread ends, not in the middle of its handler. *)
Die(t) ==
  /\ t \in alive \ {Self} /\ at[t] = NoAddr
  /\ alive' = alive \ {t}
  /\ sigs' = [sigs EXCEPT ![t] = <<>>]
  /\ UNCHANGED <<cpc, todo, formOf, heap, at, rest, counting, result, round, files, history>>

CollectorStep ==
  \/ \E t \in Threads : SignalFails(t) \/ \E a \in Addrs : Signal(t, a)
  \/ CreateFails \/ TimerFires \/ ReadAck \/ TimeOut \/ Finish

OpensTimer == ArmTimer \/ SettimeFails

HandlerStep(t) ==
  \/ \E s \in Stacks[t] : HandlerStarts(t, s)
  \/ HandlerFails(t) \/ AddAddress(t) \/ Submit(t)

Next ==
  \/ Start \/ StartNoPipe
  \/ CollectorStep \/ OpensTimer
  \/ \E t \in Threads : HandlerStep(t) \/ Die(t)

Spec == Init /\ [][Next]_vars

-----------------------------------------------------------------------------
(* Every tid of a group has the group's trace as its own stack, cut at     *)
(* kMaxDepth; every thread that answered is in exactly one group, once;    *)
(* no two groups have the same trace; and ToPrettyString lists each of     *)
(* these threads once.                                                     *)
ReportsTruth ==
  LET Places(t) == UNION {{g} \X {i \in DOMAIN g.tids : g.tids[i] = t} : g \in result.groups}
  IN  /\ \A t \in Threads : \A p \in Places(t) : p[1].trace = truth[t]
      /\ \A t \in Threads : truth[t] # NoTrace => Cardinality(Places(t)) = 1
      /\ \A g, h \in result.groups : g.trace = h.trace => g = h
      /\ \A t \in Threads : truth[t] # NoTrace =>
           Cardinality({i \in DOMAIN PrettyTids(result.groups) :
                          PrettyTids(result.groups)[i] = t}) = 1

(* The result of a Collect that succeeds is the truth, if no handler of an *)
(* earlier Collect that gave up was still to run when it started.          *)
ResultsCorrect == result.status = "ok" /\ ~forsaken => ReportsTruth

(* A Collect that succeeds leaves no handler behind that would write to    *)
(* the forms it frees, unless an earlier one did: the acks it counted are  *)
(* those of the threads it signalled.                                      *)
NoHandlerLeft == result.status = "ok" /\ ~forsaken => Outstanding = {}

(* signal_handler.h: Collect "Returns an empty vector on encountering an   *)
(* error, in which case @error is filled": where it returns no stack, it   *)
(* says why (there is always a thread, the one that collects).             *)
ErrorFilled == result.status # "none" /\ result.groups = {} => result.error

(* A Collect that has returned, by whichever of its returns, has closed    *)
(* what it opened, but for one timer for each timerfd_settime that failed. *)
FdsReturned == cpc = "idle" => fds = unset

(* signal_handler.h: Collect "Returns stack traces of all threads": with  *)
(* late handlers or without, a thread that answered a Collect that         *)
(* succeeds is reported with the stack it answered.                        *)
ResultsAlwaysCorrect ==
  result.status = "ok" =>
    \A t \in Threads : truth[t] # NoTrace =>
      \E g \in result.groups : g.trace = truth[t] /\ \E i \in 1 .. Len(g.tids) : g.tids[i] = t
=============================================================================

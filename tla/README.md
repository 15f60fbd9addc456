# Verification of the jvm tracing tools

TLA+ models of the concurrent parts of this repository, the TLC runs that check
them on small instances, and TLAPS proofs of what holds for any number of
threads. Source paths below are relative to the repository root.

## 1. Inventory

| Part | Code | State | Operations | What makes it hard |
|---|---|---|---|---|
| queue | `src/zqueue.h` | `que_`, `mutex_`, `cv_` | `push`, `pop`, `try_pop`, `count`, `clear` | notify after unlock, timeout against push, spurious wakeups |
| channel | `src/ts/common/unbuffered_channel.h`, `channel.h` | the two zone flags, `item_`, `closed_`, three condition variables | `Write`, `Read`, `Close` | barging, a timeout that meets a reader, `Close` during a handshake |
| trace agent | `src/trace_agent.h`, `src/main.cpp` | `_queue`, `stop_`, three threads | loading, `vm_init`, `gc_start`, `gc_finish`, `worker`, `safepoint_worker`, `safepoint_notify`, unloading | threads in `pending()` keep the JVM from the safepoint a trace needs |
| mem_fuller | `src/trace_util.h` | `queue_`, `c_mutex_`, `cond_`, `self_` | `pending`, `notify`, `instance` | a condition wait without a predicate; an instance created without a lock |
| stack trace collector | `src/ts/signal_handler.cc`, `sysutil.cc` | forms, ack pipe, timer | `Collect`, `InternalHandler`, grouping | handlers that run after `Collect` has given up; threads that die |
| stack trace service | `src/ts/signal_handler.cc`, `defer.h` | service pipe, ack descriptors | install, `ExternalHandler`, `RequestProcessor` | a full pipe, a fork, no descriptors, order of the DEFERs |
| malloc hook | `src/hook.cpp`, `src/mem_checker.cpp` | `mem_`, `map_`, `in_mem` | `malloc`, `free`, `add`, `del` | a lock that locks a copy, calls that are not hooked |
| counter parser | `src/hsperfdata_parser.h` | the file, its copy | `parse` | the JVM writes while the file is copied |
| earlier agent | `src/__trace_agent.h` | `gc_count`, the raw monitor | `gc_start`, `worker` | a stack trace taken with the monitor held |
| mmap shim | `src/mm.cpp` | `r_mmap`, `r_munmap` | `mmap`, `munmap`, `init_map` | two pointers stored one after the other, without a lock |
| symbol tool | `src/tt.cpp` | ELF tables and registers of another process | attach, symbol search, call, detach | globals left by the previous library; waits on a status nobody wrote |
| others | `agent.cpp`, `src/trace.h`, `src/jvm_inner.h`, `src/trace_backtrace.h`, `src/__hook.cpp__*`, `types.h` | none, or not compiled | | |

How they interact: the agent uses three `zqueue`s and one `mem_fuller`; the
service thread runs the collector, once per request; the hook wraps every
allocation of the process it is loaded in, the shim every mapping; the parser
and the symbol tool are programs of their own.
The channel comes with the service's library and is not used by the agent.

What should be true: a queue or channel loses, repeats and invents nothing and
leaves no thread asleep with work to do; every collection and every full heap
leads to a stack trace; a stack trace reports what the threads answered; every
request is served and no descriptor is lost; the byte counter is the memory in
use; nobody waits for ever. `PROJECT.json` lists, at its line, each way in which
one of these could fail ("hazards").

## 2. Modules

| Module | Models | Correspondence |
|---|---|---|
| `ZQueue` | the queue | A critical section is one step. `Push` and `NotifyOne` are the two halves of `push`, with the unlock between them. A consumer sleeps (`waiting`), leaves `cv_` (`woken`) and only then gets the mutex. `late` is the clock of `wait_for`, read after the mutex is back. `front()` of an empty `std::queue` gives `Garbage`. |
| `FifoQueue` | what the queue promises | `Put`, `Get`, `Flush` on a history and the number of items gone; a call that finds it empty is `blocked` (`Block`), and a blocked `try_pop` may return without an item (`GiveUp`). |
| `UnbufferedChannel` | the channel | One action per way through each critical section; the FATAL logs set `crashed`. `item_` is the writer whose argument it points to, `Dangling` once that `Write` has returned. `expired` counts the deadlines that passed during a `Write`. |
| `Rendezvous` | what the channel promises | a `Transfer` joins one offer and one reader; a write reports `written` exactly if there was one. |
| `TraceAgent` | agent and `mem_fuller` | A queue is the number of its elements, since nobody reads the values; `try_pop` does what `ZQueue` shows it does, a false return with an element queued included. `instance()` tests and stores `self_` in two steps and returns its own object or what it reads again; an object is named after the thread that created it. `safepoint_notify` signals the object it got from `instance()` (`notifyOn`), which may be `self_` no longer. An exception that leaves `safepoint_worker`, or a `std::thread` that cannot be started, sets `terminated`. `locked` is `c_mutex_` held between steps, which only `notify(true)` does. |
| `StackTraceCollector` | `Collect` and the handlers | Forms live at addresses that are reused; `sigs` are signals sent and not handled, `at` the form a handler writes to. A handler writes one address per step. `fds` counts the descriptors `Collect` has open, `closes` those its DEFERs will close. |
| `StackGrouping` | the grouping of equal stacks | The comparator, the map it orders and the list of tids printed. Pure operators; the two loops are recursive functions of the number of turns. |
| `StackTraceService` | the service | `sending` is the descriptor a handler is about to write, `defers` the DEFER stack of the request in work, `server` the service's pipe (`broken` if `pipe2` failed and its ends are uninitialised). |
| `StackTraceSystem` | service and collector together | The service thread reads a request, runs the whole of `Collect`, and then the DEFERs of the request. A thread may be in both handlers, the external one on top (`above`); only the top one runs. `CanOpen` is the limit of descriptors they share. |
| `MemChecker` | hook and counter | `mem_` is loaded and stored in two steps; no lock, since none ever waits. A sum of sizes (`Bytes`) is the number of the bytes. |
| `HsperfParser` | `parse` | The copy is made entry by entry, the prologue first. Of an entry being stored (`torn`) the copy may show any fields; its `entry_length_` may be its own, zero (the next round reads the same entry) or another value, and then `pos` is at no entry (`Astray`): whatever is there is taken for one, printed, refused or read out of the buffer. |
| `LegacyAgent` | the earlier agent | `gc_start` is one step, `worker` holds the monitor (`lock`) across its stack trace. |
| `MmapShim` | the mmap shim | `TRACE_INIT`'s test, the two stores of `init_map` and the call are steps of their own; `fault` is the thread that called through NULL. |
| `SymbolTool` | the symbol tool | A library is a record of what the search tells apart: has it a name, a hash table, a `DT_RELENT`, and its symbols. `nchains` and `relsize` keep their values from library to library, as the globals do. `unwaited` records that `stat`, unwritten, let the tool go on before the process had stopped. |
| `MC*` | | instances for TLC. `MCPreload` and `MCTools` each put two modules that share nothing side by side, of which one runs in a behaviour. `MCStackTraceSystem` also checks the grouping against its definition, for all pairs of small stacks, in an `ASSUME` |
| `*Proofs` | | theorems: `AgentProofs` about `TraceAgent`, `HandoffProofs` about the two ways in which a collection is handed to `worker` (`ZQueue`, and the raw monitor of `LegacyAgent`), `PreloadProofs` about the libraries loaded with LD_PRELOAD (`MemChecker`, `MmapShim`), `ToolProofs` about the programs that look at a JVM from outside (`HsperfParser`, `SymbolTool`), `StackTraceSystemProofs` about the service and the composition, the others about the module they are named after |

External, modelled from how the code uses it: the JVM (collections and
`GetAllStackTraces` both need a safepoint and are run one at a time by the VM
thread), condition variables (any sleeper may be picked, spurious wakeups), the
C library's `realloc` and `dlsym`, the kernel's lowest free descriptor, the exit
of a thread, the process the symbol tool traces, and how the JVM adds counters.

## 3. Runs

| Run | Checks | Instance | Distinct states |
|---|---|---|---|
| `zqueue` | `IsFifo`, `QueueIsSuffix`, `NoLostWakeup`, `EveryItemLeaves` | 2 producers, 2 threads in `pop`, 1 in `try_pop`, 2 items, 3 pushes | 52,683 |
| `channel` | `IsRendezvous`, `ZoneConsistent`, `NoLostWakeup`, `EveryWriteReturns` | 2 writers, 2 readers, a closer, 2 values; one writer and one reader with a timeout | 134,992 |
| `agent` | `StackTraceCompletes`, `FullIsNoticed`, `EveryGcTraced`, `WorkerStops`, `NotifierHasQueue` | a collection, 2 threads that call `pending()`, one inside the VM | 151,328 |
| `on_demand` | `FdsAccounted`, `AckAfterFlush`, `FdsReturned`, `ResultsCorrect`, `NoHandlerLeft`, `RequestServed`, `HandlerReturns` | the service thread and one more, 3 ack descriptors, a limit of 6, room for 1 request, 3 requests, 2 collections, depth limit 1 with stacks at and above it | 119,422 |
| `preload` | of libhook: `MemIsLive`, `EntriesAreLive`, `NoUnderflow`; of the shim: `NullCallExplained` | libhook: 1 thread, 2 addresses, 2 sizes, 5 calls, `realloc` and failing `malloc` among them; shim: 3 threads, 2 calls each | 36,830 |
| `tools` | of the parser: `ReportsWhatWasThere`, `NothingElseReported`; of the symbol tool: `SearchExact`, `TargetRestored` | up to 3 entries, any of them there at the start; all lists of up to 3 libraries | 5,127,027 |
| `legacy_agent` | `CountIsCleared` | 5 collections | 389 |

Each also checks the type invariants of its modules. Some properties name the states
the code does not get out of, or answers wrongly in, as exceptions:

- `Hung` (`StackTraceCompletes`, `FullIsNoticed`, `EveryGcTraced`,
  `WorkerStops`): a thread inside the VM is blocked in `pending()` after
  `safepoint_worker` has ended, or on an object that lost the race of
  `instance()` and that `safepoint_notify` is not about to signal;
- `terminated` (same properties): an exception left `vm_init` or
  `safepoint_worker`;
- `forsaken` (`ResultsCorrect`, `NoHandlerLeft`): a collection that begins while
  handlers of one that gave up are still to run;
- `unset` (`FdsReturned`): the timer that `timerfd_settime` failed on is not
  closed;
- `broken` (`FdsAccounted`): `pipe2` failed, and a descriptor sent to whatever
  `server_fd` names is lost;
- `Deadlocked` (`CountIsCleared`): `worker` of the earlier agent, tracing with
  the monitor held, and the VM thread in `gc_start` wait for each other;
- `missed` (`MemIsLive`, `EntriesAreLive`): a call that is not hooked or has
  failed;
- an entry that was not whole when `fread` began, with only readable ones before
  it (`NothingElseReported`): `parse` goes by its `entry_length_`, and what it
  prints from there on is left open;
- a store to come (`NullCallExplained`): `munmap` on one thread while another
  has stored `r_mmap` and not yet `r_munmap`;
- `unwaited` (`TargetRestored`): the symbol tool went on before the process had
  stopped, and its registers could not be put back;
- a library without a hash table (`SearchExact`): it is searched with the number
  of symbols of the library before it, and nothing is claimed of what is found
  there.

Runs in which the code does other than it says (each is a finding in
`PROJECT.json`, with the line it contradicts):

| Run | Property | What happens |
|---|---|---|
| `channel_deadline` | `WithinWaitDuration` | `Write` waits `wait_duration` for the zone and then again for a reader, where `channel.h` promises one; the value is taken late and success reported |
| `collect_empty` | `ErrorFilled` | no thread can be listed, and `Collect` returns nothing and no error |
| `collect_late` | `ResultsAlwaysCorrect` | a handler left from a timed-out collection spoils the next |
| `service_self` | `HandlerReturns` | the service thread blocks in its own handler on the full pipe |
| `hook_race` | `MemIsLive` | the lock locks a copy of the mutex; an update is lost |

For two of them theorems say that nothing worse happens: a `Write` lasts at most
the two deadlines (`DeadlinesCorrect`), and the only empty result without an
error is that of a call that had no thread to ask (`EmptyExplainedCorrect`).

Every property of a passing run has a mutant: a definition changed the way a
bug would change it, under which TLC finds the property violated.

**Bounds.** `MaxPush`, `MaxWrites`, `MaxGc`, `MaxPending`, `MaxRounds`,
`MaxRequests`, `MaxCalls`, `MaxEntered`, `MaxLibs` and `MaxEntries` end
behaviours. They are chosen so that each race has its actors and one more step to show its effect:
two producers, two consumers and one that times out for a stolen wakeup; a
second writer outside the zone while the first is in it; two callers of
`instance()` besides `safepoint_worker`; a second collection for what the first
left behind; more requests than the pipe has room for, and fewer descriptors
than requests and a collection need together; two threads in `init_map` and a
third between them; a library without a hash table between two with one; a
third entry for what follows a gap. Where a bound could hide something, the
theorems of section 4 hold for every value of it.

**Deadlock** is checked for the queue, whose consumers never stop. Elsewhere a
behaviour may end: the bound is reached, the process aborts, the worker ends or
a program returns.

**Fairness.** Weak fairness of each thread inside a call; of clocks, since
`wait_for`, `try_pop` and the timer end by themselves; of consumers and readers
calling again, which is a `for (;;)` in the agent and an assumption on the
user of the channel; of the JVM reaching `VMInit` and ending a collection. In
`on_demand` it is one condition per thread, on whatever that thread has to do
(`ThreadRuns`), so that a thread blocked in the handler on top makes no progress
below it. No fairness for pushes, writes, collections, requests, signals
arriving, spurious wakeups or failures.

## 4. Proofs

TLAPS proves the following for every number of threads, items, requests and
collections. An invariant is seldom preserved by steps from states that satisfy
only it; the inductive invariant adds what the program counters imply.

| Module | Proved | Inductive invariant, and why |
|---|---|---|
| `HandoffProofs` | of the queue: types, `QueueIsSuffix`, `NoLostWakeup`; `ZQueue` implements `FifoQueue`. Of the earlier agent: types, and that after `Deadlocked` it takes no step at all | `QueueIsSuffix` with the types: `que_` is what is left of the history, so a pop is `Get`, a call that goes to sleep has found it empty (`Block`), and one that returns false has slept and is a `try_pop` (`GiveUp`). For the wakeup, that a thread in `pop` has no deadline: only a thread that is going to look at the queue again can use a notification up. For the earlier agent `LegacyInv`: the collections counted and traced are no more than those that passed `gc_start`. |
| `UnbufferedChannelProofs` | types, `ZoneConsistent`, `NoLostWakeup`; at most two deadlines (`DeadlinesCorrect`); the channel implements `Rendezvous` | `ChannelInv`: these together with what the deadline count is at each place of a `Write`. A reader's step is `Transfer` because `item_` points to the writer in the zone, which `ZoneConsistent` says. |
| `StackGroupingProofs` | `GroupsCorrect`: for any list of forms, each tid is in one group, once, under its trace; `ListedOnce`: `ToPrettyString` lists each tid once | `Grouped`, what the map holds after so many turns of the loop. The comparator is shown to be a strict order whose ties are equal traces, so a group found is the group of the same trace. |
| `StackTraceCollectorProofs` | types, `FdsReturned`, `NoHandlerLeft`, `ResultsCorrect`, `EmptyExplainedCorrect`; `ResultsAlwaysCorrect` under a hypothesis | `CollectorInv`. What `Collect` has open at each step is what its DEFERs will close. Unless a collection was forsaken, the acks, read or in the pipe, are never more than the threads that have answered, so a call that has all of them leaves no handler behind; and (`Truthful`) a thread that has answered has in its own form, which no other thread writes to, the first `kMaxDepth` addresses of the stack its handler saw. When the last ack is read every form is such an answer, and `GroupsCorrect` says what becomes of them. `AlwaysCorrectIfNoneLate` is the converse of `collect_late`: if no call gives up with handlers outstanding, every result is right and no handler writes to another thread's or to freed memory. |
| `StackTraceSystemProofs` | types, `FdsAccounted` and `AckAfterFlush` of the service; the composition implements the service and the collector; what the runs check of the two holds of it | `ServiceInv`: types, which DEFERs are on the stack at each step of a request, and that each ack descriptor has one holder. Each step of the composition is a step of one of the two, of both, or of neither. It instances the collector with its theorems, so these carry over as they stand; `CollectorConstants` discharges what they assume of the constants. |
| `AgentProofs` | types, `NotifierHasQueue`, `CollectionsCounted`; the count that stands for `_queue` implements `FifoQueue`, and `worker` may do on it exactly what `FifoQueue` allows (`PopIsFifo`); `Hung` is never left; one object is enough for `pending()` (`OneInstance`) | `AgentInv`: each collection is queued, being traced or traced; `safepoint_notify` and `qq` belong to the last turn of `safepoint_worker`, which pushes once; a `queue_` holds no more than the pushes of all threads, which are a finite set of pairs of a thread and a number; `c_mutex_` is never left locked. `ObjectsNew`: the object a thread is about to store in `self_` is new to everybody else, so a thread waiting on one that is no longer `self_`, nor in the hands of `safepoint_notify`, has nobody to notify it. |
| `PreloadProofs` | of libhook, for any threads and without any lock: types and `EntriesAreLive`; for any threads that exclude each other in `add` and `del`: `NoUnderflow` and `MemIsLive`. Of libmm: types, `NullCallExplained` | `Entries`: until a call is missed `map_` and the blocks in use differ only at an address that some thread is between `malloc` and the insert, or the erase and `__libc_free`, of; an address belongs to one thread at a time there. `LockInv`: `mem_` is ahead of the entries by what the thread inside the lock is adding, and behind by what it takes off, step by step; it is no more than what the calls have asked for. For libmm `ShimInv`: a thread that has been through `init_map` finds both pointers set, and `r_mmap` is set alone only while some thread is between its two stores. |
| `ToolProofs` | types, `ReportsWhatWasThere` and `NothingElseReported` of the parser; types, `TargetRestored` and `SearchExact` of the symbol tool | `ParserInv`: an entry that was whole when `fread` began is the same in the file and in the copy; while the loop has met only such entries it is at entry `i + 1` and has reported what was due up to there (`InStep`); once it has met one that was not whole the report still begins with all that was due (`PastTorn`). `SearchInv`, `RegsKnown`: no library with a hash table that the search has passed defines the symbol; the saved registers are those the process had, and it is stopped when they are put back, unless `unwaited`. |

**Assumptions.** Only what the constants are: disjoint sets of threads, finite
where they are counted, limits that are natural numbers, marker values that are
not data. They are named `ASSUME`s of the modules that declare the constants;
TLC evaluates them in the runs. The collector's are an operator, `Constants`,
which its theorems have as hypothesis and the composition proves.

Some theorems have hypotheses of their own, in their statements.

- `NoUnderflow` and `MemIsLive`: `[]Locked`, at most one thread at a time is
  between the lock and the unlock of `add` and `del`; calls may overlap
  everywhere else. The lock of `mem_checker.cpp` is meant to give that and does
  not, since it locks a copy; without it `MemIsLive` is false, which is what
  `hook_race` shows. A program of one thread satisfies it (`OneThread`), and that
  is the instance of `preload`. The lock would have to be recursive: `erase` frees
  its node inside `del`, through the hooked `free` and a nested `del`, and so
  enters it again. And `Fits(m)`: the sizes asked for, at most `m` each, do not
  add up to `Word`.
- `AlwaysCorrectIfNoneLate`: no `Collect` returns with an error while a handler
  it asked for is to run. The code does not see to that; the theorem says that it
  is all that is missing for `ResultsAlwaysCorrect`.
- `HungForever`: no wait in `pending()` ends spuriously. One that does frees the
  thread, since `cond_` is waited on without a predicate.
- `OneInstance`: `[]OneCreates`, only one thread at a time is between the test of
  `self_` in `instance()` and the store. It is what a lock or a function-local
  static would give; `instance()` has neither.

**Induction over data.** What the loops of `Collect` and `ToPrettyString`
compute for a list of any length is proved from `LeastNat`, that a set of
naturals which is not empty has a least element: a recursive function is shown
to exist, and a property to hold after each turn, by looking at the first turn
where it would not. Sums over threads and addresses are cardinalities of finite
sets, which the library of finite sets is about.

**Only model-checked.** The liveness properties (`EveryItemLeaves`,
`EveryWriteReturns`, `StackTraceCompletes`, `FullIsNoticed`, `EveryGcTraced`,
`WorkerStops`, `RequestServed`, `HandlerReturns`, `CountIsCleared`): the
provers at hand do not reason about fairness.

## 5. Not modelled

- `zqueue::count`, which returns a size nobody decides on; printing, symbol
  names and the values of counters.
- The JVMTI callbacks that only print.
- What a data race does to the tree of `map_`: an operation on it is one step.
- The memory that `parse` does not free when it returns early, the name it prints
  of an entry of an unknown type before it does, and what the JVM writes once
  `fread` is over, which `parse` does not see.
- The nodes of `map_` as blocks of their own: `erase` frees one through the hooked
  `free`, and its address is taken to have no entry.
- The uninitialised end of the pipe that the service reads after `pipe2` failed:
  taken to be no open file.
- `backtrace()` of `signal_handler.cc` in a forked child.
- `find_sym_in_rel`, `get_dyn_info` and `call_dl_open` of `tt.cpp`: never called.
- `agent.cpp`, a demonstration without state of its own; `trace.h`, a fragment
  that does not compile; `__hook.cpp__*`, superseded versions of the hook;
  `jvm_inner.h`, `trace_backtrace.h` and `types.h`, declarations and calls into
  libraries.

## 6. What could come next

- `queue_` and `qq` of the agent over `FifoQueue`, as `_queue` is now.
- An abstract log of requests that the service implements.
- The liveness properties, with a prover for fairness: `NoLostWakeup`,
  `CollectionsCounted` and `HungForever` are the safety half of them.

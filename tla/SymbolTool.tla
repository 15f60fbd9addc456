----------------------------- MODULE SymbolTool -----------------------------
(***************************************************************************)
(* src/tt.cpp: a tool that attaches to a process, walks its list of shared *)
(* libraries for the symbol mtrace, makes the process call it, puts its    *)
(* registers back and lets it go.                                          *)
(*                                                                         *)
(* What get_sym_info reads of a library stays in global variables: nchains *)
(* and relsize keep the values of the library before if a library has no   *)
(* such entry.  Two loops of ptrace_cont and ptrace_call test a status     *)
(* that nobody has written yet: it may look like anything.                 *)
(*                                                                         *)
(* External: the process that is traced.  It is dynamically linked, and it *)
(* may be killed by others, but not while the tool reads its memory.       *)
(***************************************************************************)
EXTENDS Integers, Sequences, FiniteSets, FiniteSetsExt

CONSTANTS
  Libraries,   \* libraries there may be: [named, hash, relent, syms]
  MaxLibs      \* bound: libraries loaded

(* An entry of a symbol table: "undefined" has no name, size or value. *)
Entries == {"mtrace", "other", "undefined"}

ASSUME LibrariesAssumption ==
  Libraries \subseteq [named : BOOLEAN, hash : BOOLEAN, relent : BOOLEAN, syms : Seq(Entries)]
ASSUME MaxLibsAssumption == MaxLibs \in Nat

NotFound == [lib |-> 0, sym |-> 0]

VARIABLES
  libs,        \* the list from get_linkmap
  tool,        \* where the tool is
  lm,          \* the library it searches
  nchains,     \* global: symbols of the table
  relsize,     \* global: is not zero
  sym_addr,    \* what find_symbol returned: library and symbol
  oldregs,     \* global: whose registers are saved
  regs,        \* whose registers the process has: its own, or those of the call
  process,     \* "running", "stopped" or "dead"
  unwaited     \* history: ptrace_cont did not wait for the stop

toolVars == <<libs, tool, lm, nchains, relsize, sym_addr, oldregs, regs, process, unwaited>>

elf == <<libs, lm, nchains, relsize, sym_addr>>

ToolTypeOK ==
  /\ \A i \in DOMAIN libs : libs[i] \in Libraries
  /\ tool \in {"start", "attached", "search", "call", "waitStop", "waitSignal",
               "detach", "done", "failed", "crashed"}
  /\ lm \in 0 .. Len(libs) /\ nchains \in Nat /\ relsize \in BOOLEAN
  /\ sym_addr.lib \in 0 .. Len(libs)
  /\ oldregs \in {"none", "own", "call"} /\ regs \in {"own", "call"}
  /\ process \in {"running", "stopped", "dead"}
  /\ unwaited \in BOOLEAN

ToolInit ==
  /\ \E n \in 1 .. MaxLibs : libs \in [1 .. n -> Libraries]
  /\ tool = "start" /\ lm = 0
  /\ nchains = 0 /\ relsize = FALSE /\ sym_addr = NotFound
  /\ oldregs = "none" /\ regs = "own"
  /\ process = "running" /\ unwaited = FALSE

-----------------------------------------------------------------------------
(* ptrace_attach *)
Attach ==
  /\ tool = "start"
  /\ \/ /\ process = "running"
        /\ tool' = "attached" /\ process' = "stopped" /\ oldregs' = regs
     \/ tool' = "failed" /\ UNCHANGED <<process, oldregs>>
  /\ UNCHANGED <<elf, regs, unwaited>>

(* get_linkmap: the first library, which is the program itself. *)
GetLinkmap ==
  /\ tool = "attached"
  /\ tool' = "search" /\ lm' = 1
  /\ UNCHANGED <<libs, nchains, relsize, sym_addr, oldregs, regs, process, unwaited>>

ChainsOfFirst(l) ==                \* mutant: DT_HASH is read of the first library only
  IF lm = 1 /\ l.hash THEN Len(l.syms) ELSE nchains

(* get_sym_info: nchains as it is for library l, *)
Chains(l) == IF l.hash THEN Len(l.syms) ELSE nchains

(* and relsize, by which it divides. *)
RelSize(l) == relsize \/ l.relent

(* find_symbol_in_linkmap: the entries it may stop at.  What lies behind   *)
(* the table may look like an entry of this name, or not.                  *)
IsSym(l, i) == i <= Len(l.syms) /\ l.syms[i] = "mtrace"
Stops(l, n) ==
  {i \in 1 .. n : (IsSym(l, i) \/ i > Len(l.syms)) /\ \A j \in 1 .. i - 1 : ~IsSym(l, j)}
MayMiss(l, n) == \A i \in 1 .. n : ~IsSym(l, i)

NextToCurrent(k) == {j \in k + 1 .. Len(libs) + 1 : j = k + 1}  \* mutant: no end of list

(* find_symbol: the libraries that come after k.  From the third on those  *)
(* without a name are passed over.                                         *)
After(k) == {j \in k + 1 .. Len(libs) : j = 2 \/ libs[j].named}

(* One turn of find_symbol. *)
SearchLibrary ==
  LET l == libs[lm]
      n == Chains(l)
  IN  /\ tool = "search" /\ RelSize(l)
      /\ nchains' = n /\ relsize' = TRUE
      /\ \/ \E i \in Stops(l, n) :
              /\ sym_addr' = [lib |-> lm, sym |-> i]
              /\ tool' = "call" /\ UNCHANGED lm
         \/ /\ MayMiss(l, n)
            /\ IF After(lm) = {} THEN tool' = "call" /\ UNCHANGED lm
               ELSE lm' = Min(After(lm)) /\ UNCHANGED tool
            /\ UNCHANGED sym_addr
      /\ UNCHANGED <<libs, oldregs, regs, process, unwaited>>

(* totalrelsize / relsize, no library so far having had a relsize. *)
DivideByZero ==
  /\ tool = "search" /\ ~RelSize(libs[lm])
  /\ tool' = "crashed"
  /\ process' = "running"
  /\ UNCHANGED <<elf, oldregs, regs, unwaited>>

CallSavesAgain ==                  \* mutant: with the line of ptrace_call that is commented out
  /\ tool = "call"
  /\ IF process = "dead" THEN tool' = "failed" /\ UNCHANGED <<regs, oldregs, process, unwaited>>
     ELSE /\ regs' = "call" /\ oldregs' = "call" /\ process' = "running"
          /\ \/ tool' = "waitStop" /\ UNCHANGED unwaited
             \/ tool' \in {"waitSignal", "detach"} /\ unwaited' = TRUE
  /\ UNCHANGED elf

(* call_mtrace, whether or not the symbol was found: ptrace_push and the   *)
(* new eip, then ptrace_cont, which waits if stat does not look like a     *)
(* stop already.                                                           *)
Call ==
  /\ tool = "call"
  /\ IF process = "dead" THEN tool' = "failed" /\ UNCHANGED <<regs, process, unwaited>>
     ELSE /\ regs' = "call" /\ process' = "running"
          /\ \/ tool' = "waitStop" /\ UNCHANGED unwaited
             \/ tool' \in {"waitSignal", "detach"} /\ unwaited' = TRUE
  /\ UNCHANGED <<elf, oldregs>>

(* ptrace_cont: waitpid reports the stop.  The loop of ptrace_call is left *)
(* at once if its stat looks like a death by a signal.                     *)
Stopped ==
  /\ tool = "waitStop" /\ process = "stopped"
  /\ tool' \in {"waitSignal", "detach"}
  /\ UNCHANGED <<elf, oldregs, regs, process, unwaited>>

(* ptrace_call: waitpid reports that the process was killed. *)
Signalled ==
  /\ tool = "waitSignal" /\ process = "dead"
  /\ tool' = "detach"
  /\ UNCHANGED <<elf, oldregs, regs, process, unwaited>>

(* ptrace_detach: both requests need a process that is stopped.  A tool    *)
(* that exits lets go of the process as it is.                             *)
Detach ==
  /\ tool = "detach"
  /\ IF process = "stopped"
     THEN regs' = oldregs /\ process' = "running" /\ tool' = "done"
     ELSE tool' = "failed" /\ UNCHANGED <<regs, process>>
  /\ UNCHANGED <<elf, oldregs, unwaited>>

-----------------------------------------------------------------------------
Traced == tool \notin {"start", "done", "failed", "crashed"}

(* The call ends at an address that is not there, or where sym_addr is     *)
(* nonsense it begins so: a signal, which stops a traced process and kills *)
(* another.                                                                *)
CallEnds ==
  /\ process = "running" /\ regs = "call"
  /\ process' = IF Traced THEN "stopped" ELSE "dead"
  /\ UNCHANGED <<elf, tool, oldregs, regs, unwaited>>

Killed ==
  /\ process # "dead" /\ tool \notin {"attached", "search"}
  /\ process' = "dead"
  /\ UNCHANGED <<elf, tool, oldregs, regs, unwaited>>

ToolNext ==
  \/ Attach \/ GetLinkmap \/ SearchLibrary \/ DivideByZero
  \/ Call \/ Stopped \/ Signalled \/ Detach
  \/ CallEnds \/ Killed

ToolSpec == ToolInit /\ [][ToolNext]_toolVars

-----------------------------------------------------------------------------
Visited(j) == j \in {1, 2} \/ libs[j].named
Defines(l) == \E i \in DOMAIN l.syms : l.syms[i] = "mtrace"

(* A library with a hash table is searched by its own, whatever libraries  *)
(* without one leave in nchains: find_symbol returns the first definition  *)
(* in such a library, unless one without stopped it before, and returns 0  *)
(* only if none of those it visits has one.                                *)
SearchExact ==
  tool \in {"call", "waitStop", "waitSignal", "detach", "done"} =>
    LET exact == {j \in DOMAIN libs : Visited(j) /\ libs[j].hash /\ Defines(libs[j])}
        k == sym_addr.lib
    IN  /\ k = 0 => exact = {}
        /\ \A j \in exact : k <= j
        /\ k # 0 /\ libs[k].hash =>
             sym_addr.sym = Min({i \in DOMAIN libs[k].syms : libs[k].syms[i] = "mtrace"})

(* A process the tool has let go of goes on with its own registers: after  *)
(* a normal end always, and after any other unless the tool did not wait   *)
(* for the stop because the status it had not written looked like one.     *)
TargetRestored ==
  ~Traced /\ process # "dead" => regs = "own" \/ (unwaited /\ tool = "failed")
=============================================================================

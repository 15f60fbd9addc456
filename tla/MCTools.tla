------------------------------ MODULE MCTools -------------------------------
(***************************************************************************)
(* Small instances for TLC of the two programs that look into a JVM from   *)
(* outside.  They share no state: one of them runs while the other has     *)
(* already ended, the parser because fopen failed, the symbol tool because *)
(* its process was dead.                                                   *)
(***************************************************************************)
EXTENDS HsperfParser, SymbolTool

(* Tables of one to three entries, so that a stale nchains may be too      *)
(* small or too large.                                                     *)
MCLibraries ==
  [named : BOOLEAN, hash : BOOLEAN, relent : BOOLEAN,
   syms : {<<"other">>, <<"undefined", "mtrace">>, <<"other", "undefined", "other">>}]

ParserEnded ==
  /\ file = <<>> /\ pc = "done" /\ num = 0 /\ buf = <<>> /\ i = 0 /\ pos = 1
  /\ reported = <<>> /\ atOpen = <<>>

ToolEnded ==
  /\ libs = <<[named |-> TRUE, hash |-> TRUE, relent |-> TRUE, syms |-> <<"other">>]>>
  /\ tool = "failed" /\ lm = 0
  /\ nchains = 0 /\ relsize = FALSE /\ sym_addr = NotFound
  /\ oldregs = "none" /\ regs = "own"
  /\ process = "dead" /\ unwaited = FALSE

ToolsInit == (Init /\ ToolEnded) \/ (ParserEnded /\ ToolInit)

ToolsNext == (Next /\ UNCHANGED toolVars) \/ (ToolNext /\ UNCHANGED vars)

ToolsSpec == ToolsInit /\ [][ToolsNext]_<<vars, toolVars>>
=============================================================================

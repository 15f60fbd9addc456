----------------------------- MODULE MCPreload ------------------------------
(***************************************************************************)
(* Small instances for TLC of the two libraries loaded with LD_PRELOAD.    *)
(* libhook and libmm share no state: in a behaviour the program calls one  *)
(* of them, and the other stays as it was loaded.                          *)
(***************************************************************************)
EXTENDS MemChecker, MmapShim

PreloadInit == Init /\ ShimInit

PreloadNext ==
  \/ Next /\ ShimInit /\ UNCHANGED shim
  \/ ShimNext /\ Init /\ UNCHANGED vars

PreloadSpec == PreloadInit /\ [][PreloadNext]_<<vars, shim>>
=============================================================================

--------------------------- MODULE MCLegacyAgent ---------------------------
(* Small instances of LegacyAgent for TLC. *)
EXTENDS LegacyAgent
=============================================================================

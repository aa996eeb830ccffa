----------------------------- MODULE MCPowerHal -----------------------------
(* An instance of PowerHal for TLC. *)
EXTENDS PowerHal
=============================================================================

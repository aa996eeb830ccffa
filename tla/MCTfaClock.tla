----------------------------- MODULE MCTfaClock -----------------------------
(* Small instances of TfaClock. *)
EXTENDS TfaClock

AllOutcomes == {"ready", "busy", "error"}
ZeroMemory  == {FALSE}
=============================================================================

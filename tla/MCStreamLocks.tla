--------------------------- MODULE MCStreamLocks ---------------------------
(* Small instances of StreamLocks. *)
EXTENDS StreamLocks
=============================================================================

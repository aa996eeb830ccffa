--------------------------- MODULE MCOffloadStream ---------------------------
(* Small instances of OffloadStream. *)
EXTENDS OffloadStream
=============================================================================

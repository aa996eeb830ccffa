-------------------------- MODULE MCRilClient --------------------------
(* Small instances of RilClient. *)
EXTENDS RilClient
=============================================================================

----------------------------- MODULE MCCapture -----------------------------
(* Small instances of Capture. *)
EXTENDS Capture

(* An echo canceller that works with the second microphone of a mono input *)
(* and a noise suppressor that works with no auxiliary channel.            *)
MCSupports == [AEC |-> {"BACK"}, NS |-> {}]
=============================================================================

----------------------------- MODULE ActiveInput -----------------------------
(***************************************************************************)
(* What lock_inputs of the audio HAL promises about the one active input:  *)
(* once an output operation has chosen it for a reset, nothing happens to  *)
(* the input until that reset is done.                                     *)
(***************************************************************************)
CONSTANT Outs          \* the output streams

VARIABLES
    running,           \* an input stream is the active one
    chosen             \* the outputs whose operation will reset it
vars == <<running, chosen>>

Init == running = FALSE /\ chosen = {}

Start == /\ ~running /\ chosen = {}
         /\ running' = TRUE /\ UNCHANGED chosen

Stop == /\ running /\ chosen = {}
        /\ running' = FALSE /\ UNCHANGED chosen

Choose(o) == /\ running /\ chosen = {}
             /\ chosen' = {o} /\ UNCHANGED running

Reset(o) == /\ chosen = {o}
            /\ chosen' = {} /\ running' = FALSE

Next == Start \/ Stop \/ \E o \in Outs : Choose(o) \/ Reset(o)

Spec == Init /\ [][Next]_vars
=============================================================================

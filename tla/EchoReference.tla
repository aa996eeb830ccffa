--------------------------- MODULE EchoReference ---------------------------
(***************************************************************************)
(* The echo reference (audio_hw.c): a buffer of what is being played, made *)
(* when a capture with echo cancelling starts, shared by that capture and  *)
(* by the outputs, and freed by whichever side notices last.               *)
(*                                                                         *)
(* The capture side gives it back under adev->lock and counts a            *)
(* generation; a playback thread compares generations without that lock.   *)
(***************************************************************************)
EXTENDS Naturals

CONSTANTS
    Outputs,       \* PCM outputs that may play
    Primary,       \* adev->primary_output
    LowLatency,    \* the outputs of usecase USECASE_AUDIO_PLAYBACK
    MaxGeneration  \* bound on generations, so on references ever made

VARIABLES
    generation,  \* adev->echo_reference_generation
    current,     \* adev->echo_reference
    alive,       \* the references created and not released
    input,       \* standby, enable_aec and echo_reference of the input
    out          \* standby, generation and reference of each output, and
                 \* where its thread is in out_write
vars == <<generation, current, alive, input, out>>

(* A reference is named by the generation it was made in. *)
None == 0

(* The reference variables as one value, for the functions below. *)
Refs == [generation |-> generation, current |-> current, alive |-> alive]
Becomes(r) == generation' = r.generation /\ current' = r.current /\ alive' = r.alive

Release(r, ref) == [r EXCEPT !.alive = @ \ {ref}]

(* MUTANT: released whatever the output holds. *)
put_echo_reference_Always(r, ref) ==
    IF r.current = None \/ ref # r.current THEN r
    ELSE Release([r EXCEPT !.current = None, !.generation = @ + 1], ref)

(* MUTANT: left to the output although that has not picked it up. *)
put_echo_reference_LeavesIt(r, ref) ==
    IF r.current = None \/ ref # r.current THEN r
    ELSE LET gone == [r EXCEPT !.current = None, !.generation = @ + 1]
         IN  IF Primary \in LowLatency /\ ~out[Primary].standby THEN gone ELSE Release(gone, ref)

(* A primary output that writes to the reference releases it itself. *)
put_echo_reference(r, ref) ==
    IF r.current = None \/ ref # r.current THEN r
    ELSE LET gone == [r EXCEPT !.current = None, !.generation = @ + 1]
             kept == /\ Primary \in LowLatency
                     /\ out[Primary].generation = r.generation /\ ~out[Primary].standby
         IN  IF kept THEN gone ELSE Release(gone, ref)

(* made says whether create_echo_reference succeeds. *)
get_echo_reference(r, made) ==
    LET old == put_echo_reference(r, r.current)
    IN  IF Primary \in LowLatency /\ ~out[Primary].standby /\ made
        THEN LET g == old.generation + 1
             IN  [generation |-> g, current |-> g, alive |-> old.alive \union {g}]
        ELSE old

-----------------------------------------------------------------------------
(* The capture side: every operation runs under in->lock and adev->lock.   *)

(* start_input_stream.  A PCM that does not open leaves the input in       *)
(* standby and its reference where it is.                                  *)
InStart(opens) ==
    /\ input.standby /\ generation + 2 <= MaxGeneration
    /\ \E made \in BOOLEAN :
          LET got == input.aec /\ input.ref = None
              r   == IF got THEN get_echo_reference(Refs, made) ELSE Refs
          IN  /\ Becomes(r)
              /\ input' = [input EXCEPT !.ref = IF got THEN r.current ELSE @, !.standby = ~opens]
    /\ UNCHANGED out

do_in_standby_l(aec) ==
    /\ Becomes(IF input.standby THEN Refs ELSE put_echo_reference(Refs, input.ref))
    /\ input' = [standby |-> TRUE, aec |-> aec, ref |-> IF input.standby THEN input.ref ELSE None]
    /\ UNCHANGED out

(* in_standby, and the reset by an output that starts or is rerouted. *)
InStandby == ~input.standby /\ do_in_standby_l(input.aec)

(* add_remove_audio_effect, of an echo canceller. *)
AecEffect == \E enable \in BOOLEAN : do_in_standby_l(enable)

(* adev_close_input_stream, and another input is opened. *)
InClose ==
    /\ Becomes(IF input.standby THEN Refs ELSE put_echo_reference(Refs, input.ref))
    /\ input' = [standby |-> TRUE, aec |-> FALSE, ref |-> None]
    /\ UNCHANGED out

-----------------------------------------------------------------------------
(* The playback side.  From OutWrite to OutFeed the thread holds out->lock.*)

(* start_output_stream under adev->lock. *)
OutStart(o) ==
    /\ out[o].standby
    /\ out' = [out EXCEPT ![o] = [standby |-> FALSE, generation |-> generation, ref |-> current,
                                  at |-> "out"]]
    /\ UNCHANGED <<generation, current, alive, input>>

OutWrite(o) ==
    /\ ~out[o].standby /\ out[o].at = "out"
    /\ out' = [out EXCEPT ![o].at = IF generation # out[o].generation THEN "update" ELSE "feed"]
    /\ UNCHANGED <<generation, current, alive, input>>

OutUpdate(o) ==
    /\ out[o].at = "update"
    /\ Becomes(Release(Refs, out[o].ref))
    /\ out' = [out EXCEPT ![o].generation = generation, ![o].ref = current, ![o].at = "feed"]
    /\ UNCHANGED input

(* Writes to the reference, if there is one, and to the PCM. *)
OutFeed(o) ==
    /\ out[o].at = "feed"
    /\ out' = [out EXCEPT ![o].at = "out"]
    /\ UNCHANGED <<generation, current, alive, input>>

(* do_out_standby_l under out->lock and adev->lock. *)
OutStandby(o) ==
    /\ ~out[o].standby /\ out[o].at = "out"
    /\ LET left == out[o].ref # None /\ out[o].generation # generation
       IN  /\ Becomes(IF left THEN Release(Refs, out[o].ref) ELSE Refs)
           /\ out' = [out EXCEPT ![o] =
                 [standby |-> TRUE, generation |-> IF left THEN generation ELSE out[o].generation,
                  ref |-> None, at |-> "out"]]
    /\ UNCHANGED input

Init ==
    /\ generation = 0 /\ current = None /\ alive = {}
    /\ input = [standby |-> TRUE, aec |-> FALSE, ref |-> None]
    /\ out = [o \in Outputs |-> [standby |-> TRUE, generation |-> 0, ref |-> None, at |-> "out"]]

Playback(o) == OutWrite(o) \/ OutUpdate(o) \/ OutFeed(o) \/ OutStandby(o)
Capture == \/ \E opens \in BOOLEAN : InStart(opens)
           \/ InStandby \/ AecEffect \/ InClose
Next == Capture \/ \E o \in Outputs : OutStart(o) \/ Playback(o)
Spec == Init /\ [][Next]_vars

(* A playback thread goes on writing, or its output is put into standby.   *)
FairSpec == Spec /\ \A o \in Outputs : WF_vars(Playback(o))

-----------------------------------------------------------------------------
(* Every variable in its range; the device's reference is never a released one. *)
TypeOK ==
    /\ generation \in 0..MaxGeneration /\ alive \subseteq 1..generation
    /\ current \in alive \union {None}
    /\ input \in [standby : BOOLEAN, aec : BOOLEAN, ref : 0..generation]
    /\ out \in [Outputs -> [standby : BOOLEAN, generation : 0..generation, ref : 0..generation,
                            at : {"out", "update", "feed"}]]

(* A reference that the input or an output still holds, to read or write   *)
(* it or to release it, has not been released, whichever of the two sides  *)
(* starts, stops or fails first (put_echo_reference, out_write).           *)
(* False with a second PCM output that plays: out_write and                *)
(* start_output_stream pick the reference up for every output, while       *)
(* put_echo_reference looks at the primary one only.                       *)
HeldIsAlive ==
    /\ input.ref \in alive \union {None}
    /\ \A o \in Outputs : out[o].ref \in alive \union {None}

(* A reference that the capture side gave up is released by somebody, over *)
(* any number of starts that fail and inputs that close, as long as the    *)
(* playback thread writes or stops (out_write, do_out_standby_l).          *)
LeftIsReleased ==
    \A r \in 1..MaxGeneration : (r \in alive /\ r # current) ~> (r \notin alive)
=============================================================================

------------------------------ MODULE Capture ------------------------------
(***************************************************************************)
(* Capture as audio_hw.c composes it: the stream's effects and buffers     *)
(* (CaptureInput) with the echo reference it shares with the outputs       *)
(* (EchoReference).  Both know the input's standby and enable_aec.         *)
(***************************************************************************)
EXTENDS Naturals

CONSTANTS Outputs, Primary, LowLatency, MaxGeneration,
          Mains, Resampled, Supports, Frames

(* A read asks for frames. *)
ASSUME CaptureAssumption == MaxGeneration \in Nat /\ Frames \in Nat \ {0}

VARIABLES generation, current, alive, input, out, attached, table, channel, buf

echo   == <<generation, current, alive, input, out>>
stream == <<attached, table, channel, buf>>
vars   == <<generation, current, alive, input, out, attached, table, channel, buf>>

Echo   == INSTANCE EchoReference
Stream == INSTANCE CaptureInput WITH standby <- input.standby, aec <- input.aec

-----------------------------------------------------------------------------
start_input_stream(opens) == Echo!InStart(opens) /\ Stream!Start(opens)
do_in_standby_l == Echo!InStandby /\ Stream!Standby

(* Whether an effect stops the input, and what becomes of enable_aec, is   *)
(* for the stream to say.                                                  *)
EchoEffect == UNCHANGED echo \/ Echo!AecEffect
add_audio_effect(e)    == EchoEffect /\ Stream!AddEffect(e)
remove_audio_effect(e) == EchoEffect /\ Stream!RemoveEffect(e)

read_and_process_frames == UNCHANGED echo /\ Stream!Read(input.ref # Echo!None)
in_set_parameters(d)    == UNCHANGED echo /\ Stream!SetDevice(d)
adev_close_input_stream == Echo!InClose /\ Stream!Close

Playback(o) == Echo!Playback(o) /\ UNCHANGED stream
start_output_stream(o) == Echo!OutStart(o) /\ UNCHANGED stream

Init == Echo!Init /\ Stream!Init

Next ==
    \/ \E opens \in BOOLEAN : start_input_stream(opens)
    \/ \E e \in DOMAIN Supports : add_audio_effect(e) \/ remove_audio_effect(e)
    \/ \E d \in {"MIC", "HEADSET"} : in_set_parameters(d)
    \/ do_in_standby_l \/ read_and_process_frames \/ adev_close_input_stream
    \/ \E o \in Outputs : start_output_stream(o) \/ Playback(o)

Spec == Init /\ [][Next]_vars
FairSpec == Spec /\ \A o \in Outputs : WF_vars(Playback(o))

-----------------------------------------------------------------------------
(* Both components' variables in their ranges. *)
TypeOK == Echo!TypeOK /\ Stream!TypeOK

(* The properties of the two components, in the composition. *)
HeldIsAlive        == Echo!HeldIsAlive
LeftIsReleased     == Echo!LeftIsReleased
TableHoldsAttached == Stream!TableHoldsAttached
AuxIsSupported     == Stream!AuxIsSupported
BuffersServe       == Stream!BuffersServe
ProcBufInServes    == Stream!ProcBufInServes
=============================================================================

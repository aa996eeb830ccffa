------------------------------ MODULE MCRouting ------------------------------
(* Instances of Routing for TLC: a voice call over two PCM outputs, and a  *)
(* compressed output beside a PCM output, with the combo device and the    *)
(* Bluetooth headset.                                                      *)
EXTENDS Routing

(* The primary (deep buffer) and the fast output of the audio policy.      *)
PcmStreams     == {"DEEP_BUFFER", "PLAYBACK"}
OffloadStreams == {"DEEP_BUFFER", "OFFLOAD"}

(* The notification route sounds on speaker and headset at once.           *)
CallRoutes  == {{"SPEAKER"}, {"SPEAKER", "WIRED_HEADSET"}}
MixedRoutes == {{"SPEAKER", "WIRED_HEADSET"}, {"SCO"}}

(* The end of a notification on speaker and headset. *)
HeadsetRoutes == {{"SPEAKER", "WIRED_HEADSET"}, {"WIRED_HEADSET"}}

(* No capture profile serves the FM tuner. *)
CallInputs  == {"BUILTIN_MIC", "FM_TUNER"}
MixedInputs == {"WIRED_HEADSET", "FM_TUNER"}
CallSources == {"VOICE_COMMUNICATION", "CAMCORDER"}
TalkSource  == {"VOICE_COMMUNICATION"}
TwoModes    == {"NORMAL", "IN_CALL"}
AllModes    == {"NORMAL", "IN_CALL", "IN_COMMUNICATION"}

BothBands  == {0, 1}
ScoNarrow  == {FALSE}
BothSco    == BOOLEAN

(* A misread source of VOICE_COMMUNICATION yields this microphone. *)
OneMisread == {"SPEAKER_MIC_AEC"}
=============================================================================

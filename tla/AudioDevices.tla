--------------------------- MODULE AudioDevices ---------------------------
(***************************************************************************)
(* The sound devices of the primary audio HAL (audio/audio_hw.h) and the   *)
(* two functions that choose one: get_output_snd_device for playback and   *)
(* get_input_snd_device for capture.  An audio_devices_t bit mask is a set *)
(* of device names; AUDIO_DEVICE_NONE is the empty set.                    *)
(***************************************************************************)
EXTENDS FiniteSets

NONE == "SND_DEVICE_NONE"

-----------------------------------------------------------------------------
(* Playback devices. *)

VoiceOut     == {"VOICE_HEADPHONES", "VOICE_BT_SCO", "VOICE_SPEAKER", "VOICE_EARPIECE"}
VoiceOutWb   == {"VOICE_HEADPHONES_WB", "VOICE_BT_SCO_WB", "VOICE_SPEAKER_WB", "VOICE_EARPIECE_WB"}
MediaOut     == {"EARPIECE", "SPEAKER", "HEADPHONES", "OUT_BT_SCO"}
Combo        == "SPEAKER_AND_HEADPHONES"
OutSndDevice == VoiceOut \union VoiceOutWb \union MediaOut \union {Combo}

(* Capture devices. *)
VoiceIn == {"VOICE_MIC", "VOICE_EARPIECE_MIC", "VOICE_SPEAKER_MIC",
            "VOICE_HEADSET_MIC", "VOICE_BT_SCO_MIC"}
VoiceInWb == {"VOICE_EARPIECE_MIC_WB", "VOICE_SPEAKER_MIC_WB",
              "VOICE_HEADSET_MIC_WB", "VOICE_BT_SCO_MIC_WB"}
MediaIn == {"EARPIECE_MIC", "SPEAKER_MIC", "HEADSET_MIC", "BT_SCO_MIC", "HDMI_MIC",
            "EARPIECE_MIC_AEC", "SPEAKER_MIC_AEC", "HEADSET_MIC_AEC",
            "CAMCORDER_MIC", "VOICE_REC_MIC", "VOICE_REC_HEADSET_MIC"}
InSndDevice == VoiceIn \union VoiceInWb \union MediaIn

(* The devices that have a reference count of their own: the combo device  *)
(* is counted on its two parts.                                            *)
CodecDevice == (OutSndDevice \ {Combo}) \union InSndDevice

Parts(d) == IF d = Combo THEN {"SPEAKER", "HEADPHONES"}
            ELSE IF d = NONE THEN {} ELSE {d}

(* device_table: the mixer path of a device.  The echo-cancelling          *)
(* microphones share the path of another device.                           *)
Path(d) == CASE d = "EARPIECE_MIC_AEC" -> "EARPIECE_MIC"
             [] d = "SPEAKER_MIC_AEC"  -> "VOICE_SPEAKER_MIC"
             [] d = "HEADSET_MIC_AEC"  -> "HEADSET_MIC"
             [] OTHER -> d

-----------------------------------------------------------------------------
Headphones(devs) == devs \intersect {"WIRED_HEADPHONE", "WIRED_HEADSET"} # {}

Wideband == [d \in VoiceOut \union (VoiceIn \ {"VOICE_MIC"}) |->
    CASE d = "VOICE_HEADPHONES"   -> "VOICE_HEADPHONES_WB"
      [] d = "VOICE_BT_SCO"       -> "VOICE_BT_SCO_WB"
      [] d = "VOICE_SPEAKER"      -> "VOICE_SPEAKER_WB"
      [] d = "VOICE_EARPIECE"     -> "VOICE_EARPIECE_WB"
      [] d = "VOICE_EARPIECE_MIC" -> "VOICE_EARPIECE_MIC_WB"
      [] d = "VOICE_SPEAKER_MIC"  -> "VOICE_SPEAKER_MIC_WB"
      [] d = "VOICE_HEADSET_MIC"  -> "VOICE_HEADSET_MIC_WB"
      [] d = "VOICE_BT_SCO_MIC"   -> "VOICE_BT_SCO_MIC_WB"]

(* The wide-band variant of a device, where there is one. *)
Variant(d, wideband) == IF wideband /\ d \in DOMAIN Wideband THEN Wideband[d] ELSE d

(* The choice get_output_snd_device makes in a call: the first of          *)
(* headphones, SCO, speaker and earpiece that is asked for.                *)
CallOut(devs) ==
    IF Headphones(devs) THEN "VOICE_HEADPHONES"
    ELSE IF "SCO" \in devs THEN "VOICE_BT_SCO"
    ELSE IF "SPEAKER" \in devs THEN "VOICE_SPEAKER"
    ELSE IF "EARPIECE" \in devs THEN "VOICE_EARPIECE"
    ELSE NONE

(* ... and outside one: a single device, or the speaker with headphones.   *)
MediaOutFor(devs) ==
    CASE devs \in {{"SPEAKER", "WIRED_HEADPHONE"}, {"SPEAKER", "WIRED_HEADSET"}} -> Combo
      [] devs \in {{"WIRED_HEADPHONE"}, {"WIRED_HEADSET"}} -> "HEADPHONES"
      [] devs = {"SPEAKER"}  -> "SPEAKER"
      [] devs = {"SCO"}      -> "OUT_BT_SCO"
      [] devs = {"EARPIECE"} -> "EARPIECE"
      [] OTHER               -> NONE

get_output_snd_device(mode, wideband, devs) ==
    IF mode = "IN_CALL" /\ CallOut(devs) # NONE
    THEN Variant(CallOut(devs), wideband)
    ELSE MediaOutFor(devs)

-----------------------------------------------------------------------------
(* The microphone of a voice call follows the device the call is heard on. *)
TwoMicOut(devs) == devs \intersect {"EARPIECE", "WIRED_HEADPHONE"} # {}

CallIn(out, twomic) ==
    IF out = {} THEN NONE
    ELSE IF "SCO" \in out THEN "VOICE_BT_SCO_MIC"
    ELSE IF twomic /\ TwoMicOut(out) THEN "VOICE_EARPIECE_MIC"
    ELSE IF twomic /\ "SPEAKER" \in out THEN "VOICE_SPEAKER_MIC"
    ELSE IF "WIRED_HEADSET" \in out THEN "VOICE_HEADSET_MIC"
    ELSE "VOICE_MIC"

(* in_device is one input device, or "" for AUDIO_DEVICE_NONE; the         *)
(* telephony inputs leave the choice to the output device.                 *)
ByInputDevice(in_device) ==
    CASE in_device = "BUILTIN_MIC"   -> "EARPIECE_MIC"
      [] in_device = "BACK_MIC"      -> "SPEAKER_MIC"
      [] in_device = "WIRED_HEADSET" -> "HEADSET_MIC"
      [] in_device = "SCO_HEADSET"   -> "BT_SCO_MIC"
      [] in_device = "AUX_DIGITAL"   -> "HDMI_MIC"
      [] OTHER                       -> "EARPIECE_MIC"

ByOutputDevice(out) ==
    IF "EARPIECE" \in out THEN "EARPIECE_MIC"
    ELSE IF "WIRED_HEADSET" \in out THEN "HEADSET_MIC"
    ELSE IF "SPEAKER" \in out THEN "SPEAKER_MIC"
    ELSE IF "SCO" \in out /\ "WIRED_HEADPHONE" \notin out THEN "BT_SCO_MIC"
    ELSE "EARPIECE_MIC"

AecMic(in_device, out) ==
    CASE in_device = "BACK_MIC"      -> "SPEAKER_MIC_AEC"
      [] in_device = "BUILTIN_MIC"   -> IF "WIRED_HEADPHONE" \in out THEN "SPEAKER_MIC_AEC"
                                                                     ELSE "EARPIECE_MIC_AEC"
      [] in_device = "WIRED_HEADSET" -> "HEADSET_MIC_AEC"
      [] OTHER                       -> NONE

(* The dedicated microphone of an audio source, if it has one. *)
SourceMic(source, in_device, out, aec) ==
    CASE source = "CAMCORDER" /\ in_device \in {"BUILTIN_MIC", "BACK_MIC"} -> "CAMCORDER_MIC"
      [] source = "VOICE_RECOGNITION" /\ in_device = "BUILTIN_MIC"   -> "VOICE_REC_MIC"
      [] source = "VOICE_RECOGNITION" /\ in_device = "WIRED_HEADSET" -> "VOICE_REC_HEADSET_MIC"
      [] source \in {"VOICE_COMMUNICATION", "MIC"} /\ aec            -> AecMic(in_device, out)
      [] OTHER -> NONE

(* get_input_snd_device outside a call, for an input of the given source,  *)
(* device and echo-cancelling flag.                                        *)
MediaInFor(source, device, aec, out) ==
    LET talk == source \in {"VOICE_COMMUNICATION", "MIC"}
        in_device == IF talk /\ "SPEAKER" \in out THEN "BACK_MIC" ELSE device
        mic == SourceMic(source, in_device, out, aec)
    IN  IF source = "DEFAULT" THEN NONE
        ELSE IF mic # NONE THEN mic
        ELSE IF in_device \in {"", "VOICE_CALL", "COMMUNICATION"} THEN ByOutputDevice(out)
        ELSE ByInputDevice(in_device)

-----------------------------------------------------------------------------
(* The devices the capture PCM profile serves (pcm_device_capture).        *)
CaptureProfile  == {"BUILTIN_MIC", "WIRED_HEADSET", "BACK_MIC", "SCO_HEADSET"}
=============================================================================

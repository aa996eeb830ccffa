------------------------------ MODULE Amplifier ------------------------------
(***************************************************************************)
(* The speaker amplifier (amplifier/amplifier.c) as the audio HAL uses it: *)
(* it is told of every playback device that is switched on or off, counts  *)
(* the devices of each TFA mode and powers the chip with the first and off *)
(* with the last of a mode.                                                *)
(***************************************************************************)
EXTENDS Naturals

TfaMode   == {"Music_Normal", "Voice"}
Amp       == [refcount : [TfaMode -> Nat], powered : BOOLEAN]
AmpClosed == [refcount |-> [m \in TfaMode |-> 0], powered |-> FALSE]

(* The devices that sound through the amplified speaker. *)
Amplified == {"SPEAKER", "VOICE_SPEAKER", "VOICE_SPEAKER_WB"}

classify_snd_device(d) == IF d = "SPEAKER" THEN "Music_Normal" ELSE "Voice"

(* The vendor library switches the chip without failing. *)
AmpOn(amp, m) ==
    LET n == amp.refcount[m] + 1
    IN  [refcount |-> [amp.refcount EXCEPT ![m] = n], powered |-> amp.powered \/ n = 1]

AmpOff(amp, m) ==
    LET n == IF amp.refcount[m] > 0 THEN amp.refcount[m] - 1 ELSE 0
    IN  [refcount |-> [amp.refcount EXCEPT ![m] = n], powered |-> amp.powered /\ n # 0]

amp_enable_output_devices(amp, d, enable) ==
    IF d \notin Amplified THEN amp
    ELSE IF enable THEN AmpOn(amp, classify_snd_device(d))
    ELSE AmpOff(amp, classify_snd_device(d))
=============================================================================

---------------------------- MODULE RoutingProofs ----------------------------
(***************************************************************************)
(* Theorems about Routing, for all streams, routes, sources, modes and     *)
(* codec reports: the state has its shape, the reference counts are exact, *)
(* the usecase list matches the streams, the input that a forced standby   *)
(* waits for stays the active one, the mixer paths are those of the        *)
(* devices in use, every usecase is on the device it should be, and the    *)
(* speaker amplifier counts its users.  The lemmas come first.             *)
(*                                                                         *)
(* The reference counts are exact in every reachable state.  They are not  *)
(* exact in the middle of select_devices, where the device of a usecase    *)
(* has been released and the usecase still names it; the lemmas therefore  *)
(* speak of the counts under a view, the usecase table as it would be if   *)
(* the usecase being routed already held what it holds at that point.      *)
(***************************************************************************)
EXTENDS Routing, FiniteSetTheorems, TLAPS

Slot  == Usecase \X {"out", "in"}
Views == [Usecase -> SndUse]

(* The counts ref are exact for the table uc. *)
Exact(ref, uc) == \A d \in CodecDevice : ref[d] = Cardinality(Users(uc, d))

(* Two tables agree except in slot x. *)
DifferAt(uc1, uc2, x) == \A y \in Slot \ {x} : uc1[y[1]][y[2]] = uc2[y[1]][y[2]]

(* The amplifier counts each mode's devices that are in use, and is never  *)
(* powered without one.  Where a call never sounds through the speaker,    *)
(* one TFA mode is used, and it is powered for every device in use.        *)
VoiceSpeaker == {"VOICE_SPEAKER", "VOICE_SPEAKER_WB"}
OneTfaMode   == {"SPEAKER"} \notin OutRoutes \/ "IN_CALL" \notin Modes
OneIf(n)     == IF n > 0 THEN 1 ELSE 0

AmpOk(ref, amp) ==
    /\ amp.refcount["Music_Normal"] = OneIf(ref["SPEAKER"])
    /\ amp.refcount["Voice"] = OneIf(ref["VOICE_SPEAKER"]) + OneIf(ref["VOICE_SPEAKER_WB"])
    /\ amp.powered => \E d \in Amplified : ref[d] > 0
    /\ OneTfaMode => /\ \A d \in VoiceSpeaker : ref[d] = 0
                     /\ ref["SPEAKER"] > 0 => amp.powered

(* The device records whose amplifier is in order. *)
Device == {a \in AudioDevice : AmpOk(a.ref, a.amp)}

(* What may be switched on: with one TFA mode, no speaker for calls. *)
Allowed(d) == OneTfaMode => d \notin VoiceSpeaker

-----------------------------------------------------------------------------
(* The parts of a device are devices with a count of their own. *)
LEMMA PartsType ==
    ASSUME NEW d \in OutSndDevice \union InSndDevice \union {NONE}
    PROVE  /\ Parts(d) \subseteq CodecDevice
           /\ d = NONE => Parts(d) = {}
           /\ d \notin {NONE, Combo} => Parts(d) = {d} /\ d \in CodecDevice
BY DEF Parts, CodecDevice, OutSndDevice, InSndDevice, VoiceOut, VoiceOutWb, MediaOut, Combo,
       NONE, VoiceIn, VoiceInWb, MediaIn

LEMMA UsersFinite ==
    ASSUME NEW uc, NEW d
    PROVE  IsFiniteSet(Users(uc, d)) /\ Cardinality(Users(uc, d)) \in Nat
<1>1. IsFiniteSet(Usecase)
  <2>1. IsFiniteSet({"PLAYBACK"})
    BY FS_Singleton
  <2>2. IsFiniteSet({"PLAYBACK", "DEEP_BUFFER"})
    BY <2>1, FS_AddElement, {"PLAYBACK", "DEEP_BUFFER"} = {"PLAYBACK"} \cup {"DEEP_BUFFER"}
  <2>3. IsFiniteSet(Output)
    BY <2>2, FS_AddElement, Output = {"PLAYBACK", "DEEP_BUFFER"} \cup {"OFFLOAD"} DEF Output
  <2>4. IsFiniteSet(Output \cup {"CAPTURE"})
    BY <2>3, FS_AddElement
  <2> QED
    BY <2>4, FS_AddElement, Usecase = (Output \cup {"CAPTURE"}) \cup {"VOICE_CALL"} DEF Usecase
<1>2. IsFiniteSet({"out", "in"})
  <2>1. IsFiniteSet({"out"})
    BY FS_Singleton
  <2> QED  BY <2>1, FS_AddElement, {"out", "in"} = {"out"} \cup {"in"}
<1>3. IsFiniteSet(Usecase \X {"out", "in"})
  BY <1>1, <1>2, FS_Product
<1>4. Users(uc, d) \in SUBSET (Usecase \X {"out", "in"})
  BY DEF Users
<1> QED  BY <1>3, <1>4, FS_Subset, FS_CardinalityType

(* A table that gives up a device in one slot has one user less of it. *)
LEMMA Released ==
    ASSUME NEW uc1, NEW uc2, NEW x \in Slot, NEW d,
           DifferAt(uc1, uc2, x),
           d \notin Parts(uc2[x[1]][x[2]])
    PROVE  Cardinality(Users(uc2, d)) =
              IF d \in Parts(uc1[x[1]][x[2]]) THEN Cardinality(Users(uc1, d)) - 1
                                              ELSE Cardinality(Users(uc1, d))
<1>1. Users(uc2, d) = Users(uc1, d) \ {x}
  BY DEF Users, DifferAt, Slot
<1>2. x \in Users(uc1, d) <=> d \in Parts(uc1[x[1]][x[2]])
  BY DEF Users, Slot
<1> QED  BY <1>1, <1>2, UsersFinite, FS_RemoveElement

(* ... and one that takes a device in an empty slot one more. *)
LEMMA Taken ==
    ASSUME NEW uc1, NEW uc2, NEW x \in Slot, NEW d,
           DifferAt(uc1, uc2, x),
           d \notin Parts(uc1[x[1]][x[2]])
    PROVE  Cardinality(Users(uc2, d)) =
              IF d \in Parts(uc2[x[1]][x[2]]) THEN Cardinality(Users(uc1, d)) + 1
                                              ELSE Cardinality(Users(uc1, d))
<1>1. DifferAt(uc2, uc1, x)
  BY DEF DifferAt
<1>2. Cardinality(Users(uc1, d)) =
         IF d \in Parts(uc2[x[1]][x[2]]) THEN Cardinality(Users(uc2, d)) - 1
                                         ELSE Cardinality(Users(uc2, d))
  BY <1>1, Released
<1> QED  BY <1>2, UsersFinite

(* A device in use has a user. *)
LEMMA InUse ==
    ASSUME NEW uc, NEW x \in Slot, NEW d, d \in Parts(uc[x[1]][x[2]])
    PROVE  Cardinality(Users(uc, d)) >= 1
<1>1. x \in Users(uc, d)
  BY DEF Users, Slot
<1> QED  BY <1>1, UsersFinite, FS_EmptySet

-----------------------------------------------------------------------------
(* What switching a device on and off does to the device's record.         *)

(* Only the counts, the paths, the amplifier and the usecases' devices     *)
(* differ. *)
Frame(a, b) ==
    /\ b.mode = a.mode                   /\ b.in_call = a.in_call
    /\ b.bt_sco_active = a.bt_sco_active /\ b.bluetooth_wb = a.bluetooth_wb
    /\ b.wb_amr_type = a.wb_amr_type     /\ b.out_device = a.out_device
    /\ b.two_mic = a.two_mic             /\ b.active_input = a.active_input
    /\ b.listed = a.listed               /\ b.ahead = a.ahead

LEMMA PathType ==
    ASSUME NEW d \in CodecDevice
    PROVE  Path(d) \in CodecDevice
BY DEF Path, CodecDevice, OutSndDevice, InSndDevice, VoiceOut, VoiceOutWb, MediaOut, Combo,
       VoiceIn, VoiceInWb, MediaIn

LEMMA CycledType ==
    ASSUME NEW a \in Device, NEW d
    PROVE  Cycled(a, d) \subseteq CodecDevice
<1>1. \A u \in Usecase : Parts(a.uc[u].out) \subseteq CodecDevice
  <2> TAKE u \in Usecase
  <2>1. a.uc[u] \in SndUse
    BY DEF Device, AudioDevice
  <2>2. a.uc[u].out \in OutSndDevice \union InSndDevice \union {NONE}
    BY <2>1 DEF SndUse
  <2> QED  BY <2>2, PartsType
<1>2. FirstPlayback(a) \subseteq Usecase
  BY DEF FirstPlayback, Usecase
<1> QED  BY <1>1, <1>2, PathType DEF Cycled

(* The amplifier's counts stay natural numbers. *)
LEMMA AmpType ==
    ASSUME NEW amp \in Amp, NEW d, NEW enable \in BOOLEAN
    PROVE  amp_enable_output_devices(amp, d, enable) \in Amp
<1> DEFINE m == classify_snd_device(d)
<1>1. m \in TfaMode
  BY DEF classify_snd_device, TfaMode
<1>2. amp.refcount \in [TfaMode -> Nat] /\ amp.refcount[m] \in Nat /\ amp.powered \in BOOLEAN
  BY <1>1 DEF Amp
<1> HIDE DEF m
<1>3. AmpOn(amp, m) \in Amp
  <2> DEFINE n == amp.refcount[m] + 1
  <2>1. [amp.refcount EXCEPT ![m] = n] \in [TfaMode -> Nat]
    BY <1>1, <1>2
  <2>2. (amp.powered \/ n = 1) \in BOOLEAN
    BY <1>2
  <2> QED  BY <2>1, <2>2 DEF AmpOn, Amp
<1>4. AmpOff(amp, m) \in Amp
  <2> DEFINE n == IF amp.refcount[m] > 0 THEN amp.refcount[m] - 1 ELSE 0
  <2>1. [amp.refcount EXCEPT ![m] = n] \in [TfaMode -> Nat]
    BY <1>1, <1>2
  <2>2. (amp.powered /\ n # 0) \in BOOLEAN
    BY <1>2
  <2> QED  BY <2>1, <2>2 DEF AmpOff, Amp
<1> QED  BY <1>3, <1>4 DEF amp_enable_output_devices, m

(* The devices that sound through the amplifier have counts of their own. *)
LEMMA AmplifiedType ==
    /\ Amplified \subseteq CodecDevice
    /\ Amplified = {"SPEAKER", "VOICE_SPEAKER", "VOICE_SPEAKER_WB"}
    /\ VoiceSpeaker = {"VOICE_SPEAKER", "VOICE_SPEAKER_WB"}
    /\ TfaMode = {"Music_Normal", "Voice"}
    /\ \A d \in Amplified : classify_snd_device(d) = IF d = "SPEAKER" THEN "Music_Normal"
                                                     ELSE "Voice"
BY DEF Amplified, VoiceSpeaker, TfaMode, classify_snd_device, CodecDevice, OutSndDevice,
       VoiceOut, VoiceOutWb, MediaOut, Combo

LEMMA AllowedAlways ==
    /\ Allowed("SPEAKER") /\ Allowed("HEADPHONES") /\ Allowed(NONE)
    /\ \A d \in InSndDevice : Allowed(d)
BY DEF Allowed, VoiceSpeaker, NONE, InSndDevice, VoiceIn, VoiceInWb, MediaIn

(* What switching a mode on and off does to the counts and the chip: k is  *)
(* the other mode.                                                         *)
LEMMA AmpSwitched ==
    ASSUME NEW amp \in Amp, NEW m \in TfaMode, NEW k \in TfaMode, k # m
    PROVE  /\ AmpOn(amp, m).refcount[m] = amp.refcount[m] + 1
           /\ AmpOn(amp, m).refcount[k] = amp.refcount[k]
           /\ AmpOn(amp, m).powered <=> amp.powered \/ amp.refcount[m] = 0
           /\ amp.refcount[m] > 0 =>
                 /\ AmpOff(amp, m).refcount[m] = amp.refcount[m] - 1
                 /\ AmpOff(amp, m).refcount[k] = amp.refcount[k]
                 /\ AmpOff(amp, m).powered <=> amp.powered /\ amp.refcount[m] > 1
<1>1. /\ amp.refcount \in [TfaMode -> Nat] /\ amp.refcount[m] \in Nat
      /\ amp.powered \in BOOLEAN
  BY DEF Amp
<1>2. /\ AmpOn(amp, m).refcount = [amp.refcount EXCEPT ![m] = amp.refcount[m] + 1]
      /\ AmpOn(amp, m).powered = (amp.powered \/ amp.refcount[m] + 1 = 1)
  BY DEF AmpOn
<1>3. amp.refcount[m] + 1 = 1 <=> amp.refcount[m] = 0
  BY <1>1
<1>4. AmpOn(amp, m).powered <=> amp.powered \/ amp.refcount[m] = 0
  BY <1>2, <1>3
<1>5. ASSUME amp.refcount[m] > 0
      PROVE  /\ AmpOff(amp, m).refcount[m] = amp.refcount[m] - 1
             /\ AmpOff(amp, m).refcount[k] = amp.refcount[k]
             /\ AmpOff(amp, m).powered <=> amp.powered /\ amp.refcount[m] > 1
  <2>1. /\ AmpOff(amp, m).refcount = [amp.refcount EXCEPT ![m] = amp.refcount[m] - 1]
        /\ AmpOff(amp, m).powered = (amp.powered /\ amp.refcount[m] - 1 # 0)
    BY <1>5 DEF AmpOff
  <2>2. amp.refcount[m] - 1 # 0 <=> amp.refcount[m] > 1
    BY <1>1, <1>5
  <2>3. AmpOff(amp, m).powered <=> amp.powered /\ amp.refcount[m] > 1
    BY <2>1, <2>2
  <2> QED  BY <1>1, <2>1, <2>3
<1>6. /\ AmpOn(amp, m).refcount[m] = amp.refcount[m] + 1
      /\ AmpOn(amp, m).refcount[k] = amp.refcount[k]
  BY <1>1, <1>2
<1> QED  BY <1>4, <1>5, <1>6

(* The first user of a device switches the amplifier to its mode. *)
LEMMA AmpEnabled ==
    ASSUME NEW ref \in [CodecDevice -> Nat], NEW amp \in Amp, AmpOk(ref, amp),
           NEW d \in CodecDevice, Allowed(d),
           NEW q, q = IF ref[d] = 0 THEN amp_enable_output_devices(amp, d, TRUE) ELSE amp,
           NEW r, r = [ref EXCEPT ![d] = @ + 1]
    PROVE  AmpOk(r, q)
<1>1. /\ \A c \in CodecDevice : ref[c] \in Nat /\ r[c] = IF c = d THEN ref[c] + 1 ELSE ref[c]
      /\ \A m \in TfaMode : amp.refcount[m] \in Nat
  BY DEF Amp
<1>2. CASE d \notin Amplified \/ ref[d] > 0
  <2>1. q = amp /\ \A c \in Amplified : r[c] > 0 <=> ref[c] > 0
    BY <1>1, <1>2, AmplifiedType DEF amp_enable_output_devices
  <2>2. \A c \in Amplified : OneIf(r[c]) = OneIf(ref[c])
    BY <2>1 DEF OneIf
  <2>3. OneTfaMode => \A c \in VoiceSpeaker : r[c] = ref[c]
    BY <1>1, AmplifiedType DEF Allowed
  <2> QED  BY <2>1, <2>2, <2>3, AmplifiedType DEF AmpOk
<1>3. CASE d = "SPEAKER" /\ ref[d] = 0
  <2>1. q = AmpOn(amp, "Music_Normal") /\ amp.refcount["Music_Normal"] = 0
    BY <1>3, AmplifiedType DEF amp_enable_output_devices, AmpOk, OneIf
  <2>2. /\ q.refcount["Music_Normal"] = 1 /\ q.refcount["Voice"] = amp.refcount["Voice"]
        /\ q.powered
    <3>1. "Music_Normal" \in TfaMode /\ "Voice" \in TfaMode /\ "Music_Normal" # "Voice"
      BY DEF TfaMode
    <3>2. /\ AmpOn(amp, "Music_Normal").refcount["Music_Normal"] = amp.refcount["Music_Normal"] + 1
          /\ AmpOn(amp, "Music_Normal").refcount["Voice"] = amp.refcount["Voice"]
          /\ AmpOn(amp, "Music_Normal").powered <=> amp.powered \/ amp.refcount["Music_Normal"] = 0
      BY <3>1, AmpSwitched
    <3>3. amp.refcount["Music_Normal"] + 1 = 1
      BY <2>1
    <3>4. q.refcount["Music_Normal"] = 1 /\ q.refcount["Voice"] = amp.refcount["Voice"]
      BY <2>1, <3>2, <3>3, Zenon
    <3>5. q.powered
      BY <2>1, <3>2, Zenon
    <3> QED  BY <3>4, <3>5
  <2>3. /\ r["SPEAKER"] = 1 /\ \A c \in VoiceSpeaker : r[c] = ref[c]
    BY <1>1, <1>3, AmplifiedType
  <2>4. OneIf(r["SPEAKER"]) = 1 /\ r["SPEAKER"] > 0
    BY <2>3 DEF OneIf
  <2> QED  BY <2>2, <2>3, <2>4, AmplifiedType DEF AmpOk
<1>4. CASE d \in VoiceSpeaker /\ ref[d] = 0
  <2>0. /\ d = "VOICE_SPEAKER" \/ d = "VOICE_SPEAKER_WB"
        /\ d # "SPEAKER" /\ d \in Amplified
        /\ "VOICE_SPEAKER" \in Amplified /\ "VOICE_SPEAKER_WB" \in Amplified
        /\ "SPEAKER" \in Amplified
    BY <1>4, AmplifiedType
  <2>1. q = AmpOn(amp, "Voice")
    BY <1>4, AmplifiedType DEF amp_enable_output_devices
  <2>2. /\ q.refcount["Music_Normal"] = amp.refcount["Music_Normal"]
        /\ q.refcount["Voice"] = amp.refcount["Voice"] + 1
    <3>1. "Music_Normal" \in TfaMode /\ "Voice" \in TfaMode /\ "Music_Normal" # "Voice"
      BY DEF TfaMode
    <3>2. /\ AmpOn(amp, "Voice").refcount["Voice"] = amp.refcount["Voice"] + 1
          /\ AmpOn(amp, "Voice").refcount["Music_Normal"] = amp.refcount["Music_Normal"]
          /\ AmpOn(amp, "Voice").powered <=> amp.powered \/ amp.refcount["Voice"] = 0
      BY <3>1, AmpSwitched
    <3> QED  BY <2>1, <3>2
  <2>3. r[d] = 1 /\ \A c \in Amplified : c # d => r[c] = ref[c]
    BY <1>1, <1>4, AmplifiedType
  <2>4. OneIf(r["VOICE_SPEAKER"]) + OneIf(r["VOICE_SPEAKER_WB"]) = amp.refcount["Voice"] + 1
    <3>1. OneIf(ref[d]) = 0 /\ OneIf(r[d]) = 1
      BY <1>4, <2>3 DEF OneIf
    <3>2. amp.refcount["Voice"] = OneIf(ref["VOICE_SPEAKER"]) + OneIf(ref["VOICE_SPEAKER_WB"])
      BY DEF AmpOk
    <3>3. \A n : OneIf(n) \in {0, 1}
      BY DEF OneIf
    <3> QED  BY <2>0, <2>3, <3>1, <3>2, <3>3
  <2>5. OneIf(r["SPEAKER"]) = amp.refcount["Music_Normal"]
    BY <2>0, <2>3 DEF AmpOk
  <2>6. ~OneTfaMode /\ r[d] > 0 /\ d \in Amplified
    BY <1>4, <2>3, AmplifiedType DEF Allowed
  <2> QED  BY <2>2, <2>4, <2>5, <2>6 DEF AmpOk
<1>5. d \in Amplified => d = "SPEAKER" \/ d \in VoiceSpeaker
  BY AmplifiedType
<1>6. ref[d] = 0 \/ ref[d] > 0
  BY <1>1
<1> QED  BY ONLY <1>2, <1>3, <1>4, <1>5, <1>6

(* The last user of the last device of a mode switches the amplifier off:  *)
(* it is on afterwards only if a device of that mode stays on.             *)
LEMMA AmpDisabled ==
    ASSUME NEW ref \in [CodecDevice -> Nat], NEW amp \in Amp, AmpOk(ref, amp),
           NEW d \in CodecDevice, ref[d] >= 1,
           NEW q, q = IF ref[d] > 1 THEN amp ELSE amp_enable_output_devices(amp, d, FALSE),
           NEW r, r = [ref EXCEPT ![d] = @ - 1]
    PROVE  AmpOk(r, q)
<1>1. /\ \A c \in CodecDevice : ref[c] \in Nat /\ r[c] = IF c = d THEN ref[c] - 1 ELSE ref[c]
      /\ \A m \in TfaMode : amp.refcount[m] \in Nat
  BY DEF Amp
<1>2. OneTfaMode => d \notin VoiceSpeaker
  BY DEF AmpOk
<1>3. CASE d \notin Amplified \/ ref[d] > 1
  <2>1. q = amp /\ \A c \in Amplified : r[c] > 0 <=> ref[c] > 0
    BY <1>1, <1>3, AmplifiedType DEF amp_enable_output_devices
  <2>2. \A c \in Amplified : OneIf(r[c]) = OneIf(ref[c])
    BY <2>1 DEF OneIf
  <2>3. OneTfaMode => \A c \in VoiceSpeaker : r[c] = ref[c]
    BY <1>1, <1>2, AmplifiedType
  <2> QED  BY <2>1, <2>2, <2>3, AmplifiedType DEF AmpOk
<1>4. CASE d = "SPEAKER" /\ ref[d] = 1
  <2>1. q = AmpOff(amp, "Music_Normal") /\ amp.refcount["Music_Normal"] = 1
    BY <1>4, AmplifiedType DEF amp_enable_output_devices, AmpOk, OneIf
  <2>2. /\ q.refcount["Music_Normal"] = 0 /\ q.refcount["Voice"] = amp.refcount["Voice"]
        /\ ~q.powered
    <3>1. "Music_Normal" \in TfaMode /\ "Voice" \in TfaMode /\ "Music_Normal" # "Voice"
      BY DEF TfaMode
    <3>2. /\ AmpOff(amp, "Music_Normal").refcount["Music_Normal"] = amp.refcount["Music_Normal"] - 1
          /\ AmpOff(amp, "Music_Normal").refcount["Voice"] = amp.refcount["Voice"]
          /\ AmpOff(amp, "Music_Normal").powered <=> amp.powered /\ amp.refcount["Music_Normal"] > 1
      BY <2>1, <3>1, AmpSwitched
    <3>3. amp.refcount["Music_Normal"] - 1 = 0
      BY <2>1
    <3>4. q.refcount["Music_Normal"] = 0 /\ q.refcount["Voice"] = amp.refcount["Voice"]
      BY <2>1, <3>2, <3>3, Zenon
    <3>5. ~(amp.refcount["Music_Normal"] > 1)
      BY <2>1
    <3>6. ~q.powered
      BY <2>1, <3>2, <3>5, Zenon
    <3> QED  BY <3>4, <3>6
  <2>3. r["SPEAKER"] = 0 /\ \A c \in VoiceSpeaker : r[c] = ref[c]
    BY <1>1, <1>4, AmplifiedType
  <2>4. OneIf(r["SPEAKER"]) = 0 /\ ~(r["SPEAKER"] > 0)
    BY <2>3 DEF OneIf
  <2> QED  BY <2>2, <2>3, <2>4, AmplifiedType DEF AmpOk
<1>5. CASE d \in VoiceSpeaker /\ ref[d] = 1
  <2>0. /\ d = "VOICE_SPEAKER" \/ d = "VOICE_SPEAKER_WB"
        /\ d # "SPEAKER" /\ d \in Amplified
        /\ "VOICE_SPEAKER" \in Amplified /\ "VOICE_SPEAKER_WB" \in Amplified
        /\ "SPEAKER" \in Amplified
    BY <1>5, AmplifiedType
  <2>1. q = AmpOff(amp, "Voice") /\ amp.refcount["Voice"] > 0
    BY <1>1, <1>5, AmplifiedType DEF amp_enable_output_devices, AmpOk, OneIf
  <2>2. /\ q.refcount["Music_Normal"] = amp.refcount["Music_Normal"]
        /\ q.refcount["Voice"] = amp.refcount["Voice"] - 1
        /\ q.powered => amp.refcount["Voice"] > 1
    <3>1. "Music_Normal" \in TfaMode /\ "Voice" \in TfaMode /\ "Music_Normal" # "Voice"
      BY DEF TfaMode
    <3>2. /\ AmpOff(amp, "Voice").refcount["Voice"] = amp.refcount["Voice"] - 1
          /\ AmpOff(amp, "Voice").refcount["Music_Normal"] = amp.refcount["Music_Normal"]
          /\ AmpOff(amp, "Voice").powered <=> amp.powered /\ amp.refcount["Voice"] > 1
      BY <2>1, <3>1, AmpSwitched
    <3> QED  BY <2>1, <3>2
  <2>3. r[d] = 0 /\ \A c \in Amplified : c # d => r[c] = ref[c]
    BY <1>1, <1>5, AmplifiedType
  <2>4. OneIf(r["VOICE_SPEAKER"]) + OneIf(r["VOICE_SPEAKER_WB"]) = amp.refcount["Voice"] - 1
    <3>1. OneIf(ref[d]) = 1 /\ OneIf(r[d]) = 0
      BY <1>5, <2>3 DEF OneIf
    <3>2. amp.refcount["Voice"] = OneIf(ref["VOICE_SPEAKER"]) + OneIf(ref["VOICE_SPEAKER_WB"])
      BY DEF AmpOk
    <3>3. \A n : OneIf(n) \in {0, 1}
      BY DEF OneIf
    <3> QED  BY <2>0, <2>3, <3>1, <3>2, <3>3
  <2>5. OneIf(r["SPEAKER"]) = amp.refcount["Music_Normal"]
    BY <2>0, <2>3 DEF AmpOk
  <2>6. q.powered => \E c \in Amplified : r[c] > 0
    <3>1. amp.refcount["Voice"] \in Nat
      BY <1>1, AmplifiedType
    <3>2. amp.refcount["Voice"] > 1 => amp.refcount["Voice"] - 1 # 0
      BY <3>1
    <3>3. ~(r["VOICE_SPEAKER"] > 0) /\ ~(r["VOICE_SPEAKER_WB"] > 0) =>
             OneIf(r["VOICE_SPEAKER"]) + OneIf(r["VOICE_SPEAKER_WB"]) = 0
      BY DEF OneIf
    <3>4. q.powered => r["VOICE_SPEAKER"] > 0 \/ r["VOICE_SPEAKER_WB"] > 0
      BY <2>2, <2>4, <3>2, <3>3
    <3> QED  BY <2>0, <3>4
  <2>7. ~OneTfaMode
    BY <1>2, <1>5
  <2> QED  BY <2>2, <2>4, <2>5, <2>6, <2>7 DEF AmpOk
<1>6. d \in Amplified => d = "SPEAKER" \/ d \in VoiceSpeaker
  BY AmplifiedType
<1>7. ref[d] = 1 \/ ref[d] > 1
  BY <1>1
<1> QED  BY ONLY <1>3, <1>4, <1>5, <1>6, <1>7

LEMMA EnableOneEffect ==
    ASSUME NEW a \in Device, NEW d \in CodecDevice, Allowed(d)
    PROVE  /\ EnableOne(a, d) \in Device
           /\ Frame(a, EnableOne(a, d)) /\ EnableOne(a, d).uc = a.uc
           /\ EnableOne(a, d).ref = [a.ref EXCEPT ![d] = @ + 1]
<1> DEFINE p == IF a.ref[d] = 0 THEN a.path \union {Path(d)} ELSE a.path
           q == IF a.ref[d] = 0 THEN amp_enable_output_devices(a.amp, d, TRUE) ELSE a.amp
           r == [a.ref EXCEPT ![d] = @ + 1]
<1>1. EnableOne(a, d) = [a EXCEPT !.ref = r, !.path = p, !.amp = q]
  BY DEF EnableOne, Device, AudioDevice
<1>2. p \in SUBSET CodecDevice
  BY PathType DEF Device, AudioDevice
<1>3. r \in [CodecDevice -> Nat]
  BY DEF Device, AudioDevice
<1>4. q \in Amp
  BY AmpType DEF Device, AudioDevice
<1>5. AmpOk(r, q)
  BY AmpEnabled DEF Device, AudioDevice
<1> HIDE DEF p, q, r
<1>6. /\ EnableOne(a, d) \in AudioDevice /\ EnableOne(a, d).ref = r /\ EnableOne(a, d).amp = q
      /\ Frame(a, EnableOne(a, d)) /\ EnableOne(a, d).uc = a.uc
  BY <1>1, <1>2, <1>3, <1>4 DEF Device, AudioDevice, Frame
<1> QED  BY <1>5, <1>6 DEF Device, r

LEMMA DisableOneEffect ==
    ASSUME NEW a \in Device, NEW d \in CodecDevice, a.ref[d] >= 1
    PROVE  /\ DisableOne(a, d) \in Device
           /\ Frame(a, DisableOne(a, d)) /\ DisableOne(a, d).uc = a.uc
           /\ DisableOne(a, d).ref = [a.ref EXCEPT ![d] = @ - 1]
<1> DEFINE p == IF a.ref[d] > 1 THEN a.path ELSE (a.path \ {Path(d)}) \union Cycled(a, d)
           q == IF a.ref[d] > 1 THEN a.amp ELSE amp_enable_output_devices(a.amp, d, FALSE)
           r == [a.ref EXCEPT ![d] = @ - 1]
<1>1. DisableOne(a, d) = [a EXCEPT !.ref = r, !.path = p, !.amp = q]
  BY DEF DisableOne, Device, AudioDevice
<1>2. p \in SUBSET CodecDevice
  BY CycledType DEF Device, AudioDevice
<1>3. r \in [CodecDevice -> Nat]
  BY DEF Device, AudioDevice
<1>4. q \in Amp
  BY AmpType DEF Device, AudioDevice
<1>5. AmpOk(r, q)
  BY AmpDisabled DEF Device, AudioDevice
<1> HIDE DEF p, q, r
<1>6. /\ DisableOne(a, d) \in AudioDevice /\ DisableOne(a, d).ref = r
      /\ DisableOne(a, d).amp = q
      /\ Frame(a, DisableOne(a, d)) /\ DisableOne(a, d).uc = a.uc
  BY <1>1, <1>2, <1>3, <1>4 DEF Device, AudioDevice, Frame
<1> QED  BY <1>5, <1>6 DEF Device, r

-----------------------------------------------------------------------------
(* Releasing a device from a slot, and taking one in an empty slot, keep   *)
(* the counts exact for the table so changed.                              *)

LEMMA DisableExact ==
    ASSUME NEW a \in Device, NEW uc1 \in Views, NEW uc2 \in Views, NEW x \in Slot,
           Exact(a.ref, uc1), DifferAt(uc1, uc2, x), uc2[x[1]][x[2]] = NONE,
           NEW d, d = uc1[x[1]][x[2]],
           NEW b, b = disable_snd_device(a, d)
    PROVE  b \in Device /\ Frame(a, b) /\ b.uc = a.uc /\ Exact(b.ref, uc2)
<1>1. d \in OutSndDevice \union InSndDevice \union {NONE}
  BY DEF Views, SndUse, Slot
<1>2. Parts(NONE) = {}
  BY PartsType
<1>3. \A c \in CodecDevice : Cardinality(Users(uc2, c)) =
            IF c \in Parts(d) THEN a.ref[c] - 1 ELSE a.ref[c]
  BY <1>2, Released DEF Exact
<1>4. \A c \in Parts(d) : c \in CodecDevice /\ a.ref[c] >= 1
  BY <1>1, PartsType, InUse DEF Exact
<1>5. a.ref \in [CodecDevice -> Nat]
  BY DEF Device, AudioDevice
<1>6. CASE d = NONE
  <2>1. b = a
    BY <1>6 DEF disable_snd_device
  <2> QED  BY <2>1, <1>2, <1>3, <1>6 DEF Frame, Exact
<1>7. CASE d = Combo
  <2> DEFINE a1 == DisableOne(a, "SPEAKER")
  <2>0. Parts(d) = {"SPEAKER", "HEADPHONES"}
    BY <1>7 DEF Parts
  <2>1. /\ a1 \in Device /\ Frame(a, a1) /\ a1.uc = a.uc
        /\ a1.ref = [a.ref EXCEPT !["SPEAKER"] = @ - 1]
    BY <2>0, <1>4, DisableOneEffect
  <2>2. a1.ref["HEADPHONES"] >= 1
    BY <2>0, <2>1, <1>4, <1>5
  <2>3. b = DisableOne(a1, "HEADPHONES")
    BY <1>7 DEF disable_snd_device, Combo, NONE
  <2> HIDE DEF a1
  <2>4. /\ b \in Device /\ Frame(a1, b) /\ b.uc = a1.uc
        /\ b.ref = [a1.ref EXCEPT !["HEADPHONES"] = @ - 1]
    <3>1. "HEADPHONES" \in CodecDevice /\ a1 \in Device
      BY <2>0, <2>1, <1>4
    <3> QED  BY <3>1, <2>2, <2>3, DisableOneEffect
  <2>5. \A c \in CodecDevice : b.ref[c] = IF c \in Parts(d) THEN a.ref[c] - 1 ELSE a.ref[c]
    BY <2>0, <2>1, <2>4, <1>4, <1>5
  <2>6. Frame(a, b)
    BY <2>1, <2>4 DEF Frame
  <2> QED  BY <2>1, <2>4, <2>5, <2>6, <1>3 DEF Exact
<1>8. CASE d \notin {NONE, Combo}
  <2>0. Parts(d) = {d} /\ d \in CodecDevice
    BY <1>1, <1>8, PartsType
  <2>1. b = DisableOne(a, d)
    BY <1>8 DEF disable_snd_device
  <2>2. /\ b \in Device /\ Frame(a, b) /\ b.uc = a.uc
        /\ b.ref = [a.ref EXCEPT ![d] = @ - 1]
    BY <2>0, <2>1, <1>4, DisableOneEffect
  <2> QED  BY <2>0, <2>2, <1>3, <1>5 DEF Exact
<1> QED  BY <1>6, <1>7, <1>8

LEMMA EnableExact ==
    ASSUME NEW a \in Device, NEW uc1 \in Views, NEW uc2 \in Views, NEW x \in Slot,
           Exact(a.ref, uc1), DifferAt(uc1, uc2, x),
           uc1[x[1]][x[2]] = NONE, uc2[x[1]][x[2]] # NONE,
           NEW d, d = uc2[x[1]][x[2]], Allowed(d),
           NEW b, b = enable_snd_device(a, d)
    PROVE  b \in Device /\ Frame(a, b) /\ b.uc = a.uc /\ Exact(b.ref, uc2)
<1>1. d \in OutSndDevice \union InSndDevice \union {NONE} /\ d # NONE
  BY DEF Views, SndUse, Slot
<1>2. Parts(NONE) = {}
  BY PartsType
<1>3. \A c \in CodecDevice : Cardinality(Users(uc2, c)) =
            IF c \in Parts(d) THEN a.ref[c] + 1 ELSE a.ref[c]
  BY <1>2, Taken DEF Exact
<1>4. Parts(d) \subseteq CodecDevice
  BY <1>1, PartsType
<1>5. a.ref \in [CodecDevice -> Nat]
  BY DEF Device, AudioDevice
<1>6. CASE d = Combo
  <2> DEFINE a1 == EnableOne(a, "SPEAKER")
  <2>0. Parts(d) = {"SPEAKER", "HEADPHONES"}
    BY <1>6 DEF Parts
  <2>1. /\ a1 \in Device /\ Frame(a, a1) /\ a1.uc = a.uc
        /\ a1.ref = [a.ref EXCEPT !["SPEAKER"] = @ + 1]
    BY <2>0, <1>4, EnableOneEffect, AllowedAlways
  <2>2. b = EnableOne(a1, "HEADPHONES")
    BY <1>6 DEF enable_snd_device
  <2> HIDE DEF a1
  <2>3. /\ b \in Device /\ Frame(a1, b) /\ b.uc = a1.uc
        /\ b.ref = [a1.ref EXCEPT !["HEADPHONES"] = @ + 1]
    BY <2>0, <2>1, <2>2, <1>4, EnableOneEffect, AllowedAlways
  <2>4. \A c \in CodecDevice : b.ref[c] = IF c \in Parts(d) THEN a.ref[c] + 1 ELSE a.ref[c]
    BY <2>0, <2>1, <2>3, <1>4, <1>5
  <2>5. Frame(a, b)
    BY <2>1, <2>3 DEF Frame
  <2> QED  BY <2>1, <2>3, <2>4, <2>5, <1>3 DEF Exact
<1>7. CASE d # Combo
  <2>0. Parts(d) = {d} /\ d \in CodecDevice
    BY <1>1, <1>7, PartsType
  <2>1. b = EnableOne(a, d)
    BY <1>7 DEF enable_snd_device
  <2>2. /\ b \in Device /\ Frame(a, b) /\ b.uc = a.uc
        /\ b.ref = [a.ref EXCEPT ![d] = @ + 1]
    BY <2>0, <2>1, EnableOneEffect
  <2> QED  BY <2>0, <2>2, <1>3, <1>5 DEF Exact
<1> QED  BY <1>6, <1>7

-----------------------------------------------------------------------------
(* The mixer paths.                                                        *)

(* The paths that are on are those of the devices with a count.            *)
PathsOn(a) == a.path = {Path(d) : d \in {c \in CodecDevice : a.ref[c] > 0}}

(* Under table uc, releasing capture device d ends all capture, and what   *)
(* the release cycles is in use: the table has the playback devices of a.  *)
Alone(a, uc, d) ==
    d \in InSndDevice => /\ \A u \in Usecase : uc[u].in \in {NONE, d}
                         /\ \A o \in Output : uc[o].out = a.uc[o].out

(* No playback device shares its path, with whatever device.               *)
LEMMA OwnPath ==
    /\ \A d \in OutSndDevice \ {Combo} : d \in CodecDevice /\ Path(d) = d
    /\ \A d \in OutSndDevice, e \in CodecDevice : e # d => Path(e) # d
    /\ \A d \in InSndDevice : d \in CodecDevice /\ Path(d) \in InSndDevice
    /\ OutSndDevice \intersect InSndDevice = {} /\ NONE \notin OutSndDevice \union InSndDevice
BY DEF Path, CodecDevice, OutSndDevice, InSndDevice, VoiceOut, VoiceOutWb, MediaOut, Combo,
       NONE, VoiceIn, VoiceInWb, MediaIn

(* The first user switches the path on.                                    *)
LEMMA EnableOnePaths ==
    ASSUME NEW a \in Device, NEW d \in CodecDevice, PathsOn(a)
    PROVE  PathsOn(EnableOne(a, d))
<1> DEFINE p == IF a.ref[d] = 0 THEN a.path \union {Path(d)} ELSE a.path
           q == IF a.ref[d] = 0 THEN amp_enable_output_devices(a.amp, d, TRUE) ELSE a.amp
           b == EnableOne(a, d)
<1>1. b = [a EXCEPT !.ref = [a.ref EXCEPT ![d] = @ + 1], !.path = p, !.amp = q]
  BY DEF EnableOne, Device, AudioDevice
<1> HIDE DEF q, b
<1>2. a.ref \in [CodecDevice -> Nat] /\ b.ref = [a.ref EXCEPT ![d] = @ + 1] /\ b.path = p
  BY <1>1 DEF Device, AudioDevice
<1>3. \A c \in CodecDevice : b.ref[c] > 0 <=> a.ref[c] > 0 \/ c = d
  BY <1>2
<1> HIDE DEF p
<1>4. p = {Path(c) : c \in {e \in CodecDevice : a.ref[e] > 0}} \union {Path(d)}
  <2>1. CASE a.ref[d] = 0
    BY <2>1 DEF PathsOn, p
  <2>2. CASE a.ref[d] # 0
    <3>1. a.ref[d] > 0
      BY <1>2, <2>2
    <3>2. QED
      BY <2>2, <3>1 DEF PathsOn, p
  <2>3. QED
    BY <2>1, <2>2
<1>5. {c \in CodecDevice : b.ref[c] > 0} = {c \in CodecDevice : a.ref[c] > 0} \union {d}
  BY <1>3
<1>6. PathsOn(b)
  BY <1>2, <1>4, <1>5 DEF PathsOn
<1>7. QED
  BY <1>6 DEF b

(* The last user switches the path off, if no other device in use has it   *)
(* and what is cycled is in use.                                           *)
LEMMA DisableOnePaths ==
    ASSUME NEW a \in Device, NEW d \in CodecDevice, a.ref[d] >= 1, PathsOn(a),
           \A e \in CodecDevice \ {d} : a.ref[e] > 0 => Path(e) # Path(d),
           \A p \in Cycled(a, d) : \E e \in CodecDevice \ {d} : a.ref[e] > 0 /\ p = Path(e)
    PROVE  PathsOn(DisableOne(a, d))
<1> DEFINE p == IF a.ref[d] > 1 THEN a.path ELSE (a.path \ {Path(d)}) \union Cycled(a, d)
           q == IF a.ref[d] > 1 THEN a.amp ELSE amp_enable_output_devices(a.amp, d, FALSE)
           b == DisableOne(a, d)
<1>1. b = [a EXCEPT !.ref = [a.ref EXCEPT ![d] = @ - 1], !.path = p, !.amp = q]
  BY DEF DisableOne, Device, AudioDevice
<1> HIDE DEF q, b
<1>2. a.ref \in [CodecDevice -> Nat] /\ b.ref = [a.ref EXCEPT ![d] = @ - 1] /\ b.path = p
  BY <1>1 DEF Device, AudioDevice
<1>3. CASE a.ref[d] > 1
  <2>1. \A c \in CodecDevice : b.ref[c] > 0 <=> a.ref[c] > 0
    BY <1>2, <1>3
  <2>2. {c \in CodecDevice : b.ref[c] > 0} = {c \in CodecDevice : a.ref[c] > 0}
    BY <2>1
  <2>3. PathsOn(b)
    BY <1>2, <1>3, <2>2 DEF PathsOn
  <2>4. QED
    BY <2>3 DEF b
<1>4. CASE ~(a.ref[d] > 1)
  <2>1. \A c \in CodecDevice : b.ref[c] > 0 <=> a.ref[c] > 0 /\ c # d
    BY <1>2, <1>4
  <2>2. {c \in CodecDevice : b.ref[c] > 0} = {c \in CodecDevice : a.ref[c] > 0} \ {d}
    BY <2>1
  <2>3. p = (a.path \ {Path(d)}) \union Cycled(a, d)
    BY <1>4
  <2> HIDE DEF p
  <2>4. p = {Path(c) : c \in {e \in CodecDevice : a.ref[e] > 0} \ {d}}
    <3>1. \A r \in p : \E c \in CodecDevice \ {d} : a.ref[c] > 0 /\ r = Path(c)
      BY <2>3 DEF PathsOn
    <3>2. \A c \in CodecDevice \ {d} : a.ref[c] > 0 => Path(c) \in p
      BY <2>3 DEF PathsOn
    <3>3. QED
      BY <3>1, <3>2
  <2>5. PathsOn(b)
    BY <1>2, <2>2, <2>4 DEF PathsOn
  <2>6. QED
    BY <2>5 DEF b
<1>5. QED
  BY <1>3, <1>4

(* Switching a playback device off cycles nothing and shares nothing.      *)
LEMMA DisableOneOutPaths ==
    ASSUME NEW a \in Device, NEW d \in OutSndDevice \ {Combo}, a.ref[d] >= 1, PathsOn(a)
    PROVE  PathsOn(DisableOne(a, d))
<1>1. d \in CodecDevice /\ Path(d) = d /\ \A e \in CodecDevice \ {d} : Path(e) # d
  BY OwnPath
<1>2. Cycled(a, d) = {}
  BY OwnPath DEF Cycled
<1>3. QED
  BY <1>1, <1>2, DisableOnePaths

LEMMA EnablePaths ==
    ASSUME NEW a \in Device, NEW d \in OutSndDevice \union InSndDevice, PathsOn(a)
    PROVE  PathsOn(enable_snd_device(a, d))
<1>1. CASE d = Combo
  <2>1. {"SPEAKER", "HEADPHONES"} \subseteq CodecDevice
    BY PartsType, <1>1 DEF Parts
  <2> DEFINE a1 == EnableOne(a, "SPEAKER")
  <2>2. a1 \in Device /\ PathsOn(a1)
    BY <2>1, EnableOneEffect, EnableOnePaths, AllowedAlways
  <2> HIDE DEF a1
  <2>3. PathsOn(EnableOne(a1, "HEADPHONES"))
    BY <2>1, <2>2, EnableOnePaths
  <2>4. QED
    BY <1>1, <2>3 DEF enable_snd_device, a1
<1>2. CASE d # Combo
  <2>1. d \in CodecDevice
    BY <1>2, OwnPath
  <2>2. QED
    BY <1>2, <2>1, EnableOnePaths DEF enable_snd_device
<1>3. QED
  BY <1>1, <1>2

(* Releasing the device of slot x keeps the paths.                         *)
LEMMA DisablePaths ==
    ASSUME NEW a \in Device, NEW uc \in Views, NEW x \in Slot, Exact(a.ref, uc),
           NEW d, d = uc[x[1]][x[2]], Alone(a, uc, d), PathsOn(a)
    PROVE  PathsOn(disable_snd_device(a, d))
<1>1. d \in OutSndDevice \union InSndDevice \union {NONE}
  BY DEF Views, SndUse, Slot
<1>2. \A c \in Parts(d) : c \in CodecDevice /\ a.ref[c] >= 1
  BY <1>1, PartsType, InUse DEF Exact
<1>3. CASE d = NONE
  BY <1>3 DEF disable_snd_device
<1>4. CASE d = Combo
  <2>1. /\ Parts(d) = {"SPEAKER", "HEADPHONES"} /\ "SPEAKER" # Combo /\ "HEADPHONES" # Combo
        /\ "SPEAKER" \in OutSndDevice /\ "HEADPHONES" \in OutSndDevice
    BY <1>4 DEF Parts, Combo, OutSndDevice, MediaOut
  <2> DEFINE a1 == DisableOne(a, "SPEAKER")
  <2>2. /\ a1 \in Device /\ PathsOn(a1)
        /\ a1.ref = [a.ref EXCEPT !["SPEAKER"] = @ - 1]
    BY <1>2, <2>1, DisableOneEffect, DisableOneOutPaths
  <2>3. a1.ref["HEADPHONES"] >= 1
    BY <1>2, <2>1, <2>2 DEF Device, AudioDevice
  <2> HIDE DEF a1
  <2>4. PathsOn(DisableOne(a1, "HEADPHONES"))
    BY <2>1, <2>2, <2>3, DisableOneOutPaths
  <2>5. QED
    BY <1>4, <2>4 DEF disable_snd_device, a1, Combo, NONE
<1>5. CASE d \in OutSndDevice \ {Combo}
  <2>1. d # NONE /\ Parts(d) = {d}
    BY <1>5, OwnPath, PartsType
  <2>2. QED
    BY <1>2, <1>5, <2>1, DisableOneOutPaths DEF disable_snd_device
<1>6. CASE d \in InSndDevice
  <2>1. /\ d # NONE /\ d # Combo /\ d \in CodecDevice /\ Path(d) \in InSndDevice
    BY <1>6, OwnPath DEF OutSndDevice
  <2>2. Parts(d) = {d} /\ a.ref[d] >= 1
    BY <1>1, <1>2, <2>1, PartsType
  <2>3. \A o \in Output : \A p \in Parts(a.uc[o].out) :
           p \in OutSndDevice \ {Combo} /\ p # d /\ p \in CodecDevice /\ a.ref[p] > 0
    <3> SUFFICES ASSUME NEW o \in Output, NEW p \in Parts(a.uc[o].out)
                 PROVE  p \in OutSndDevice \ {Combo} /\ p # d /\ p \in CodecDevice /\ a.ref[p] > 0
      OBVIOUS
    <3>1. uc[o].out = a.uc[o].out /\ o \in Usecase /\ <<o, "out">> \in Slot
      BY <1>6 DEF Alone, Usecase, Slot
    <3>2. a.uc[o].out \in OutSndDevice \union {NONE}
      BY <3>1 DEF Views, SndUse
    <3>3. p \in OutSndDevice \ {Combo}
      BY <3>2 DEF Parts, OutSndDevice, MediaOut, Combo, NONE
    <3>4. p \in CodecDevice /\ p # d
      BY <1>6, <3>3, OwnPath
    <3>5. Cardinality(Users(uc, p)) >= 1
      BY <3>1, InUse
    <3>6. a.ref[p] > 0
      BY <3>4, <3>5, UsersFinite DEF Exact
    <3>7. QED
      BY <3>3, <3>4, <3>6
  <2>4. \A e \in CodecDevice \ {d} : a.ref[e] > 0 => Path(e) # Path(d)
    <3> SUFFICES ASSUME NEW e \in CodecDevice \ {d}, a.ref[e] > 0
                 PROVE  Path(e) # Path(d)
      OBVIOUS
    <3>1. CASE e \in OutSndDevice
      BY <2>1, <3>1, OwnPath DEF CodecDevice
    <3>2. CASE e \in InSndDevice
      <4>1. Users(uc, e) # {}
        <5>1. Cardinality(Users(uc, e)) > 0
          BY DEF Exact
        <5> QED  BY <5>1, FS_EmptySet
      <4>2. PICK y \in Usecase \X {"out", "in"} : e \in Parts(uc[y[1]][y[2]])
        BY <4>1 DEF Users
      <4>3. y[1] \in Usecase /\ y[2] \in {"out", "in"} /\ uc[y[1]] \in SndUse
        BY DEF Views
      <4>4. CASE y[2] = "in"
        <5>1. uc[y[1]].in \in {NONE, d}
          BY <1>6, <4>3 DEF Alone
        <5>2. Parts(NONE) = {}
          BY PartsType
        <5>3. QED
          BY <2>2, <4>2, <4>4, <5>1, <5>2
      <4>5. CASE y[2] = "out"
        <5>1. uc[y[1]].out \in OutSndDevice \union {NONE}
          BY <4>3 DEF SndUse
        <5>2. e \in OutSndDevice
          BY <4>2, <4>5, <5>1 DEF Parts, OutSndDevice, MediaOut, Combo, NONE
        <5>3. QED
          BY <3>2, <5>2, OwnPath
      <4>6. QED
        BY <4>3, <4>4, <4>5
    <3>3. QED
      BY <3>1, <3>2 DEF CodecDevice
  <2>5. \A p \in Cycled(a, d) : \E e \in CodecDevice \ {d} : a.ref[e] > 0 /\ p = Path(e)
    <3>1. FirstPlayback(a) \subseteq Output
      BY DEF FirstPlayback
    <3>2. QED
      BY <2>3, <3>1 DEF Cycled
  <2>6. PathsOn(DisableOne(a, d))
    BY <2>1, <2>2, <2>4, <2>5, DisableOnePaths
  <2>7. QED
    BY <2>1, <2>6 DEF disable_snd_device
<1>7. QED
  BY <1>1, <1>3, <1>4, <1>5, <1>6

-----------------------------------------------------------------------------
(* check_and_route_usecases moves other usecases while the one being       *)
(* routed holds devices o and i, whatever its entry says.                  *)

View(uc, u, o, i) == [uc EXCEPT ![u] = [out |-> o, in |-> i]]

(* Playback usecases change their output device, the others their input;   *)
(* usecase self and those not in the list keep both.                       *)
Moved(a, b, self) ==
    /\ b \in Device
    /\ Frame(a, b)
    /\ \A v \in Usecase :
          /\ v \notin a.listed \/ v = self => b.uc[v] = a.uc[v]
          /\ v \in Output => b.uc[v].in = a.uc[v].in
          /\ v \notin Output => b.uc[v].out = a.uc[v].out

(* The listed usecases of S but self are moved to playback device d, and   *)
(* no others.                                                              *)
OutMoved(a, b, S, self, d) ==
    /\ \A v \in S \intersect a.listed : v # self => b.uc[v].out = d
    /\ \A v \in Usecase \ S : b.uc[v] = a.uc[v]

(* The capture, if listed and not self, is moved to d, and nothing else.   *)
InMoved(a, b, self, d) ==
    /\ "CAPTURE" \in a.listed /\ "CAPTURE" # self => b.uc["CAPTURE"].in = d
    /\ \A v \in Usecase \ {"CAPTURE"} : b.uc[v] = a.uc[v]

LEMMA MovedTransitive ==
    ASSUME NEW a, NEW b, NEW c, NEW self, Moved(a, b, self), Moved(b, c, self)
    PROVE  Moved(a, c, self)
BY DEF Moved, Frame

LEMMA SwitchOutExact ==
    ASSUME NEW a \in Device, NEW self \in Usecase, NEW u \in Output,
           NEW o, NEW i, [out |-> o, in |-> i] \in SndUse,
           NEW d \in OutSndDevice, Allowed(d),
           Exact(a.ref, View(a.uc, self, o, i)),
           NEW b, b = SwitchOut(a, u, self, d)
    PROVE  /\ Moved(a, b, self) /\ Exact(b.ref, View(b.uc, self, o, i))
           /\ OutMoved(a, b, {u}, self, d) /\ (PathsOn(a) => PathsOn(b))
<1>1. CASE u = self \/ u \notin a.listed \/ a.uc[u].out = d
  <2>1. b = a
    BY <1>1 DEF SwitchOut
  <2> QED  BY <1>1, <2>1 DEF Moved, Frame, OutMoved
<1>2. CASE ~(u = self \/ u \notin a.listed \/ a.uc[u].out = d)
  <2> DEFINE e == a.uc[u].out
             uc1 == View(a.uc, self, o, i)
             uc2 == [uc1 EXCEPT ![u] = [out |-> NONE, in |-> a.uc[u].in]]
             uc3 == [uc1 EXCEPT ![u] = [out |-> d, in |-> a.uc[u].in]]
             x == <<u, "out">>
             a1 == disable_snd_device(a, e)
             a2 == enable_snd_device(a1, d)
  <2>1. u \in Usecase /\ x \in Slot /\ a.uc \in [Usecase -> SndUse]
    BY DEF Usecase, Slot, Device, AudioDevice
  <2>2. a.uc[u] \in SndUse /\ a.uc[u] = [out |-> e, in |-> a.uc[u].in]
    BY <2>1 DEF SndUse
  <2>3. uc1 \in Views /\ uc1[u] = a.uc[u]
    BY <2>1, <1>2 DEF View, Views
  <2>4. uc2 \in Views /\ uc3 \in Views
    BY <2>2, <2>3 DEF Views, SndUse
  <2>5. uc2[u].out = NONE /\ uc2[u].in = a.uc[u].in /\ uc3[u].out = d /\ uc3[u].in = a.uc[u].in
    BY <2>1, <2>3 DEF Views
  <2>6. \A v \in Usecase \ {u} : uc2[v] = uc1[v] /\ uc3[v] = uc1[v]
    BY <2>3 DEF Views
  <2>7. DifferAt(uc1, uc2, x) /\ DifferAt(uc2, uc3, x)
    BY <2>3, <2>5, <2>6 DEF DifferAt, Slot
  <2>8. d # NONE
    BY DEF OutSndDevice, VoiceOut, VoiceOutWb, MediaOut, Combo, NONE
  <2>9. uc1[x[1]][x[2]] = e /\ uc2[x[1]][x[2]] = NONE /\ uc3[x[1]][x[2]] = d
    BY <2>3, <2>5
  <2>10. b = [a2 EXCEPT !.uc[u].out = d]
    BY <1>2 DEF SwitchOut
  <2> HIDE DEF uc1, uc2, uc3, x, e
  <2>11. a1 \in Device /\ Frame(a, a1) /\ a1.uc = a.uc /\ Exact(a1.ref, uc2)
    BY <2>1, <2>3, <2>4, <2>7, <2>9, DisableExact DEF uc1
  <2>11p. PathsOn(a) => PathsOn(a1)
    <3>1. e \notin InSndDevice
      BY <2>1, <2>2, OwnPath DEF SndUse
    <3>2. Alone(a, uc1, e)
      BY <3>1 DEF Alone
    <3>3. Exact(a.ref, uc1)
      BY DEF uc1
    <3>4. QED
      BY <2>1, <2>3, <2>9, <3>2, <3>3, DisablePaths DEF a1
  <2> HIDE DEF a1
  <2>12. a2 \in Device /\ Frame(a1, a2) /\ a2.uc = a1.uc /\ Exact(a2.ref, uc3)
    BY <2>1, <2>4, <2>7, <2>8, <2>9, <2>11, EnableExact
  <2>12p. PathsOn(a1) => PathsOn(a2)
    BY <2>11, EnablePaths DEF a2
  <2> HIDE DEF a2
  <2>13. /\ b \in Device /\ Frame(a2, b) /\ b.ref = a2.ref /\ b.path = a2.path
         /\ b.uc = [a.uc EXCEPT ![u] = [out |-> d, in |-> a.uc[u].in]]
    <3>1. [a.uc[u] EXCEPT !.out = d] = [out |-> d, in |-> a.uc[u].in]
      BY <2>2
    <3>2. [out |-> d, in |-> a.uc[u].in] \in SndUse
      BY <2>2 DEF SndUse
    <3>3. [a.uc EXCEPT ![u] = [out |-> d, in |-> a.uc[u].in]] \in [Usecase -> SndUse]
      BY <3>2, <2>1
    <3>4. b = [a2 EXCEPT !.uc = [a.uc EXCEPT ![u] = [out |-> d, in |-> a.uc[u].in]]]
      BY <2>10, <2>11, <2>12, <3>1
    <3> QED  BY <3>3, <3>4, <2>12 DEF Device, AudioDevice, Frame
  <2>14. View(b.uc, self, o, i) = uc3
    BY <2>13, <2>1, <1>2 DEF View, uc3, uc1
  <2>15. Frame(a, b)
    BY <2>11, <2>12, <2>13 DEF Frame
  <2>16. \A v \in Usecase : v # u => b.uc[v] = a.uc[v]
    BY <2>13, <2>1
  <2>17. b.uc[u].in = a.uc[u].in
    BY <2>13, <2>1
  <2>18. b.uc[u].out = d
    BY <2>13, <2>1
  <2>19. OutMoved(a, b, {u}, self, d)
    BY <2>16, <2>18 DEF OutMoved
  <2>20. PathsOn(a) => PathsOn(b)
    BY <2>11p, <2>12p, <2>13 DEF PathsOn
  <2> QED  BY <2>12, <2>13, <2>14, <2>15, <2>16, <2>17, <2>19, <2>20, <1>2 DEF Moved
<1> QED  BY <1>1, <1>2

LEMMA SwitchInExact ==
    ASSUME NEW a \in Device, NEW self \in Usecase,
           NEW o, NEW i, [out |-> o, in |-> i] \in SndUse,
           NEW d \in InSndDevice,
           Exact(a.ref, View(a.uc, self, o, i)),
           NEW b, b = SwitchIn(a, self, d)
    PROVE  /\ Moved(a, b, self) /\ Exact(b.ref, View(b.uc, self, o, i))
           /\ InMoved(a, b, self, d)
           /\ PathsOn(a) /\ Alone(a, View(a.uc, self, o, i), a.uc["CAPTURE"].in) => PathsOn(b)
<1> DEFINE u == "CAPTURE"
<1>1. CASE u = self \/ u \notin a.listed \/ a.uc[u].in = d
  <2>1. b = a
    BY <1>1 DEF SwitchIn
  <2> QED  BY <1>1, <2>1 DEF Moved, Frame, InMoved
<1>2. CASE ~(u = self \/ u \notin a.listed \/ a.uc[u].in = d)
  <2> DEFINE e == a.uc[u].in
             uc1 == View(a.uc, self, o, i)
             uc2 == [uc1 EXCEPT ![u] = [out |-> a.uc[u].out, in |-> NONE]]
             uc3 == [uc1 EXCEPT ![u] = [out |-> a.uc[u].out, in |-> d]]
             x == <<u, "in">>
             a1 == disable_snd_device(a, e)
             a2 == enable_snd_device(a1, d)
  <2>1. u \in Usecase /\ x \in Slot /\ a.uc \in [Usecase -> SndUse] /\ u \notin Output
    BY DEF Usecase, Output, Slot, Device, AudioDevice
  <2>2. a.uc[u] \in SndUse /\ a.uc[u] = [out |-> a.uc[u].out, in |-> e]
    BY <2>1 DEF SndUse
  <2>3. uc1 \in Views /\ uc1[u] = a.uc[u]
    BY <2>1, <1>2 DEF View, Views
  <2>4. uc2 \in Views /\ uc3 \in Views
    BY <2>2, <2>3 DEF Views, SndUse
  <2>5. uc2[u].in = NONE /\ uc2[u].out = a.uc[u].out /\ uc3[u].in = d /\ uc3[u].out = a.uc[u].out
    BY <2>1, <2>3 DEF Views
  <2>6. \A v \in Usecase \ {u} : uc2[v] = uc1[v] /\ uc3[v] = uc1[v]
    BY <2>3 DEF Views
  <2>7. DifferAt(uc1, uc2, x) /\ DifferAt(uc2, uc3, x)
    BY <2>3, <2>5, <2>6 DEF DifferAt, Slot
  <2>8. d # NONE
    BY DEF InSndDevice, VoiceIn, VoiceInWb, MediaIn, NONE
  <2>9. uc1[x[1]][x[2]] = e /\ uc2[x[1]][x[2]] = NONE /\ uc3[x[1]][x[2]] = d
    BY <2>3, <2>5
  <2>10. b = [a2 EXCEPT !.uc[u].in = d]
    BY <1>2 DEF SwitchIn
  <2> HIDE DEF uc1, uc2, uc3, x, e
  <2>11. a1 \in Device /\ Frame(a, a1) /\ a1.uc = a.uc /\ Exact(a1.ref, uc2)
    BY <2>1, <2>3, <2>4, <2>7, <2>9, DisableExact DEF uc1
  <2>11p. PathsOn(a) /\ Alone(a, View(a.uc, self, o, i), a.uc["CAPTURE"].in) => PathsOn(a1)
    BY <2>1, <2>3, <2>9, DisablePaths DEF a1, uc1, e
  <2> HIDE DEF a1
  <2>12. a2 \in Device /\ Frame(a1, a2) /\ a2.uc = a1.uc /\ Exact(a2.ref, uc3)
    BY <2>1, <2>4, <2>7, <2>8, <2>9, <2>11, EnableExact, AllowedAlways
  <2>12p. PathsOn(a1) => PathsOn(a2)
    BY <2>11, EnablePaths DEF a2
  <2> HIDE DEF a2
  <2>13. /\ b \in Device /\ Frame(a2, b) /\ b.ref = a2.ref /\ b.path = a2.path
         /\ b.uc = [a.uc EXCEPT ![u] = [out |-> a.uc[u].out, in |-> d]]
    <3>1. [a.uc[u] EXCEPT !.in = d] = [out |-> a.uc[u].out, in |-> d]
      BY <2>2
    <3>2. [out |-> a.uc[u].out, in |-> d] \in SndUse
      BY <2>2 DEF SndUse
    <3>3. [a.uc EXCEPT ![u] = [out |-> a.uc[u].out, in |-> d]] \in [Usecase -> SndUse]
      BY <3>2, <2>1
    <3>4. b = [a2 EXCEPT !.uc = [a.uc EXCEPT ![u] = [out |-> a.uc[u].out, in |-> d]]]
      BY <2>10, <2>11, <2>12, <3>1
    <3> QED  BY <3>3, <3>4, <2>12 DEF Device, AudioDevice, Frame
  <2>14. View(b.uc, self, o, i) = uc3
    BY <2>13, <2>1, <1>2 DEF View, uc3, uc1
  <2>15. Frame(a, b)
    BY <2>11, <2>12, <2>13 DEF Frame
  <2>16. \A v \in Usecase : v # u => b.uc[v] = a.uc[v]
    BY <2>13, <2>1
  <2>17. b.uc[u].out = a.uc[u].out
    BY <2>13, <2>1
  <2>18. b.uc[u].in = d
    BY <2>13, <2>1
  <2>19. InMoved(a, b, self, d)
    BY <2>16, <2>18 DEF InMoved
  <2>20. PathsOn(a) /\ Alone(a, View(a.uc, self, o, i), a.uc["CAPTURE"].in) => PathsOn(b)
    BY <2>11p, <2>12p, <2>13 DEF PathsOn
  <2> QED  BY <2>1, <2>12, <2>13, <2>14, <2>15, <2>16, <2>17, <2>19, <2>20, <1>2 DEF Moved
<1> QED  BY <1>1, <1>2

LEMMA RouteOutExact ==
    ASSUME NEW a \in Device, NEW self \in Usecase,
           NEW o, NEW i, [out |-> o, in |-> i] \in SndUse,
           NEW d \in OutSndDevice, Allowed(d),
           Exact(a.ref, View(a.uc, self, o, i)),
           NEW b, b = RouteOut(a, self, d)
    PROVE  /\ Moved(a, b, self) /\ Exact(b.ref, View(b.uc, self, o, i))
           /\ OutMoved(a, b, Output, self, d) /\ (PathsOn(a) => PathsOn(b))
<1> DEFINE b1 == SwitchOut(a, "PLAYBACK", self, d)
           b2 == SwitchOut(b1, "DEEP_BUFFER", self, d)
<1>0. {"PLAYBACK", "DEEP_BUFFER", "OFFLOAD"} \subseteq Output
  BY DEF Output
<1>1. /\ Moved(a, b1, self) /\ Exact(b1.ref, View(b1.uc, self, o, i))
      /\ OutMoved(a, b1, {"PLAYBACK"}, self, d) /\ (PathsOn(a) => PathsOn(b1))
  BY <1>0, SwitchOutExact
<1> HIDE DEF b1
<1>2. /\ Moved(b1, b2, self) /\ Exact(b2.ref, View(b2.uc, self, o, i))
      /\ OutMoved(b1, b2, {"DEEP_BUFFER"}, self, d) /\ (PathsOn(b1) => PathsOn(b2))
  <2>1. b1 \in Device
    BY <1>1 DEF Moved
  <2>2. "DEEP_BUFFER" \in Output
    BY <1>0
  <2> QED  BY <1>1, <2>1, <2>2, SwitchOutExact
<1> HIDE DEF b2
<1>3. /\ Moved(b2, b, self) /\ Exact(b.ref, View(b.uc, self, o, i))
      /\ OutMoved(b2, b, {"OFFLOAD"}, self, d) /\ (PathsOn(b2) => PathsOn(b))
  <2>1. b = SwitchOut(b2, "OFFLOAD", self, d)
    BY DEF RouteOut, b1, b2
  <2>2. b2 \in Device
    BY <1>2 DEF Moved
  <2> QED  BY <1>0, <1>2, <2>1, <2>2, SwitchOutExact
<1>4. b1.listed = a.listed /\ b2.listed = a.listed
  BY <1>1, <1>2 DEF Moved, Frame
<1>5. OutMoved(a, b, Output, self, d)
  BY <1>1, <1>2, <1>3, <1>4 DEF OutMoved, Output, Usecase
<1> QED  BY <1>1, <1>2, <1>3, <1>5, MovedTransitive

LEMMA ViewType ==
    ASSUME NEW uc \in Views, NEW u \in Usecase,
           NEW o \in OutSndDevice \union {NONE}, NEW i \in InSndDevice \union {NONE}
    PROVE  /\ [out |-> o, in |-> i] \in SndUse
           /\ View(uc, u, o, i) \in Views
<1>1. [out |-> o, in |-> i] \in SndUse
  BY DEF SndUse
<1> QED  BY <1>1 DEF View, Views

LEMMA ViewOfItself ==
    ASSUME NEW uc \in Views, NEW u \in Usecase
    PROVE  /\ uc[u].out \in OutSndDevice \union {NONE}
           /\ uc[u].in \in InSndDevice \union {NONE}
           /\ View(uc, u, uc[u].out, uc[u].in) = uc
<1>1. uc[u] \in SndUse /\ uc[u] = [out |-> uc[u].out, in |-> uc[u].in]
  BY DEF Views, SndUse
<1> QED  BY <1>1 DEF View, Views, SndUse

LEMMA ViewsDiffer ==
    ASSUME NEW uc \in Views, NEW u \in Usecase, NEW o, NEW o2, NEW i, NEW i2
    PROVE  /\ <<u, "out">> \in Slot /\ <<u, "in">> \in Slot
           /\ DifferAt(View(uc, u, o, i), View(uc, u, o2, i), <<u, "out">>)
           /\ DifferAt(View(uc, u, o, i), View(uc, u, o, i2), <<u, "in">>)
BY DEF View, Views, DifferAt, Slot

(* disable_snd_device and enable_snd_device on a device of usecase u. *)
LEMMA DisableSlot ==
    ASSUME NEW a \in Device, NEW u \in Usecase,
           NEW o \in OutSndDevice \union {NONE}, NEW i \in InSndDevice \union {NONE},
           Exact(a.ref, View(a.uc, u, o, i))
    PROVE  /\ \A b : b = disable_snd_device(a, o) =>
                 /\ b \in Device /\ Frame(a, b) /\ b.uc = a.uc
                 /\ Exact(b.ref, View(b.uc, u, NONE, i))
                 /\ (PathsOn(a) => PathsOn(b))
           /\ \A b : b = disable_snd_device(a, i) =>
                 /\ b \in Device /\ Frame(a, b) /\ b.uc = a.uc
                 /\ Exact(b.ref, View(b.uc, u, o, NONE))
                 /\ PathsOn(a) /\ Alone(a, View(a.uc, u, o, i), i) => PathsOn(b)
<1>0. a.uc \in Views
  BY DEF Device, AudioDevice, Views
<1> DEFINE uc1 == View(a.uc, u, o, i)
           uc2 == View(a.uc, u, NONE, i)
           uc3 == View(a.uc, u, o, NONE)
           xo == <<u, "out">>
           xi == <<u, "in">>
<1>1. /\ uc1 \in Views /\ uc2 \in Views /\ uc3 \in Views
      /\ xo \in Slot /\ DifferAt(uc1, uc2, xo)
      /\ uc1[xo[1]][xo[2]] = o /\ uc2[xo[1]][xo[2]] = NONE
      /\ xi \in Slot /\ DifferAt(uc1, uc3, xi)
      /\ uc1[xi[1]][xi[2]] = i /\ uc3[xi[1]][xi[2]] = NONE
  <2>1. NONE \in OutSndDevice \union {NONE} /\ NONE \in InSndDevice \union {NONE}
    OBVIOUS
  <2>2. uc1 \in Views /\ uc1[u].out = o /\ uc1[u].in = i
    <3>1. uc1 \in Views
      BY <1>0, <2>1, ViewType
    <3> QED  BY <1>0, <3>1 DEF View, Views
  <2>3. uc2 \in Views /\ uc2[u].out = NONE
    <3>1. uc2 \in Views
      BY <1>0, <2>1, ViewType
    <3> QED  BY <1>0, <3>1 DEF View, Views
  <2>4. uc3 \in Views /\ uc3[u].in = NONE
    <3>1. uc3 \in Views
      BY <1>0, <2>1, ViewType
    <3> QED  BY <1>0, <3>1 DEF View, Views
  <2>5. xo \in Slot /\ xi \in Slot /\ DifferAt(uc1, uc2, xo) /\ DifferAt(uc1, uc3, xi)
    BY <1>0, ViewsDiffer
  <2> QED  BY <2>2, <2>3, <2>4, <2>5
<1> HIDE DEF uc1, uc2, uc3, xo, xi
<1>2. \A b : b = disable_snd_device(a, o) =>
          b \in Device /\ Frame(a, b) /\ b.uc = a.uc /\ Exact(b.ref, uc2)
  <2> TAKE b
  <2> HAVE b = disable_snd_device(a, o)
  <2> QED  BY <1>1, DisableExact DEF uc1
<1>3. \A b : b = disable_snd_device(a, i) =>
          b \in Device /\ Frame(a, b) /\ b.uc = a.uc /\ Exact(b.ref, uc3)
  <2> TAKE b
  <2> HAVE b = disable_snd_device(a, i)
  <2> QED  BY <1>1, DisableExact DEF uc1
<1>4. PathsOn(a) => PathsOn(disable_snd_device(a, o))
  <2>1. Alone(a, uc1, o)
    BY OwnPath DEF Alone
  <2>2. QED
    BY <1>1, <2>1, DisablePaths DEF uc1
<1>5. PathsOn(a) /\ Alone(a, uc1, i) => PathsOn(disable_snd_device(a, i))
  BY <1>1, DisablePaths DEF uc1
<1> QED  BY <1>2, <1>3, <1>4, <1>5 DEF uc1, uc2, uc3

LEMMA EnableOutSlot ==
    ASSUME NEW a \in Device, NEW u \in Usecase,
           NEW o \in OutSndDevice, Allowed(o), NEW i \in InSndDevice \union {NONE},
           Exact(a.ref, View(a.uc, u, NONE, i)),
           NEW b, b = enable_snd_device(a, o)
    PROVE  /\ b \in Device /\ Frame(a, b) /\ b.uc = a.uc
           /\ Exact(b.ref, View(b.uc, u, o, i))
           /\ (PathsOn(a) => PathsOn(b))
<1>0. a.uc \in Views /\ o # NONE
  BY DEF Device, AudioDevice, Views, OutSndDevice, VoiceOut, VoiceOutWb, MediaOut, Combo, NONE
<1> DEFINE uc1 == View(a.uc, u, NONE, i)
           uc2 == View(a.uc, u, o, i)
           x == <<u, "out">>
<1>1. /\ uc1 \in Views /\ uc2 \in Views /\ x \in Slot /\ DifferAt(uc1, uc2, x)
      /\ uc1[x[1]][x[2]] = NONE /\ uc2[x[1]][x[2]] = o
  <2>1. NONE \in OutSndDevice \union {NONE} /\ NONE \in InSndDevice \union {NONE}
    OBVIOUS
  <2>2. uc1 \in Views /\ uc1[u].out = NONE
    <3>1. uc1 \in Views
      BY <1>0, <2>1, ViewType
    <3> QED  BY <1>0, <3>1 DEF View, Views
  <2>3. uc2 \in Views /\ uc2[u].out = o
    <3>1. uc2 \in Views
      BY <1>0, <2>1, ViewType
    <3> QED  BY <1>0, <3>1 DEF View, Views
  <2>4. x \in Slot /\ DifferAt(uc1, uc2, x)
    BY <1>0, ViewsDiffer
  <2> QED  BY <2>2, <2>3, <2>4
<1> HIDE DEF uc1, uc2, x
<1>2. b \in Device /\ Frame(a, b) /\ b.uc = a.uc /\ Exact(b.ref, uc2)
  BY <1>0, <1>1, EnableExact DEF uc1
<1>3. PathsOn(a) => PathsOn(b)
  BY EnablePaths
<1> QED  BY <1>2, <1>3 DEF uc2

LEMMA EnableInSlot ==
    ASSUME NEW a \in Device, NEW u \in Usecase,
           NEW o \in OutSndDevice \union {NONE}, NEW i \in InSndDevice,
           Exact(a.ref, View(a.uc, u, o, NONE)),
           NEW b, b = enable_snd_device(a, i)
    PROVE  /\ b \in Device /\ Frame(a, b) /\ b.uc = a.uc
           /\ Exact(b.ref, View(b.uc, u, o, i))
           /\ (PathsOn(a) => PathsOn(b))
<1>0. a.uc \in Views /\ i # NONE
  BY DEF Device, AudioDevice, Views, InSndDevice, VoiceIn, VoiceInWb, MediaIn, NONE
<1> DEFINE uc1 == View(a.uc, u, o, NONE)
           uc2 == View(a.uc, u, o, i)
           x == <<u, "in">>
<1>1. /\ uc1 \in Views /\ uc2 \in Views /\ x \in Slot /\ DifferAt(uc1, uc2, x)
      /\ uc1[x[1]][x[2]] = NONE /\ uc2[x[1]][x[2]] = i
  <2>1. NONE \in OutSndDevice \union {NONE} /\ NONE \in InSndDevice \union {NONE}
    OBVIOUS
  <2>2. uc1 \in Views /\ uc1[u].in = NONE
    <3>1. uc1 \in Views
      BY <1>0, <2>1, ViewType
    <3> QED  BY <1>0, <3>1 DEF View, Views
  <2>3. uc2 \in Views /\ uc2[u].in = i
    <3>1. uc2 \in Views
      BY <1>0, <2>1, ViewType
    <3> QED  BY <1>0, <3>1 DEF View, Views
  <2>4. x \in Slot /\ DifferAt(uc1, uc2, x)
    BY <1>0, ViewsDiffer
  <2> QED  BY <2>2, <2>3, <2>4
<1> HIDE DEF uc1, uc2, x
<1>2. b \in Device /\ Frame(a, b) /\ b.uc = a.uc /\ Exact(b.ref, uc2)
  BY <1>0, <1>1, EnableExact, AllowedAlways DEF uc1
<1>3. PathsOn(a) => PathsOn(b)
  BY EnablePaths
<1> QED  BY <1>2, <1>3 DEF uc2

-----------------------------------------------------------------------------
(* A device record between two operations. *)

(* A playback usecase uses no microphone, the capture usecase no playback  *)
(* device, and a usecase that is not in the list neither.                  *)
Shape(a) ==
    /\ \A u \in Usecase \ a.listed : a.uc[u] = Idle
    /\ \A u \in Output : a.uc[u].in = NONE
    /\ a.uc["CAPTURE"].out = NONE

Good(a) == a \in Device /\ Exact(a.ref, a.uc) /\ Shape(a)

(* The capture and the call never use two microphones.                     *)
SharedInput(a) ==
    a.uc["CAPTURE"].in # NONE /\ a.uc["VOICE_CALL"].in # NONE =>
        a.uc["CAPTURE"].in = a.uc["VOICE_CALL"].in

(* Usecase u has devices o and i, the other outputs have moved to o and    *)
(* the capture to i, if at all.                                            *)
Placed(a, b, u, o, i) ==
    /\ b.uc[u] = [out |-> o, in |-> i]
    /\ \A v \in Output \ {u} : b.uc[v].out = a.uc[v].out \/ (o # NONE /\ b.uc[v].out = o)
    /\ o # NONE /\ a.uc[u].out # o =>
           \A v \in (Output \intersect a.listed) \ {u} : b.uc[v].out = o
    /\ u # "VOICE_CALL" => b.uc["VOICE_CALL"] = a.uc["VOICE_CALL"]
    /\ u # "CAPTURE" /\ b.uc["CAPTURE"].in # a.uc["CAPTURE"].in =>
           i # NONE /\ b.uc["CAPTURE"].in = i
    /\ u # "CAPTURE" /\ i # NONE /\ a.uc[u].in # i /\ "CAPTURE" \in a.listed =>
           b.uc["CAPTURE"].in = i

(* The second half of select_devices keeps the counts exact, the paths to  *)
(* the counts, and the other usecases to the one it routes.                *)
LEMMA AssignGood ==
    ASSUME NEW a, Good(a), NEW u \in a.listed,
           NEW o \in OutSndDevice \union {NONE}, NEW i \in InSndDevice \union {NONE},
           u \in Output => i = NONE, u = "CAPTURE" => o = NONE, Allowed(o),
           NEW b, b = Assign(a, u, o, i)
    PROVE  /\ Good(b) /\ Frame(a, b) /\ Placed(a, b, u, o, i)
           /\ (PathsOn(a) /\ SharedInput(a) => PathsOn(b))
<1>0. a \in Device /\ u \in Usecase /\ a.uc \in Views /\ Exact(a.ref, a.uc) /\ Shape(a)
  BY DEF Good, Device, AudioDevice, Views
<1>1. CASE o = a.uc[u].out /\ i = a.uc[u].in
  <2>1. b = a /\ Good(b)
    BY <1>1 DEF Assign
  <2>2. a.uc[u] = [out |-> o, in |-> i]
    BY <1>0, <1>1 DEF Views, SndUse
  <2> QED  BY <1>1, <2>1, <2>2 DEF Frame, Placed
<1>2. CASE ~(o = a.uc[u].out /\ i = a.uc[u].in)
  <2> DEFINE p  == a.uc[u].out
             q  == a.uc[u].in
             a0 == disable_snd_device(a, p)
             a1 == disable_snd_device(a0, q)
             r1 == RouteOut(a1, u, o)
             a2 == IF o = NONE THEN a1 ELSE enable_snd_device(r1, o)
             r2 == SwitchIn(a2, u, i)
             a3 == IF i = NONE THEN a2 ELSE enable_snd_device(r2, i)
  <2>0. b = [a3 EXCEPT !.uc[u] = [out |-> o, in |-> i]]
    BY <1>2 DEF Assign
  <2>1. /\ p \in OutSndDevice \union {NONE} /\ q \in InSndDevice \union {NONE}
        /\ Exact(a.ref, View(a.uc, u, p, q))
    BY <1>0, ViewOfItself
  <2>n. NONE \in OutSndDevice \union {NONE} /\ NONE \in InSndDevice \union {NONE}
    OBVIOUS
  <2>q. q # NONE => u \notin Output
    BY <1>0 DEF Shape
  <2>u. Usecase = Output \union {"CAPTURE", "VOICE_CALL"}
    BY DEF Usecase
  <2>p. u = "CAPTURE" => q = a.uc["CAPTURE"].in
    OBVIOUS
  <2>v. u = "VOICE_CALL" => q = a.uc["VOICE_CALL"].in
    OBVIOUS
  <2> HIDE DEF p, q
  <2>2. /\ a0 \in Device /\ Frame(a, a0) /\ a0.uc = a.uc
        /\ Exact(a0.ref, View(a0.uc, u, NONE, q)) /\ (PathsOn(a) => PathsOn(a0))
    BY <1>0, <2>1, DisableSlot
  <2> HIDE DEF a0
  <2>3. /\ a1 \in Device /\ Frame(a0, a1) /\ a1.uc = a0.uc
        /\ Exact(a1.ref, View(a1.uc, u, NONE, NONE))
        /\ PathsOn(a0) /\ Alone(a0, View(a0.uc, u, NONE, q), q) => PathsOn(a1)
    <3>1. \A d : d = disable_snd_device(a0, q) =>
             /\ d \in Device /\ Frame(a0, d) /\ d.uc = a0.uc
             /\ Exact(d.ref, View(d.uc, u, NONE, NONE))
             /\ PathsOn(a0) /\ Alone(a0, View(a0.uc, u, NONE, q), q) => PathsOn(d)
      BY <1>0, <2>1, <2>2, <2>n, DisableSlot
    <3> QED  BY <3>1
  <2>3a. SharedInput(a) => Alone(a0, View(a0.uc, u, NONE, q), q)
    <3> SUFFICES ASSUME SharedInput(a), q # NONE
                 PROVE  /\ \A v \in Usecase : View(a.uc, u, NONE, q)[v].in \in {NONE, q}
                        /\ \A v \in Output : View(a.uc, u, NONE, q)[v].out = a.uc[v].out
      BY <2>2, OwnPath DEF Alone
    <3>1. /\ View(a.uc, u, NONE, q)[u].in = q
          /\ \A v \in Usecase \ {u} : View(a.uc, u, NONE, q)[v] = a.uc[v]
      BY <1>0 DEF View, Views
    <3>2. \A v \in Output : a.uc[v].in = NONE
      BY <1>0 DEF Shape
    <3>3. u \in {"CAPTURE", "VOICE_CALL"}
      BY <1>0, <2>q, <2>u
    <3>4. \A v \in {"CAPTURE", "VOICE_CALL"} \ {u} : a.uc[v].in \in {NONE, q}
      BY <2>p, <2>v, <3>3 DEF SharedInput
    <3> QED  BY <2>q, <2>u, <3>1, <3>2, <3>4
  <2> HIDE DEF a1
  <2>4. Moved(a, a1, u)
    BY <2>2, <2>3 DEF Moved, Frame
  <2>5. /\ Moved(a1, a2, u) /\ Exact(a2.ref, View(a2.uc, u, o, NONE))
        /\ (PathsOn(a1) => PathsOn(a2))
        /\ IF o = NONE THEN a2.uc = a1.uc ELSE OutMoved(a1, a2, Output, u, o)
    <3>1. CASE o = NONE
      BY <3>1, <2>3 DEF Moved, Frame
    <3>2. CASE o # NONE
      <4>1. o \in OutSndDevice /\ [out |-> NONE, in |-> NONE] \in SndUse
        BY <3>2, <2>n DEF SndUse
      <4>2. /\ Moved(a1, r1, u) /\ Exact(r1.ref, View(r1.uc, u, NONE, NONE))
            /\ OutMoved(a1, r1, Output, u, o) /\ (PathsOn(a1) => PathsOn(r1))
        BY <1>0, <2>3, <4>1, RouteOutExact
      <4> HIDE DEF r1
      <4>3. /\ a2 \in Device /\ Frame(r1, a2) /\ a2.uc = r1.uc
            /\ Exact(a2.ref, View(a2.uc, u, o, NONE)) /\ (PathsOn(r1) => PathsOn(a2))
        <5>1. r1 \in Device /\ a2 = enable_snd_device(r1, o)
          BY <3>2, <4>2 DEF Moved
        <5> QED  BY <1>0, <2>n, <4>1, <4>2, <5>1, EnableOutSlot
      <4>4. Moved(r1, a2, u)
        BY <4>3 DEF Moved, Frame
      <4>5. OutMoved(a1, a2, Output, u, o)
        BY <4>2, <4>3 DEF OutMoved
      <4>6. Moved(a1, a2, u)
        BY <4>2, <4>4, MovedTransitive
      <4> QED  BY <3>2, <4>2, <4>3, <4>5, <4>6
    <3> QED  BY <3>1, <3>2
  <2> HIDE DEF a2
  <2>5a. /\ \A v \in Usecase : a2.uc[v].in = a.uc[v].in
         /\ \A v \in Usecase \ Output : a2.uc[v] = a.uc[v]
         /\ \A v \in Output \ {u} : a2.uc[v].out = a.uc[v].out \/ (o # NONE /\ a2.uc[v].out = o)
         /\ o # NONE => \A v \in (Output \intersect a.listed) \ {u} : a2.uc[v].out = o
         /\ a2.listed = a.listed /\ a2.uc \in Views
    <3>1. a1.uc = a.uc /\ a1.listed = a.listed
      BY <2>2, <2>3 DEF Frame
    <3>2. a2.listed = a.listed /\ a2.uc \in Views
      BY <2>5, <3>1 DEF Moved, Frame, Device, AudioDevice, Views
    <3>3. \A v \in Usecase \ Output : a2.uc[v] = a.uc[v]
      BY <2>5, <3>1 DEF OutMoved
    <3>4. \A v \in Output \ {u} : a2.uc[v].out = a.uc[v].out \/ (o # NONE /\ a2.uc[v].out = o)
      BY <2>5, <2>u, <3>1 DEF Moved, OutMoved
    <3>5. o # NONE => \A v \in (Output \intersect a.listed) \ {u} : a2.uc[v].out = o
      BY <2>5, <3>1 DEF OutMoved
    <3>6. \A v \in Usecase : a2.uc[v].in = a.uc[v].in
      BY <2>5, <3>1, <3>3 DEF Moved
    <3> QED  BY <3>2, <3>3, <3>4, <3>5, <3>6
  <2>5b. i # NONE /\ SharedInput(a) => Alone(a2, View(a2.uc, u, o, NONE), a2.uc["CAPTURE"].in)
    <3> DEFINE c == a.uc["CAPTURE"].in
               V == View(a2.uc, u, o, NONE)
    <3> SUFFICES ASSUME i # NONE, SharedInput(a), c # NONE
                 PROVE  /\ \A v \in Usecase : V[v].in \in {NONE, c}
                        /\ \A v \in Output : V[v].out = a2.uc[v].out
      BY <2>5a, <2>u, OwnPath DEF Alone
    <3>1. u \notin Output /\ u \in {"CAPTURE", "VOICE_CALL"}
      BY <1>0, <2>u
    <3>2. V[u].in = NONE /\ \A v \in Usecase \ {u} : V[v] = a2.uc[v]
      BY <1>0, <2>5a DEF View, Views
    <3>3. \A v \in Output : a2.uc[v].in = NONE
      BY <1>0, <2>5a, <2>u DEF Shape
    <3>4. \A v \in {"CAPTURE", "VOICE_CALL"} : a2.uc[v].in \in {NONE, c}
      BY <2>5a, <2>u DEF SharedInput
    <3> QED  BY <2>u, <3>1, <3>2, <3>3, <3>4
  <2>6. /\ Moved(a2, a3, u) /\ Exact(a3.ref, View(a3.uc, u, o, i))
        /\ (PathsOn(a2) /\ SharedInput(a) => PathsOn(a3))
        /\ IF i = NONE THEN a3.uc = a2.uc ELSE InMoved(a2, a3, u, i)
    <3>0. a2 \in Device
      BY <2>5 DEF Moved
    <3>1. CASE i = NONE
      BY <3>0, <3>1, <2>5 DEF Moved, Frame
    <3>2. CASE i # NONE
      <4>1. i \in InSndDevice /\ [out |-> o, in |-> NONE] \in SndUse
        BY <3>2, <2>n DEF SndUse
      <4>2. /\ Moved(a2, r2, u) /\ Exact(r2.ref, View(r2.uc, u, o, NONE))
            /\ InMoved(a2, r2, u, i)
            /\ PathsOn(a2) /\ Alone(a2, View(a2.uc, u, o, NONE), a2.uc["CAPTURE"].in) => PathsOn(r2)
        BY <1>0, <2>5, <3>0, <4>1, SwitchInExact
      <4> HIDE DEF r2
      <4>3. /\ a3 \in Device /\ Frame(r2, a3) /\ a3.uc = r2.uc
            /\ Exact(a3.ref, View(a3.uc, u, o, i)) /\ (PathsOn(r2) => PathsOn(a3))
        <5>1. r2 \in Device /\ a3 = enable_snd_device(r2, i)
          BY <3>2, <4>2 DEF Moved
        <5> QED  BY <1>0, <4>1, <4>2, <5>1, EnableInSlot
      <4>4. Moved(r2, a3, u)
        BY <4>3 DEF Moved, Frame
      <4>5. InMoved(a2, a3, u, i)
        BY <4>2, <4>3 DEF InMoved
      <4>6. Moved(a2, a3, u)
        BY <4>2, <4>4, MovedTransitive
      <4> QED  BY <2>5b, <3>2, <4>2, <4>3, <4>5, <4>6
    <3> QED  BY <3>1, <3>2
  <2> HIDE DEF a3
  <2>7. Moved(a, a3, u)
    BY <2>4, <2>5, <2>6, MovedTransitive
  <2>8. a3 \in Device /\ a3.uc \in Views
    BY <2>7 DEF Moved, Device, AudioDevice, Views
  <2>9. /\ b \in Device /\ Frame(a3, b) /\ b.ref = a3.ref /\ b.path = a3.path
        /\ b.uc = View(a3.uc, u, o, i)
    <3>1. [out |-> o, in |-> i] \in SndUse
      BY DEF SndUse
    <3>2. View(a3.uc, u, o, i) \in [Usecase -> SndUse]
      BY <1>0, <2>8, <3>1, ViewType DEF Views
    <3>3. b = [a3 EXCEPT !.uc = View(a3.uc, u, o, i)]
      BY <2>0 DEF View
    <3> QED  BY <3>2, <3>3, <2>8 DEF Device, AudioDevice, Frame
  <2>10. Exact(b.ref, b.uc)
    BY <2>6, <2>9
  <2>11. Frame(a, b)
    BY <2>7, <2>9 DEF Moved, Frame
  <2>12. /\ b.uc[u] = [out |-> o, in |-> i]
         /\ \A v \in Usecase : v # u => b.uc[v] = a3.uc[v]
    BY <1>0, <2>8, <2>9 DEF View, Views
  <2>13. Shape(b)
    <3>1. \A v \in Usecase \ b.listed : b.uc[v] = Idle
      BY <1>0, <2>7, <2>11, <2>12 DEF Shape, Moved, Frame
    <3>2. \A v \in Output : b.uc[v].in = NONE
      BY <1>0, <2>7, <2>12 DEF Shape, Moved, Usecase
    <3>3. b.uc["CAPTURE"].out = NONE
      BY <1>0, <2>7, <2>12 DEF Shape, Moved, Usecase, Output
    <3> QED  BY <3>1, <3>2, <3>3 DEF Shape
  <2>14. PathsOn(a) /\ SharedInput(a) => PathsOn(b)
    BY <2>2, <2>3, <2>3a, <2>5, <2>6, <2>9 DEF PathsOn
  <2>15. Placed(a, b, u, o, i)
    <3>1. \A v \in Usecase \ {u, "CAPTURE"} : b.uc[v] = a2.uc[v]
      BY <2>6, <2>12 DEF InMoved
    <3>2. "CAPTURE" \notin Output /\ "VOICE_CALL" \notin Output /\ "VOICE_CALL" # "CAPTURE"
      BY DEF Output
    <3>3. \A v \in Output \ {u} : b.uc[v].out = a2.uc[v].out
      BY <2>u, <3>1, <3>2
    <3>4. u # "VOICE_CALL" => b.uc["VOICE_CALL"] = a.uc["VOICE_CALL"]
      BY <2>5a, <2>u, <3>1, <3>2
    <3>5. u # "CAPTURE" => b.uc["CAPTURE"].in = a3.uc["CAPTURE"].in
      BY <2>12, <2>u
    <3>6. \/ a3.uc["CAPTURE"].in = a.uc["CAPTURE"].in
          \/ i # NONE /\ "CAPTURE" \in a.listed /\ "CAPTURE" # u /\ a3.uc["CAPTURE"].in = i
      BY <2>5a, <2>6, <2>u DEF InMoved, Moved
    <3>7. i # NONE /\ "CAPTURE" \in a.listed /\ "CAPTURE" # u => a3.uc["CAPTURE"].in = i
      BY <2>5a, <2>6 DEF InMoved
    <3> QED  BY <2>5a, <2>12, <3>3, <3>4, <3>5, <3>6, <3>7 DEF Placed
  <2> QED  BY <2>9, <2>10, <2>11, <2>13, <2>14, <2>15 DEF Good
<1> QED  BY <1>1, <1>2

-----------------------------------------------------------------------------
(* What the operations keep, and the theorems. *)

(* What the operations on the list and the call leave alone. *)
Relisted(a, b, S) ==
    /\ b.listed = S
    /\ b.mode = a.mode /\ b.in_call = a.in_call /\ b.active_input = a.active_input

-----------------------------------------------------------------------------
(* The devices chosen are sound devices of the right kind. *)

LEMMA OutChoice ==
    ASSUME NEW mode, NEW wideband \in BOOLEAN, NEW devs
    PROVE  get_output_snd_device(mode, wideband, devs) \in OutSndDevice \union {NONE}
<1>1. CallOut(devs) \in VoiceOut \union {NONE}
  BY DEF CallOut, VoiceOut
<1>2. \A d \in VoiceOut : Variant(d, wideband) \in VoiceOut \union VoiceOutWb
  BY DEF Variant, Wideband, VoiceOut, VoiceOutWb, VoiceIn
<1>3. MediaOutFor(devs) \in MediaOut \union {Combo, NONE}
  BY DEF MediaOutFor, MediaOut
<1> QED  BY <1>1, <1>2, <1>3 DEF get_output_snd_device, OutSndDevice

(* Without calls on the speaker, or without calls, the speaker's devices   *)
(* for calls are not chosen.                                               *)
LEMMA OutAllowed ==
    ASSUME NEW mode \in Modes, NEW wideband \in BOOLEAN, NEW devs \in OutRoutes
    PROVE  Allowed(get_output_snd_device(mode, wideband, devs))
<1> SUFFICES ASSUME OneTfaMode
             PROVE  get_output_snd_device(mode, wideband, devs) \notin VoiceSpeaker
  BY DEF Allowed
<1>1. MediaOutFor(devs) \notin VoiceSpeaker
  BY DEF MediaOutFor, VoiceSpeaker, Combo, NONE
<1>2. ASSUME mode = "IN_CALL"
      PROVE  CallOut(devs) # "VOICE_SPEAKER"
  <2>1. devs # {"SPEAKER"} /\ devs \in ValidRoutes
    BY <1>2, RoutesAssumption DEF OneTfaMode
  <2>2. devs \in {{"EARPIECE"}, {"WIRED_HEADSET"}, {"WIRED_HEADPHONE"}, {"SCO"},
                  {"SPEAKER", "WIRED_HEADSET"}, {"SPEAKER", "WIRED_HEADPHONE"}}
    BY <2>1 DEF ValidRoutes
  <2>3. Headphones(devs) \/ "SPEAKER" \notin devs
    BY <2>2 DEF Headphones
  <2> QED  BY <2>3 DEF CallOut, NONE
<1>3. \A d \in VoiceOut : d # "VOICE_SPEAKER" => Variant(d, wideband) \notin VoiceSpeaker
  BY DEF Variant, Wideband, VoiceOut, VoiceIn, VoiceSpeaker
<1>4. CallOut(devs) # NONE => CallOut(devs) \in VoiceOut
  BY DEF CallOut, VoiceOut
<1> QED  BY <1>1, <1>2, <1>3, <1>4 DEF get_output_snd_device

LEMMA MediaInChoice ==
    ASSUME NEW source, NEW device, NEW aec, NEW devs
    PROVE  MediaInFor(source, device, aec, devs) \in MediaIn \union {NONE}
<1> DEFINE in_device == IF source \in {"VOICE_COMMUNICATION", "MIC"} /\ "SPEAKER" \in devs
                        THEN "BACK_MIC" ELSE device
<1>1. AecMic(in_device, devs) \in MediaIn \union {NONE}
  BY DEF AecMic, MediaIn
<1>2. SourceMic(source, in_device, devs, aec) \in MediaIn \union {NONE}
  BY <1>1 DEF SourceMic, MediaIn
<1>3. ByOutputDevice(devs) \in MediaIn /\ ByInputDevice(in_device) \in MediaIn
  BY DEF ByOutputDevice, ByInputDevice, MediaIn
<1> QED  BY <1>2, <1>3 DEF MediaInFor

LEMMA WidebandType ==
    ASSUME NEW a \in Device
    PROVE  voice_session_uses_wideband(a) \in BOOLEAN
<1>1. a.bluetooth_wb \in BOOLEAN
  BY DEF Device, AudioDevice
<1>2. (a.wb_amr_type >= 1) \in BOOLEAN
  OBVIOUS
<1> QED  BY ONLY <1>1, <1>2, Zenon DEF voice_session_uses_wideband

LEMMA InChoice ==
    ASSUME NEW a \in Device, NEW s, NEW devs, NEW g \in Misread
    PROVE  get_input_snd_device(a, s, devs, g) \in InSndDevice \union {NONE}
<1>1. CallIn(devs, a.two_mic) \in VoiceIn \union {NONE}
  BY DEF CallIn, VoiceIn
<1>2. \A d \in VoiceIn \union {NONE}, w \in BOOLEAN :
         Variant(d, w) \in VoiceIn \union VoiceInWb \union {NONE}
  BY DEF Variant, Wideband, VoiceIn, VoiceInWb, VoiceOut, NONE
<1>3. voice_session_uses_wideband(a) \in BOOLEAN
  BY WidebandType
<1>4. g \in InSndDevice \union {NONE}
  BY MisreadAssumption
<1> QED  BY <1>1, <1>2, <1>3, <1>4, MediaInChoice DEF get_input_snd_device, InSndDevice

-----------------------------------------------------------------------------
(* Entering and leaving the usecase list. *)

LEMMA AddGood ==
    ASSUME NEW a, Good(a), NEW u \in Usecase, u \notin a.listed,
           NEW b, b = ListAdd(a, u)
    PROVE  /\ Good(b) /\ b.uc = a.uc /\ Relisted(a, b, a.listed \union {u})
           /\ b.ref = a.ref /\ b.path = a.path
<1>1. a \in Device /\ a.uc[u] = Idle
  BY DEF Good, Shape
<1>2. [a.uc EXCEPT ![u] = Idle] = a.uc
  BY <1>1 DEF Device, AudioDevice
<1>3. /\ a.listed \union {u} \in SUBSET Usecase
      /\ [a.ahead EXCEPT ![u] = a.listed] \in [Usecase -> SUBSET Usecase]
  BY <1>1 DEF Device, AudioDevice
<1>4. b = [a EXCEPT !.listed = a.listed \union {u}, !.ahead = [a.ahead EXCEPT ![u] = a.listed]]
  BY <1>1, <1>2 DEF ListAdd, Device, AudioDevice
<1>5. b \in Device
  BY <1>1, <1>3, <1>4 DEF Device, AudioDevice
<1>6. b.uc = a.uc /\ b.ref = a.ref /\ b.path = a.path /\ Relisted(a, b, a.listed \union {u})
  BY <1>1, <1>4 DEF Device, AudioDevice, Relisted
<1> QED  BY <1>5, <1>6 DEF Good, Shape, Relisted

(* A usecase gives both its devices up and leaves the list. *)
LEMMA StopGood ==
    ASSUME NEW a, Good(a), NEW u \in a.listed,
           NEW b, b = ListRemove(disable_snd_device(disable_snd_device(a, a.uc[u].out),
                                                    a.uc[u].in), u)
    PROVE  /\ Good(b) /\ Relisted(a, b, a.listed \ {u})
           /\ b.uc = [a.uc EXCEPT ![u] = Idle]
           /\ (PathsOn(a) /\ SharedInput(a) => PathsOn(b))
<1> DEFINE p == a.uc[u].out
           q == a.uc[u].in
           a1 == disable_snd_device(a, p)
           a2 == disable_snd_device(a1, q)
<1>1. /\ a \in Device /\ u \in Usecase /\ a.uc \in Views /\ Shape(a)
      /\ Exact(a.ref, a.uc)
  BY DEF Good, Device, AudioDevice, Views
<1>2. /\ p \in OutSndDevice \union {NONE} /\ q \in InSndDevice \union {NONE}
      /\ Exact(a.ref, View(a.uc, u, p, q))
  BY <1>1, ViewOfItself
<1>3. NONE \in OutSndDevice \union {NONE}
  OBVIOUS
<1>4. b = ListRemove(a2, u)
  OBVIOUS
<1>4a. SharedInput(a) => Alone(a, View(a.uc, u, NONE, q), q)
  <2> SUFFICES ASSUME SharedInput(a), q # NONE
               PROVE  /\ \A v \in Usecase : View(a.uc, u, NONE, q)[v].in \in {NONE, q}
                      /\ \A v \in Output : View(a.uc, u, NONE, q)[v].out = a.uc[v].out
    BY OwnPath DEF Alone
  <2>1. u \in {"CAPTURE", "VOICE_CALL"} /\ u \notin Output
    BY <1>1 DEF Shape, Usecase
  <2>2. /\ View(a.uc, u, NONE, q)[u].in = q
        /\ \A v \in Usecase \ {u} : View(a.uc, u, NONE, q)[v] = a.uc[v]
    BY <1>1 DEF View, Views
  <2>3. \A v \in Output : a.uc[v].in = NONE
    BY <1>1 DEF Shape
  <2>4. \A v \in {"CAPTURE", "VOICE_CALL"} \ {u} : a.uc[v].in \in {NONE, q}
    BY <2>1 DEF SharedInput
  <2>5. Usecase = Output \union {"CAPTURE", "VOICE_CALL"}
    BY DEF Usecase
  <2> HIDE DEF q
  <2> QED  BY <2>1, <2>2, <2>3, <2>4, <2>5
<1>4b. a.uc[u].out = p
  OBVIOUS
<1> HIDE DEF p, q
<1>5. /\ a1 \in Device /\ Frame(a, a1) /\ a1.uc = a.uc
      /\ Exact(a1.ref, View(a1.uc, u, NONE, q)) /\ (PathsOn(a) => PathsOn(a1))
  BY <1>1, <1>2, DisableSlot
<1> HIDE DEF a1
<1>5a. SharedInput(a) => Alone(a1, View(a1.uc, u, NONE, q), q)
  BY <1>4a, <1>5 DEF Alone
<1>6. /\ a2 \in Device /\ Frame(a1, a2) /\ a2.uc = a1.uc
      /\ Exact(a2.ref, View(a2.uc, u, NONE, NONE))
      /\ PathsOn(a1) /\ Alone(a1, View(a1.uc, u, NONE, q), q) => PathsOn(a2)
  BY <1>1, <1>2, <1>3, <1>5, DisableSlot
<1> HIDE DEF a2
<1>7. View(a2.uc, u, NONE, NONE) = [a.uc EXCEPT ![u] = Idle]
  BY <1>5, <1>6 DEF View, Idle
<1>8. /\ [a.uc EXCEPT ![u] = Idle] \in [Usecase -> SndUse]
      /\ [v \in Usecase |-> a2.ahead[v] \ {u}] \in [Usecase -> SUBSET Usecase]
      /\ a2.listed \ {u} \in SUBSET Usecase
  BY <1>1, <1>6 DEF Idle, SndUse, Views, Device, AudioDevice
<1>9. b = [a2 EXCEPT !.listed = a2.listed \ {u}, !.uc = [a.uc EXCEPT ![u] = Idle],
                     !.ahead = [v \in Usecase |-> a2.ahead[v] \ {u}]]
  BY <1>4, <1>5, <1>6 DEF ListRemove
<1>10. b \in Device
  BY <1>6, <1>8, <1>9 DEF Device, AudioDevice
<1>11. /\ b.uc = [a.uc EXCEPT ![u] = Idle] /\ b.ref = a2.ref /\ b.path = a2.path
       /\ Relisted(a2, b, a2.listed \ {u})
  BY <1>6, <1>9 DEF Device, AudioDevice, Relisted
<1>12. Relisted(a, b, a.listed \ {u})
  BY <1>5, <1>6, <1>11 DEF Frame, Relisted
<1>13. Shape(b)
  BY <1>1, <1>11, <1>12 DEF Shape, Relisted, Views, Idle
<1>14. PathsOn(a) /\ SharedInput(a) => PathsOn(b)
  BY <1>5, <1>5a, <1>6, <1>11 DEF PathsOn
<1> QED  BY <1>6, <1>7, <1>10, <1>11, <1>12, <1>13, <1>14 DEF Good

-----------------------------------------------------------------------------
(* select_devices for the call, the input and an output. *)

LEMMA AssignListed ==
    ASSUME NEW a, Good(a), NEW u \in a.listed,
           NEW o \in OutSndDevice \union {NONE}, NEW i \in InSndDevice \union {NONE},
           u \in Output => i = NONE, u = "CAPTURE" => o = NONE, Allowed(o),
           NEW b, b = Assign(a, u, o, i)
    PROVE  /\ Good(b) /\ Relisted(a, b, a.listed) /\ Placed(a, b, u, o, i)
           /\ (PathsOn(a) /\ SharedInput(a) => PathsOn(b))
<1>1. /\ Good(b) /\ Frame(a, b) /\ Placed(a, b, u, o, i)
      /\ (PathsOn(a) /\ SharedInput(a) => PathsOn(b))
  BY AssignGood
<1> QED  BY <1>1 DEF Frame, Relisted

(* What the call has been given was allowed. *)
LEMMA CallAllowed ==
    ASSUME NEW a, Good(a)
    PROVE  Allowed(CallDevice(a, "out"))
<1> DEFINE c == a.uc["VOICE_CALL"].out
           x == <<"VOICE_CALL", "out">>
<1>1. Allowed(c)
  <2> SUFFICES ASSUME OneTfaMode, c \in VoiceSpeaker
               PROVE  FALSE
    BY DEF Allowed
  <2>1. x \in Slot /\ c = a.uc[x[1]][x[2]] /\ c \in CodecDevice /\ c \in Parts(c)
    BY AmplifiedType DEF Slot, Usecase, Parts, Combo, NONE
  <2>2. Cardinality(Users(a.uc, c)) >= 1
    BY <2>1, InUse
  <2>3. a.ref[c] = 0 /\ a.ref[c] = Cardinality(Users(a.uc, c))
    BY <2>1 DEF Good, Device, AmpOk, Exact
  <2> QED  BY <2>2, <2>3
<1> QED  BY <1>1, AllowedAlways DEF CallDevice

LEMMA SelectCallGood ==
    ASSUME NEW a, Good(a), "VOICE_CALL" \in a.listed, NEW devs \in OutRoutes,
           NEW s, NEW g \in Misread,
           NEW b, b = SelectCall(a, devs, s, g)
    PROVE  Good(b) /\ Relisted(a, b, a.listed)
<1> DEFINE p == prepare_voice_session(a, devs)
           o == get_output_snd_device(p.mode, voice_session_uses_wideband(p), devs)
           i == get_input_snd_device(p, s, devs, g)
<1>1. Good(p) /\ Relisted(a, p, a.listed)
  <2>1. (~TwoMicDisabled /\ devs \in {{"EARPIECE"}, {"SPEAKER"}}) \in BOOLEAN
    BY TwoMicAssumption
  <2>2. a \in Device
    BY DEF Good
  <2>3. p \in Device
    BY <2>1, <2>2 DEF prepare_voice_session, Device, AudioDevice
  <2>4. p.uc = a.uc /\ p.ref = a.ref /\ Relisted(a, p, a.listed)
    BY <2>2 DEF prepare_voice_session, Device, AudioDevice, Relisted
  <2> QED  BY <2>3, <2>4 DEF Good, Shape, Relisted
<1>2. b = Assign(p, "VOICE_CALL", o, i)
  BY DEF SelectCall
<1>3. p \in Device
  BY <1>1 DEF Good
<1> HIDE DEF p
<1>4. o \in OutSndDevice \union {NONE} /\ i \in InSndDevice \union {NONE}
  BY <1>3, WidebandType, OutChoice, InChoice
<1>4a. Allowed(o)
  BY <1>3, WidebandType, OutAllowed DEF Device, AudioDevice
<1> HIDE DEF o, i
<1>5. "VOICE_CALL" \in p.listed /\ "VOICE_CALL" \notin Output
  BY <1>1 DEF Relisted, Output
<1>6. Good(b) /\ Relisted(p, b, p.listed)
  BY <1>1, <1>2, <1>4, <1>4a, <1>5, AssignListed
<1> QED  BY <1>1, <1>6 DEF Relisted

LEMMA CaptureChoice ==
    ASSUME NEW a, Good(a), NEW os, NEW s, NEW g \in Misread
    PROVE  CaptureDevice(a, os, s, g) \in InSndDevice \union {NONE}
<1>1. a \in Device /\ a.uc \in Views
  BY DEF Good, Device, AudioDevice, Views
<1>2. CallDevice(a, "in") \in InSndDevice \union {NONE}
  BY <1>1, ViewOfItself DEF CallDevice, Usecase
<1>3. g \in InSndDevice \union {NONE}
  BY MisreadAssumption
<1>4. \A devs : get_input_snd_device(a, s, devs, g) \in InSndDevice \union {NONE}
  BY <1>1, InChoice
<1> QED  BY <1>2, <1>3, <1>4 DEF CaptureDevice

LEMMA SelectCaptureGood ==
    ASSUME NEW a, Good(a), "CAPTURE" \in a.listed, NEW os, NEW s, NEW g \in Misread,
           NEW b, b = SelectCapture(a, os, s, g)
    PROVE  Good(b) /\ Relisted(a, b, a.listed)
<1> DEFINE i == CaptureDevice(a, os, s, g)
<1>1. i \in InSndDevice \union {NONE}
  BY CaptureChoice
<1>2. b = Assign(a, "CAPTURE", NONE, i)
  BY DEF SelectCapture
<1> HIDE DEF i
<1> QED  BY <1>1, <1>2, AssignListed, AllowedAlways DEF Output

LEMMA SelectOutputGood ==
    ASSUME NEW a, Good(a), NEW u \in Output, u \in a.listed, NEW os, NEW s, NEW g \in Misread,
           os[u].devices \in OutRoutes,
           NEW b, b = SelectOutput(a, os, s, u, g)
    PROVE  Good(b) /\ Relisted(a, b, a.listed)
<1>0. a \in Device /\ a.uc \in Views /\ "CAPTURE" \notin Output
  BY DEF Good, Device, AudioDevice, Views, Output
<1> DEFINE c == CallDevice(a, "out")
           a1 == IF /\ u = Primary /\ "CAPTURE" \in a.listed
                    /\ s.source = "VOICE_COMMUNICATION"
                 THEN SelectCapture(a, os, s, g) ELSE a
           o == get_output_snd_device(a.mode, voice_session_uses_wideband(a), os[u].devices)
<1>1. c \in OutSndDevice \union {NONE}
  BY <1>0, ViewOfItself DEF CallDevice, Usecase
<1>2. o \in OutSndDevice \union {NONE}
  BY <1>0, WidebandType, OutChoice
<1>2a. Allowed(c) /\ Allowed(o)
  BY <1>0, WidebandType, OutAllowed, CallAllowed DEF Device, AudioDevice
<1>3. Good(a1) /\ Relisted(a, a1, a.listed)
  BY SelectCaptureGood DEF Relisted
<1>4. b = IF c # NONE THEN Assign(a, u, c, NONE) ELSE Assign(a1, u, o, NONE)
  BY DEF SelectOutput
<1> HIDE DEF c, a1, o
<1>5. CASE c # NONE
  BY <1>0, <1>1, <1>2a, <1>4, <1>5, AssignListed
<1>6. CASE c = NONE
  <2>1. u \in a1.listed /\ b = Assign(a1, u, o, NONE)
    BY <1>3, <1>4, <1>6 DEF Relisted
  <2>2. Good(b) /\ Relisted(a1, b, a1.listed)
    BY <1>0, <1>2, <1>2a, <1>3, <2>1, AssignListed
  <2> QED  BY <1>3, <2>2 DEF Relisted
<1> QED  BY <1>5, <1>6

-----------------------------------------------------------------------------
(* Opening and closing a path, starting and stopping the call. *)

LEMMA DisableNone ==
    ASSUME NEW a
    PROVE  disable_snd_device(a, NONE) = a
BY DEF disable_snd_device

LEMMA EnablePathGood ==
    ASSUME NEW a, Good(a), NEW u \in Output, u \notin a.listed,
           NEW os, os[u].devices \in OutRoutes, NEW s, NEW g \in Misread,
           NEW b, b = enable_output_path_l(a, os, s, u, g)
    PROVE  Good(b) /\ Relisted(a, b, a.listed \union {u})
<1> DEFINE a1 == ListAdd(a, u)
<1>1. Good(a1) /\ Relisted(a, a1, a.listed \union {u})
  BY AddGood DEF Usecase
<1>2. b = SelectOutput(a1, os, s, u, g)
  BY DEF enable_output_path_l
<1> HIDE DEF a1
<1>3. Good(b) /\ Relisted(a1, b, a1.listed)
  BY <1>1, <1>2, SelectOutputGood DEF Relisted
<1> QED  BY <1>1, <1>3 DEF Relisted

LEMMA DisablePathGood ==
    ASSUME NEW a, Good(a), NEW u \in Output,
           NEW b, b = disable_output_path_l(a, u)
    PROVE  Good(b) /\ Relisted(a, b, a.listed \ {u})
<1>1. CASE u \notin a.listed
  BY <1>1 DEF disable_output_path_l, Relisted
<1>2. CASE u \in a.listed
  <2>1. a.uc[u].in = NONE
    BY DEF Good, Shape
  <2>2. b = ListRemove(disable_snd_device(disable_snd_device(a, a.uc[u].out), a.uc[u].in), u)
    BY <1>2, <2>1, DisableNone DEF disable_output_path_l
  <2> QED  BY <1>2, <2>2, StopGood
<1> QED  BY <1>1, <1>2

(* A record that differs in fields the counts do not depend on. *)
LEMMA SetActive ==
    ASSUME NEW a, Good(a), NEW t \in BOOLEAN,
           NEW b, b = [a EXCEPT !.active_input = t]
    PROVE  /\ Good(b) /\ b.uc = a.uc /\ b.active_input = t
           /\ b.listed = a.listed /\ b.in_call = a.in_call
           /\ b.ref = a.ref /\ b.path = a.path
<1>1. a \in Device
  BY DEF Good
<1>2. b \in Device
  BY <1>1 DEF Device, AudioDevice
<1>3. /\ b.uc = a.uc /\ b.ref = a.ref /\ b.active_input = t
      /\ b.listed = a.listed /\ b.in_call = a.in_call /\ b.path = a.path
  BY <1>1 DEF Device, AudioDevice
<1> QED  BY <1>2, <1>3 DEF Good, Shape

LEMMA StopInputGood ==
    ASSUME NEW a, Good(a), NEW b, b = stop_input_stream(a)
    PROVE  /\ Good(b) /\ b.listed = a.listed \ {"CAPTURE"}
           /\ b.in_call = a.in_call /\ b.active_input = FALSE
<1> DEFINE u  == "CAPTURE"
           a1 == [a EXCEPT !.active_input = FALSE]
<1>1. /\ Good(a1) /\ a1.uc = a.uc /\ a1.active_input = FALSE
      /\ a1.listed = a.listed /\ a1.in_call = a.in_call
  BY SetActive
<1>2. b = IF u \notin a1.listed THEN a1
          ELSE ListRemove(disable_snd_device(a1, a1.uc[u].in), u)
  BY DEF stop_input_stream
<1> HIDE DEF a1
<1>3. CASE u \notin a1.listed
  BY <1>1, <1>2, <1>3
<1>4. CASE u \in a1.listed
  <2>1. a1.uc[u].out = NONE
    BY <1>1 DEF Good, Shape
  <2>2. b = ListRemove(disable_snd_device(disable_snd_device(a1, a1.uc[u].out), a1.uc[u].in), u)
    BY <1>2, <1>4, <2>1, DisableNone
  <2>3. Good(b) /\ Relisted(a1, b, a1.listed \ {u})
    BY <1>1, <1>4, <2>2, StopGood
  <2> QED  BY <1>1, <2>3 DEF Relisted
<1> QED  BY <1>3, <1>4

LEMMA StopCallGood ==
    ASSUME NEW a, Good(a), NEW b, b = stop_voice_call(a)
    PROVE  /\ Good(b) /\ b.listed = a.listed \ {"VOICE_CALL"}
           /\ b.in_call = FALSE /\ b.active_input = a.active_input
<1> DEFINE u  == "VOICE_CALL"
           a1 == [a EXCEPT !.in_call = FALSE, !.out_device = {}]
<1>1. /\ Good(a1) /\ a1.uc = a.uc /\ a1.active_input = a.active_input
      /\ a1.listed = a.listed /\ a1.in_call = FALSE
  <2>1. a \in Device
    BY DEF Good
  <2>2. a1 \in Device
    BY <2>1 DEF Device, AudioDevice
  <2>3. /\ a1.uc = a.uc /\ a1.ref = a.ref /\ a1.active_input = a.active_input
        /\ a1.listed = a.listed /\ a1.in_call = FALSE
    BY <2>1 DEF Device, AudioDevice
  <2> QED  BY <2>2, <2>3 DEF Good, Shape
<1>2. b = IF u \notin a1.listed THEN a1
          ELSE ListRemove(disable_snd_device(disable_snd_device(a1, a1.uc[u].out),
                                             a1.uc[u].in), u)
  BY DEF stop_voice_call
<1> HIDE DEF a1
<1>3. CASE u \notin a1.listed
  BY <1>1, <1>2, <1>3
<1>4. CASE u \in a1.listed
  <2>1. Good(b) /\ Relisted(a1, b, a1.listed \ {u})
    BY <1>1, <1>2, <1>4, StopGood
  <2> QED  BY <1>1, <2>1 DEF Relisted
<1> QED  BY <1>3, <1>4

LEMMA StartCallGood ==
    ASSUME NEW a, Good(a), "VOICE_CALL" \notin a.listed, NEW devs \in OutRoutes,
           NEW s, NEW g \in Misread,
           NEW b, b = start_voice_call(a, devs, s, g)
    PROVE  /\ Good(b) /\ b.listed = a.listed \union {"VOICE_CALL"}
           /\ b.in_call = TRUE /\ b.active_input = a.active_input
<1> DEFINE a1 == ListAdd(a, "VOICE_CALL")
           a2 == [a1 EXCEPT !.in_call = TRUE]
<1>1. Good(a1) /\ Relisted(a, a1, a.listed \union {"VOICE_CALL"})
  BY AddGood DEF Usecase
<1> HIDE DEF a1
<1>2. /\ Good(a2) /\ a2.active_input = a1.active_input
      /\ a2.listed = a1.listed /\ a2.in_call = TRUE
  <2>1. a1 \in Device
    BY <1>1 DEF Good
  <2>2. a2 \in Device
    BY <2>1 DEF Device, AudioDevice
  <2>3. /\ a2.uc = a1.uc /\ a2.ref = a1.ref /\ a2.active_input = a1.active_input
        /\ a2.listed = a1.listed /\ a2.in_call = TRUE
    BY <2>1 DEF Device, AudioDevice
  <2> QED  BY <1>1, <2>2, <2>3 DEF Good, Shape
<1>3. b = SelectCall(a2, devs, s, g)
  BY DEF start_voice_call, a1
<1> HIDE DEF a2
<1>4. Good(b) /\ Relisted(a2, b, a2.listed)
  BY <1>1, <1>2, <1>3, SelectCallGood DEF Relisted
<1> QED  BY <1>1, <1>2, <1>4 DEF Relisted

LEMMA OffloadParametersGood ==
    ASSUME NEW a, Good(a), "OFFLOAD" \in a.listed,
           NEW b, b = out_set_offload_parameters(a)
    PROVE  /\ Good(b) /\ Relisted(a, b, a.listed) /\ (PathsOn(a) => PathsOn(b))
           /\ \/ b = a
              \/ /\ b.uc["OFFLOAD"].out = "HEADPHONES"
                 /\ \A v \in Usecase \ {"OFFLOAD"} : b.uc[v] = a.uc[v]
<1>1. CASE a.uc["OFFLOAD"].out # Combo
  BY <1>1 DEF out_set_offload_parameters, Relisted
<1>2. CASE a.uc["OFFLOAD"].out = Combo
  <2> DEFINE u  == "OFFLOAD"
             x  == <<u, "out">>
             uc == [a.uc EXCEPT ![u] = [out |-> "HEADPHONES", in |-> a.uc[u].in]]
             a1 == [a EXCEPT !.uc = uc]
  <2>1. /\ a \in Device /\ u \in Usecase /\ a.uc \in [Usecase -> SndUse]
        /\ Exact(a.ref, a.uc) /\ Shape(a)
    BY DEF Good, Device, AudioDevice
  <2>2. a.uc[u] \in SndUse
    BY <2>1
  <2>3. uc \in [Usecase -> SndUse]
    BY <2>1, <2>2 DEF SndUse, OutSndDevice, MediaOut
  <2>4. /\ x \in Slot /\ DifferAt(a.uc, uc, x)
        /\ uc[u].out = "HEADPHONES" /\ uc[u].in = a.uc[u].in
    BY <2>1 DEF Slot, DifferAt
  <2>5. b = disable_snd_device(a1, "SPEAKER")
    <3>1. [a.uc[u] EXCEPT !.out = "HEADPHONES"] = [out |-> "HEADPHONES", in |-> a.uc[u].in]
      BY <2>2 DEF SndUse
    <3> QED  BY <1>2, <3>1 DEF out_set_offload_parameters
  <2>6. /\ a1 \in Device /\ a1.ref = a.ref /\ a1.uc = uc
        /\ Relisted(a, a1, a.listed)
    BY <2>1, <2>3 DEF Device, AudioDevice, Relisted
  <2>14. a1.path = a.path
    BY <2>1 DEF Device, AudioDevice
  <2> HIDE DEF uc, a1
  <2>7. \A d \in CodecDevice :
           Cardinality(Users(uc, d)) = IF d = "SPEAKER" THEN a.ref[d] - 1 ELSE a.ref[d]
    <3> TAKE d \in CodecDevice
    <3>1. Parts(Combo) = {"SPEAKER", "HEADPHONES"} /\ Parts("HEADPHONES") = {"HEADPHONES"}
      BY DEF Parts, Combo, NONE
    <3>2. CASE d = "HEADPHONES"
      <4>1. \A y \in Slot : d \in Parts(uc[y[1]][y[2]]) <=> d \in Parts(a.uc[y[1]][y[2]])
        BY <1>2, <2>4, <3>1, <3>2 DEF DifferAt
      <4>2. Users(uc, d) = Users(a.uc, d)
        BY <4>1 DEF Users, Slot
      <4> QED  BY <2>1, <3>2, <4>2 DEF Exact
    <3>3. CASE d # "HEADPHONES"
      <4>1. d \notin Parts(uc[x[1]][x[2]])
        BY <2>4, <3>1, <3>3
      <4>2. d \in Parts(a.uc[x[1]][x[2]]) <=> d = "SPEAKER"
        BY <1>2, <3>1, <3>3
      <4>3. Cardinality(Users(uc, d)) =
               IF d \in Parts(a.uc[x[1]][x[2]]) THEN Cardinality(Users(a.uc, d)) - 1
                                                ELSE Cardinality(Users(a.uc, d))
        BY <2>4, <4>1, Released
      <4> QED  BY <2>1, <4>2, <4>3 DEF Exact
    <3> QED  BY <3>2, <3>3
  <2>8. "SPEAKER" \in CodecDevice /\ a1.ref["SPEAKER"] >= 1
    <3>1. "SPEAKER" \in CodecDevice
      BY DEF CodecDevice, OutSndDevice, MediaOut, Combo
    <3>2. Cardinality(Users(uc, "SPEAKER")) \in Nat /\ a.ref["SPEAKER"] \in Nat
      BY <2>1, <3>1, UsersFinite DEF Device, AudioDevice
    <3> QED  BY <2>6, <2>7, <3>1, <3>2
  <2>9. /\ b \in Device /\ Frame(a1, b) /\ b.uc = a1.uc
        /\ b.ref = [a1.ref EXCEPT !["SPEAKER"] = @ - 1]
    <3>1. b = DisableOne(a1, "SPEAKER")
      BY <2>5 DEF disable_snd_device, Combo, NONE
    <3> QED  BY <2>6, <2>8, <3>1, DisableOneEffect
  <2>10. Exact(b.ref, b.uc)
    BY <2>1, <2>6, <2>7, <2>9 DEF Exact, Device, AudioDevice
  <2>11. Relisted(a, b, a.listed)
    BY <2>6, <2>9 DEF Relisted, Frame
  <2>12. Shape(b)
    <3>1. \A v \in Usecase : v # u => b.uc[v] = a.uc[v]
      BY <2>1, <2>6, <2>9 DEF uc
    <3> QED  BY <2>1, <2>4, <2>6, <2>9, <2>11, <3>1 DEF Shape, Relisted, Usecase, Output
  <2>13. PathsOn(a) => PathsOn(b)
    <3>1. PathsOn(a) => PathsOn(a1)
      BY <2>6, <2>14 DEF PathsOn
    <3>2. b = DisableOne(a1, "SPEAKER")
      BY <2>5 DEF disable_snd_device, Combo, NONE
    <3>3. "SPEAKER" \in OutSndDevice \ {Combo}
      BY DEF OutSndDevice, MediaOut, Combo
    <3> QED  BY <2>6, <2>8, <3>1, <3>2, <3>3, DisableOneOutPaths
  <2>15. \A v \in Usecase \ {u} : b.uc[v] = a.uc[v]
    BY <2>1, <2>6, <2>9 DEF uc
  <2> QED  BY <2>4, <2>6, <2>9, <2>10, <2>11, <2>12, <2>13, <2>15 DEF Good
<1> QED  BY <1>1, <1>2

-----------------------------------------------------------------------------
(* The inductive invariant.                                                *)

(* Only the compressed output has a play state, and only out of standby.   *)
PlayStates ==
    \A o \in Streams : (o # "OFFLOAD" \/ out[o].standby) => out[o].state = "IDLE"

IInv ==
    /\ TypeOK
    /\ Good(adev)
    /\ UsecasesMatchStreams
    /\ ActiveInputRuns
    /\ ResetInputStaysActive
    /\ PlayStates

(* The part of it that relates the device record to the streams: what an   *)
(* action that leaves the record well formed has to show.                  *)
Matches(a, os, s) ==
    /\ \A o \in Output : o \in a.listed <=>
          /\ o \in Streams /\ ~os[o].standby
          /\ os[o].state \notin {"PAUSED", "PAUSED_FLUSHED"}
    /\ "CAPTURE" \in a.listed <=> ~s.standby
    /\ "VOICE_CALL" \in a.listed <=> a.in_call
    /\ a.active_input <=> ~s.standby

PlayState  == {"IDLE", "PLAYING", "PAUSED", "PAUSED_FLUSHED"}
StreamType == [devices : OutRoutes, standby : BOOLEAN, state : PlayState]
OutType    == [Streams -> StreamType]
InType     == [source : Sources, device : InRoutes, aec : BOOLEAN, standby : BOOLEAN]

LEMMA IInvParts ==
    IInv <=> /\ Good(adev) /\ out \in OutType /\ in \in InType
             /\ lock_inputs \in {"free", "reset", "leaked"}
             /\ Matches(adev, out, in)
             /\ ResetInputStaysActive
             /\ PlayStates
<1>1. Good(adev) => adev \in AudioDevice /\ \A u \in Usecase \ adev.listed : adev.uc[u] = Idle
  BY DEF Good, Shape, Device
<1> QED  BY <1>1 DEF IInv, TypeOK, UsecasesMatchStreams, ActiveInputRuns, Matches, OutType,
                     StreamType, PlayState, InType

(* The same for the next state. *)
LEMMA IInvPrime ==
    ASSUME Good(adev'), out' \in OutType, in' \in InType,
           lock_inputs' \in {"free", "reset", "leaked"},
           Matches(adev', out', in'),
           lock_inputs' = "reset" => adev'.active_input /\ ~in'.standby,
           \A o \in Streams : (o # "OFFLOAD" \/ out'[o].standby) => out'[o].state = "IDLE"
    PROVE  IInv'
<1>1. Good(adev') => adev' \in AudioDevice /\ \A u \in Usecase \ adev'.listed : adev'.uc[u] = Idle
  BY DEF Good, Shape, Device
<1> QED  BY <1>1 DEF IInv, TypeOK, UsecasesMatchStreams, ActiveInputRuns, Matches, OutType,
                     StreamType, PlayState, InType, ResetInputStaysActive, PlayStates

LEMMA InitIInv ==
    ASSUME Init
    PROVE  IInv
<1>1. adev \in AudioDevice /\ AmpOk(adev.ref, adev.amp)
  <2>1. Idle \in SndUse
    BY DEF Idle, SndUse
  <2>2. AmpClosed \in Amp
    BY DEF AmpClosed, Amp
  <2>3. AmpOk(adev.ref, adev.amp)
    <3>1. adev.ref = [d \in CodecDevice |-> 0] /\ adev.amp = AmpClosed
      BY DEF Init
    <3>2. AmpClosed.refcount = [m \in TfaMode |-> 0] /\ AmpClosed.powered = FALSE
      BY DEF AmpClosed
    <3>3. OneIf(0) = 0
      BY DEF OneIf
    <3> QED  BY <3>1, <3>2, <3>3, AmplifiedType DEF AmpOk
  <2> QED  BY <2>1, <2>2, <2>3, ModesAssumption, WidebandAssumption DEF Init, AudioDevice
<1>2. Shape(adev)
  BY DEF Init, Shape, Usecase, Output, Idle
<1>3. Exact(adev.ref, adev.uc)
  <2>1. \A d : Users(adev.uc, d) = {}
    BY DEF Init, Users, Idle, Parts, Combo, NONE
  <2> QED  BY <2>1, FS_EmptySet DEF Init, Exact
<1>4. PICK r \in OutRoutes :
         out = [o \in Streams |-> [devices |-> r, standby |-> TRUE, state |-> "IDLE"]]
  BY DEF Init
<1>5. out \in OutType /\ \A o \in Streams : out[o].standby /\ out[o].state = "IDLE"
  BY <1>4 DEF OutType, StreamType, PlayState
<1>6. in \in InType /\ in.standby /\ lock_inputs = "free"
  BY DEF Init, InType
<1>7. adev.listed = {} /\ adev.in_call = FALSE /\ adev.active_input = FALSE
  BY DEF Init
<1>8. Matches(adev, out, in) /\ PlayStates
  BY <1>5, <1>6, <1>7 DEF Matches, PlayStates
<1> QED  BY <1>1, <1>2, <1>3, <1>5, <1>6, <1>8, IInvParts DEF Good, Device, ResetInputStaysActive

-----------------------------------------------------------------------------
(* Every action preserves it. *)

LEMMA OutWriteStartStep ==
    ASSUME IInv, NEW o \in Streams, NEW g \in Misread, OutWriteStart(o, g)
    PROVE  IInv'
<1>1. /\ Good(adev) /\ out \in OutType /\ in \in InType /\ Matches(adev, out, in) /\ PlayStates
      /\ o \in Output
  BY IInvParts, StreamsAssumption
<1>2. o \notin adev.listed /\ out[o].standby
  BY <1>1 DEF OutWriteStart, Matches
<1>2a. out[o].devices \in OutRoutes
  BY <1>1 DEF OutType, StreamType
<1>3. Good(adev') /\ Relisted(adev, adev', adev.listed \union {o})
  BY <1>1, <1>2, <1>2a, EnablePathGood DEF OutWriteStart
<1>5. out[o].state = "IDLE"
  BY <1>1, <1>2 DEF PlayStates
<1>6. /\ out' \in OutType
      /\ out'[o].standby = FALSE
      /\ out'[o].state = IF o = "OFFLOAD" THEN "PLAYING" ELSE "IDLE"
      /\ \A p \in Streams : p # o => out'[p] = out[p]
  <2>1. out' = [out EXCEPT ![o].standby = FALSE,
                           ![o].state = IF o = "OFFLOAD" THEN "PLAYING" ELSE @]
    BY DEF OutWriteStart
  <2>2. out' \in OutType
    BY <1>1, <1>5, <2>1 DEF OutType, StreamType, PlayState
  <2>3. out'[o].standby = FALSE
    BY <1>1, <1>5, <2>1 DEF OutType, StreamType, PlayState
  <2>4. out'[o].state = IF o = "OFFLOAD" THEN "PLAYING" ELSE "IDLE"
    BY <1>1, <1>5, <2>1 DEF OutType, StreamType, PlayState
  <2>5. \A p \in Streams : p # o => out'[p] = out[p]
    BY <1>1, <1>5, <2>1 DEF OutType, StreamType, PlayState
  <2> QED  BY <2>2, <2>3, <2>4, <2>5
<1>7. in' = in /\ lock_inputs' \in {"free", "reset", "leaked"}
  BY DEF OutWriteStart
<1>8. Matches(adev', out', in')
  BY <1>1, <1>3, <1>6, <1>7 DEF Matches, Relisted, Output
<1>9. lock_inputs' = "reset" => adev'.active_input /\ ~in'.standby
  BY <1>1, <1>3, <1>7 DEF OutWriteStart, TalkInput, Relisted, Matches
<1>10. \A p \in Streams : (p # "OFFLOAD" \/ out'[p].standby) => out'[p].state = "IDLE"
  BY <1>1, <1>6 DEF PlayStates
<1> QED  BY <1>1, <1>3, <1>6, <1>7, <1>8, <1>9, <1>10, IInvPrime

LEMMA OutWriteStartFailsStep ==
    ASSUME IInv, NEW o \in Streams, NEW g \in Misread, OutWriteStartFails(o, g)
    PROVE  IInv'
<1>1. /\ Good(adev) /\ out \in OutType /\ in \in InType /\ Matches(adev, out, in) /\ PlayStates
      /\ o \in Output
  BY IInvParts, StreamsAssumption
<1>2. o \notin adev.listed
  BY <1>1 DEF OutWriteStartFails, Matches
<1>2a. out[o].devices \in OutRoutes
  BY <1>1 DEF OutType, StreamType
<1>3. Good(adev') /\ Relisted(adev, adev', adev.listed)
  <2> DEFINE a == enable_output_path_l(adev, out, in, o, g)
  <2>1. Good(a) /\ Relisted(adev, a, adev.listed \union {o})
    BY <1>1, <1>2, <1>2a, EnablePathGood
  <2>2. adev' = disable_output_path_l(a, o)
    BY DEF OutWriteStartFails
  <2> HIDE DEF a
  <2>3. Good(adev') /\ Relisted(a, adev', a.listed \ {o})
    BY <1>1, <2>1, <2>2, DisablePathGood
  <2> QED  BY <1>2, <2>1, <2>3 DEF Relisted
<1>4. UNCHANGED <<out, in, lock_inputs>> /\ lock_inputs = "free"
  BY DEF OutWriteStartFails
<1>5. Matches(adev', out', in')
  BY <1>1, <1>3, <1>4 DEF Matches, Relisted
<1> QED  BY <1>1, <1>3, <1>4, <1>5, IInvPrime DEF PlayStates

LEMMA OutStandbyStep ==
    ASSUME IInv, NEW o \in Streams, OutStandby(o)
    PROVE  IInv'
<1>1. /\ Good(adev) /\ out \in OutType /\ in \in InType /\ Matches(adev, out, in) /\ PlayStates
      /\ lock_inputs \in {"free", "reset", "leaked"} /\ ResetInputStaysActive
      /\ o \in Output
  BY IInvParts, StreamsAssumption
<1>2. Good(adev') /\ Relisted(adev, adev', adev.listed \ {o})
  <2>1. CASE out[o].state \in {"PAUSED", "PAUSED_FLUSHED"}
    <3>1. adev' = adev /\ o \notin adev.listed
      BY <1>1, <2>1 DEF OutStandby, stop_output_stream, Matches
    <3> QED  BY <1>1, <3>1 DEF Relisted
  <2>2. CASE out[o].state \notin {"PAUSED", "PAUSED_FLUSHED"}
    <3>1. adev' = disable_output_path_l(adev, o)
      BY <2>2 DEF OutStandby, stop_output_stream
    <3> QED  BY <1>1, <3>1, DisablePathGood
  <2> QED  BY <2>1, <2>2
<1>5. /\ out' \in OutType
      /\ out'[o].standby = TRUE /\ out'[o].state = "IDLE"
      /\ \A p \in Streams : p # o => out'[p] = out[p]
  <2>1. out' = [out EXCEPT ![o].standby = TRUE, ![o].state = "IDLE"]
    BY DEF OutStandby
  <2>2. out' \in OutType
    BY <1>1, <2>1 DEF OutType, StreamType, PlayState
  <2>3. out'[o].standby = TRUE
    BY <1>1, <2>1 DEF OutType, StreamType, PlayState
  <2>4. out'[o].state = "IDLE"
    BY <1>1, <2>1 DEF OutType, StreamType, PlayState
  <2>5. \A p \in Streams : p # o => out'[p] = out[p]
    BY <1>1, <2>1 DEF OutType, StreamType, PlayState
  <2> QED  BY <2>2, <2>3, <2>4, <2>5
<1>6. UNCHANGED <<in, lock_inputs>>
  BY DEF OutStandby
<1>7. Matches(adev', out', in')
  BY <1>1, <1>2, <1>5, <1>6 DEF Matches, Relisted, Output
<1>8. lock_inputs' = "reset" => adev'.active_input /\ ~in'.standby
  BY <1>1, <1>2, <1>6 DEF Relisted, ResetInputStaysActive
<1>9. \A p \in Streams : (p # "OFFLOAD" \/ out'[p].standby) => out'[p].state = "IDLE"
  BY <1>1, <1>5 DEF PlayStates
<1> QED  BY <1>1, <1>2, <1>5, <1>6, <1>7, <1>8, <1>9, IInvPrime

(* The Bluetooth part of out_set_parameters does not touch the routing. *)
LEMMA SetScoGood ==
    ASSUME NEW a, Good(a), NEW devs, NEW b, b = SetSco(a, devs)
    PROVE  Good(b) /\ Relisted(a, b, a.listed)
<1>1. a \in Device
  BY DEF Good
<1>s. b \in {a, [ a EXCEPT !.bt_sco_active = TRUE ], [ a EXCEPT !.bt_sco_active = FALSE ],
             [ a EXCEPT !.bt_sco_active = FALSE, !.out_device = {} ]}
  BY <1>1 DEF SetSco, Device, AudioDevice
<1>2. b \in Device
  <2>1. CASE b = a
    BY <1>1, <2>1
  <2>2. CASE b \in {[ a EXCEPT !.bt_sco_active = TRUE ], [ a EXCEPT !.bt_sco_active = FALSE ]}
    BY <1>1, <2>2 DEF Device, AudioDevice
  <2>3. CASE b = [ a EXCEPT !.bt_sco_active = FALSE, !.out_device = {} ]
    BY <1>1, <2>3 DEF Device, AudioDevice
  <2> QED  BY <1>s, <2>1, <2>2, <2>3
<1>c. DOMAIN a = {"mode", "in_call", "bt_sco_active", "bluetooth_wb", "wb_amr_type", "out_device",
                  "two_mic", "active_input", "listed", "ahead", "uc", "ref", "path", "amp"}
  BY <1>1 DEF Device, AudioDevice
<1>3. b.uc = a.uc /\ b.ref = a.ref /\ Relisted(a, b, a.listed)
  BY <1>c, <1>s DEF Relisted
<1>4. b.listed = a.listed
  BY <1>3 DEF Relisted
<1>5. Shape(b)
  BY <1>3, <1>4 DEF Good, Shape
<1> QED  BY <1>2, <1>3, <1>4, <1>5 DEF Good

LEMMA SetCallGood ==
    ASSUME NEW a, Good(a), "VOICE_CALL" \in a.listed <=> a.in_call,
           NEW o, NEW devs \in OutRoutes, NEW g \in Misread,
           NEW b, b = SetCall(a, o, devs, g)
    PROVE  /\ Good(b) /\ b.active_input = a.active_input
           /\ b.listed \ {"VOICE_CALL"} = a.listed \ {"VOICE_CALL"}
           /\ "VOICE_CALL" \in b.listed <=> b.in_call
<1>1. CASE a.mode # "IN_CALL" \/ o # Primary
  BY <1>1 DEF SetCall
<1>2. CASE ~(a.mode # "IN_CALL" \/ o # Primary)
  <2> DEFINE a1 == IF a.in_call THEN stop_voice_call(a) ELSE a
  <2>1. /\ Good(a1) /\ a1.active_input = a.active_input
        /\ a1.listed = a.listed \ {"VOICE_CALL"}
    BY StopCallGood
  <2>2. b = start_voice_call(a1, devs, in, g)
    BY <1>2 DEF SetCall
  <2> HIDE DEF a1
  <2>3. /\ Good(b) /\ b.listed = a1.listed \union {"VOICE_CALL"}
        /\ b.in_call = TRUE /\ b.active_input = a1.active_input
    BY <2>1, <2>2, StartCallGood
  <2> QED  BY <2>1, <2>3
<1> QED  BY <1>1, <1>2

LEMMA OutSetParametersStep ==
    ASSUME IInv, NEW o \in Streams, NEW devs \in OutRoutes, NEW g \in Misread,
           OutSetParameters(o, devs, g)
    PROVE  IInv'
<1>1. /\ Good(adev) /\ out \in OutType /\ in \in InType /\ Matches(adev, out, in) /\ PlayStates
      /\ o \in Output
  BY IInvParts, StreamsAssumption
<1>2. /\ out' \in OutType
      /\ \A p \in Streams : out'[p].standby = out[p].standby /\ out'[p].state = out[p].state
  <2>1. out' = [out EXCEPT ![o].devices = devs]
    BY DEF OutSetParameters
  <2> QED  BY <1>1, <2>1 DEF OutType, StreamType
<1>3. in' = in /\ lock_inputs' \in {"free", "reset"}
  BY DEF OutSetParameters
<1> DEFINE offl == IF o = "OFFLOAD" THEN out_set_offload_parameters(adev) ELSE adev
           sel  == IF out[o].standby \/ o \notin adev.listed THEN adev
                   ELSE SelectOutput(offl, out', in, o, g)
           sco  == SetSco(sel, devs)
<1>4. adev' = SetCall(sco, o, devs, g)
  BY DEF OutSetParameters
<1>5. Good(sel) /\ Relisted(adev, sel, adev.listed)
  <2>1. CASE out[o].standby \/ o \notin adev.listed
    BY <1>1, <2>1 DEF Relisted
  <2>2. CASE ~(out[o].standby \/ o \notin adev.listed)
    <3>1. Good(offl) /\ Relisted(adev, offl, adev.listed)
      BY <1>1, <2>2, OffloadParametersGood DEF Relisted
    <3>2. sel = SelectOutput(offl, out', in, o, g)
      BY <2>2
    <3> HIDE DEF offl, sel
    <3>2a. out'[o].devices \in OutRoutes
      BY <1>2 DEF OutType, StreamType
    <3>3. Good(sel) /\ Relisted(offl, sel, offl.listed)
      BY <1>1, <2>2, <3>1, <3>2, <3>2a, SelectOutputGood DEF Relisted
    <3> QED  BY <3>1, <3>3 DEF Relisted
  <2> QED  BY <2>1, <2>2
<1> HIDE DEF sel
<1>6. Good(sco) /\ Relisted(sel, sco, sel.listed)
  BY <1>5, SetScoGood
<1> HIDE DEF sco
<1>7. "VOICE_CALL" \in sco.listed <=> sco.in_call
  BY <1>1, <1>5, <1>6 DEF Relisted, Matches
<1>8. /\ Good(adev') /\ adev'.active_input = sco.active_input
      /\ adev'.listed \ {"VOICE_CALL"} = sco.listed \ {"VOICE_CALL"}
      /\ "VOICE_CALL" \in adev'.listed <=> adev'.in_call
  BY <1>4, <1>6, <1>7, SetCallGood
<1>9. adev'.active_input = adev.active_input /\ \A u \in Usecase \ {"VOICE_CALL"} :
         u \in adev'.listed <=> u \in adev.listed
  BY <1>5, <1>6, <1>8 DEF Relisted
<1>10. Matches(adev', out', in')
  BY <1>1, <1>2, <1>3, <1>8, <1>9 DEF Matches, Usecase, Output
<1>11. lock_inputs' = "reset" => adev'.active_input /\ ~in'.standby
  BY <1>1, <1>3, <1>9 DEF OutSetParameters, TalkInput, Matches
<1>12. \A p \in Streams : (p # "OFFLOAD" \/ out'[p].standby) => out'[p].state = "IDLE"
  BY <1>1, <1>2 DEF PlayStates
<1> QED  BY <1>1, <1>2, <1>3, <1>8, <1>10, <1>11, <1>12, IInvPrime

(* The compressed output enters play state st while it is out of standby. *)
LEMMA PlayStateStep ==
    ASSUME IInv, "OFFLOAD" \in Streams, ~out["OFFLOAD"].standby,
           NEW st \in {"PLAYING", "PAUSED", "PAUSED_FLUSHED"},
           out' = [out EXCEPT !["OFFLOAD"].state = st], UNCHANGED <<in, lock_inputs>>,
           Good(adev'),
           Relisted(adev, adev', IF st = "PLAYING" THEN adev.listed \union {"OFFLOAD"}
                                                   ELSE adev.listed \ {"OFFLOAD"})
    PROVE  IInv'
<1>1. /\ out \in OutType /\ in \in InType /\ Matches(adev, out, in) /\ PlayStates
      /\ lock_inputs \in {"free", "reset", "leaked"} /\ ResetInputStaysActive
  BY IInvParts
<1>2. out' \in OutType
  BY <1>1 DEF OutType, StreamType, PlayState
<1>3. /\ out'["OFFLOAD"].state = st /\ ~out'["OFFLOAD"].standby
      /\ \A p \in Streams : p # "OFFLOAD" => out'[p] = out[p]
  BY <1>1 DEF OutType, StreamType, PlayState
<1>4. Matches(adev', out', in')
  BY <1>1, <1>3 DEF Matches, Relisted, Output
<1>5. lock_inputs' = "reset" => adev'.active_input /\ ~in'.standby
  BY <1>1 DEF Relisted, ResetInputStaysActive
<1>6. \A p \in Streams : (p # "OFFLOAD" \/ out'[p].standby) => out'[p].state = "IDLE"
  BY <1>1, <1>3 DEF PlayStates
<1> QED  BY <1>1, <1>2, <1>4, <1>5, <1>6, IInvPrime

LEMMA OffloadStepStep ==
    ASSUME IInv, OffloadStep
    PROVE  IInv'
<1>1. /\ Good(adev) /\ out \in OutType /\ Matches(adev, out, in) /\ PlayStates
      /\ "OFFLOAD" \in Streams /\ "OFFLOAD" \in Output
  BY IInvParts DEF OffloadStep, Output
<1>2. out["OFFLOAD"].state # "IDLE" => ~out["OFFLOAD"].standby
  BY <1>1 DEF PlayStates
<1>3. out["OFFLOAD"].state # "IDLE" =>
         ("OFFLOAD" \in adev.listed <=> out["OFFLOAD"].state \notin {"PAUSED", "PAUSED_FLUSHED"})
  BY <1>1, <1>2 DEF Matches
<1>4. CASE OffloadPause
  <2>1. Good(adev') /\ Relisted(adev, adev', adev.listed \ {"OFFLOAD"})
    BY <1>1, <1>4, DisablePathGood DEF OffloadPause
  <2> QED  BY <1>1, <1>2, <1>4, <2>1, PlayStateStep DEF OffloadPause
<1>5. CASE OffloadFlush
  <2>1. Good(adev') /\ Relisted(adev, adev', adev.listed \ {"OFFLOAD"})
    BY <1>1, <1>3, <1>5 DEF OffloadFlush, Relisted
  <2> QED  BY <1>1, <1>2, <1>5, <2>1, PlayStateStep DEF OffloadFlush
<1>6. ASSUME NEW g \in Misread, OffloadResume(g) \/ OffloadWrite(g)
      PROVE  IInv'
  <2>1. "OFFLOAD" \notin adev.listed /\ out["OFFLOAD"].state # "IDLE"
    BY <1>3, <1>6 DEF OffloadResume, OffloadWrite
  <2>2. adev' = enable_output_path_l(adev, out, in, "OFFLOAD", g)
    BY <1>6 DEF OffloadResume, OffloadWrite
  <2>3. Good(adev') /\ Relisted(adev, adev', adev.listed \union {"OFFLOAD"})
    <3>1. out["OFFLOAD"].devices \in OutRoutes
      BY <1>1 DEF OutType, StreamType
    <3> QED  BY <1>1, <2>1, <2>2, <3>1, EnablePathGood
  <2> QED  BY <1>1, <1>2, <1>6, <2>1, <2>3, PlayStateStep DEF OffloadResume, OffloadWrite
<1> QED  BY <1>4, <1>5, <1>6 DEF OffloadStep

(* An action of the input stream: the capture usecase, active_input and    *)
(* the stream's standby flag change together, and only while no forced     *)
(* standby is under way, or as its end.                                    *)
LEMMA InputChange ==
    ASSUME IInv, out' = out, in' \in InType, lock_inputs' = "free", Good(adev'),
           adev'.in_call = adev.in_call,
           adev'.listed \ {"CAPTURE"} = adev.listed \ {"CAPTURE"},
           "CAPTURE" \in adev'.listed <=> ~in'.standby,
           adev'.active_input <=> ~in'.standby
    PROVE  IInv'
<1>1. out \in OutType /\ Matches(adev, out, in) /\ PlayStates
  BY IInvParts
<1>2. \A u \in Usecase \ {"CAPTURE"} : u \in adev'.listed <=> u \in adev.listed
  OBVIOUS
<1>3. Matches(adev', out', in')
  BY <1>1, <1>2 DEF Matches, Usecase, Output
<1>4. out' \in OutType /\ \A p \in Streams : out'[p] = out[p]
  BY <1>1
<1> QED  BY <1>1, <1>3, <1>4, IInvPrime DEF PlayStates

LEMMA StopInputStep ==
    ASSUME IInv, NEW a, Good(a), a.in_call = adev.in_call,
           a.listed \ {"CAPTURE"} = adev.listed \ {"CAPTURE"},
           adev' = stop_input_stream(a), out' = out, in' \in InType, in'.standby,
           lock_inputs' = "free"
    PROVE  IInv'
<1>1. /\ Good(adev') /\ adev'.listed = a.listed \ {"CAPTURE"}
      /\ adev'.in_call = a.in_call /\ adev'.active_input = FALSE
  BY StopInputGood
<1> QED  BY <1>1, InputChange

LEMMA InTypeSet ==
    ASSUME NEW s \in InType
    PROVE  /\ [s EXCEPT !.standby = TRUE] \in InType
           /\ [s EXCEPT !.standby = TRUE].standby
           /\ [s EXCEPT !.standby = FALSE] \in InType
           /\ ~[s EXCEPT !.standby = FALSE].standby
           /\ s.standby => [s EXCEPT !.standby = TRUE] = s
BY DEF InType

LEMMA ResetInputStep ==
    ASSUME IInv, ResetInput
    PROVE  IInv'
<1>1. Good(adev) /\ in \in InType /\ ~in.standby
  BY IInvParts DEF ResetInput, ResetInputStaysActive
<1>2. in' \in InType /\ in'.standby
  BY <1>1, InTypeSet DEF ResetInput
<1> QED  BY <1>1, <1>2, StopInputStep DEF ResetInput

LEMMA InStandbyStep ==
    ASSUME IInv, InStandby
    PROVE  IInv'
<1>1. Good(adev) /\ in \in InType
  BY IInvParts
<1>2. in' \in InType /\ in'.standby
  BY <1>1, InTypeSet DEF InStandby
<1> QED  BY <1>1, <1>2, StopInputStep DEF InStandby

LEMMA InReadStartStep ==
    ASSUME IInv, NEW g \in Misread, InReadStart(g)
    PROVE  IInv'
<1>1. Good(adev) /\ in \in InType /\ "CAPTURE" \notin adev.listed
  BY IInvParts DEF InReadStart, Matches
<1> DEFINE a1 == ListAdd(adev, "CAPTURE")
           a2 == [a1 EXCEPT !.active_input = TRUE]
<1>2. /\ Good(adev') /\ adev'.listed = adev.listed \union {"CAPTURE"}
      /\ adev'.in_call = adev.in_call /\ adev'.active_input = TRUE
  <2>1. Good(a1) /\ Relisted(adev, a1, adev.listed \union {"CAPTURE"})
    BY <1>1, AddGood DEF Usecase
  <2>2. adev' = SelectCapture(a2, out, in, g)
    BY DEF InReadStart
  <2> HIDE DEF a1
  <2>3. /\ Good(a2) /\ a2.active_input = TRUE
        /\ a2.listed = a1.listed /\ a2.in_call = a1.in_call
    BY <2>1, SetActive
  <2> HIDE DEF a2
  <2>4. Good(adev') /\ Relisted(a2, adev', a2.listed)
    BY <2>1, <2>2, <2>3, SelectCaptureGood DEF Relisted
  <2> QED  BY <2>1, <2>3, <2>4 DEF Relisted
<1>3. in' \in InType /\ ~in'.standby
  BY <1>1, InTypeSet DEF InReadStart
<1>4. out' = out /\ lock_inputs' = "free"
  BY DEF InReadStart
<1> QED  BY <1>2, <1>3, <1>4, InputChange

LEMMA InReadStartFailsStep ==
    ASSUME IInv, NEW g \in Misread, InReadStartFails(g)
    PROVE  IInv'
<1>1. Good(adev) /\ in \in InType /\ "CAPTURE" \notin adev.listed /\ in.standby
  BY IInvParts DEF InReadStartFails, Matches
<1>2. out' = out /\ lock_inputs' = "free" /\ in' = in
  BY DEF InReadStartFails
<1>3. CASE in.device \in CaptureProfile
  <2> DEFINE a1 == ListAdd(adev, "CAPTURE")
             a  == SelectCapture(a1, out, in, g)
  <2>1. Good(a1) /\ Relisted(adev, a1, adev.listed \union {"CAPTURE"})
    BY <1>1, AddGood DEF Usecase
  <2>2. adev' = stop_input_stream(a)
    BY <1>3 DEF InReadStartFails
  <2> HIDE DEF a1
  <2>3. Good(a) /\ Relisted(a1, a, a1.listed)
    BY <2>1, SelectCaptureGood DEF Relisted
  <2>4. a.listed = adev.listed \union {"CAPTURE"} /\ a.in_call = adev.in_call
    BY <2>1, <2>3 DEF Relisted
  <2> HIDE DEF a
  <2> QED  BY <1>1, <1>2, <2>2, <2>3, <2>4, StopInputStep
<1>4. CASE in.device \notin CaptureProfile
  <2>1. adev' = [adev EXCEPT !.active_input = FALSE]
    BY <1>4 DEF InReadStartFails
  <2>2. /\ Good(adev') /\ adev'.active_input = FALSE
        /\ adev'.listed = adev.listed /\ adev'.in_call = adev.in_call
    BY <1>1, <2>1, SetActive
  <2> QED  BY <1>1, <1>2, <2>2, InputChange
<1> QED  BY <1>3, <1>4

LEMMA InSetParametersStep ==
    ASSUME IInv, NEW source \in Sources, NEW device \in InRoutes, NEW g \in Misread,
           InSetParameters(source, device, g)
    PROVE  IInv'
<1> DEFINE s     == [in EXCEPT !.source = source, !.device = device]
           moved == device # in.device /\ ~in.standby
<1>1. Good(adev) /\ in \in InType /\ Matches(adev, out, in) /\ out' = out /\ lock_inputs' = "free"
  BY IInvParts DEF InSetParameters
<1>2. s \in InType /\ s.standby = in.standby
  BY <1>1 DEF InType
<1>3. /\ adev' = IF ~moved THEN adev
                 ELSE IF device \in CaptureProfile THEN SelectCapture(adev, out, s, g)
                 ELSE stop_input_stream(adev)
      /\ in' = [s EXCEPT !.standby = @ \/ (moved /\ device \notin CaptureProfile)]
  BY DEF InSetParameters
<1>4. CASE moved /\ device \notin CaptureProfile
  <2>1. in' \in InType /\ in'.standby
    <3>1. in' = [s EXCEPT !.standby = TRUE]
      BY <1>3, <1>4
    <3> HIDE DEF s
    <3> QED  BY <1>2, <3>1, InTypeSet
  <2>2. adev' = stop_input_stream(adev)
    BY <1>3, <1>4
  <2> QED  BY <1>1, <2>1, <2>2, StopInputStep
<1>5. CASE ~(moved /\ device \notin CaptureProfile)
  <2>1. in' \in InType /\ in'.standby = in.standby
    <3>1. in' = [s EXCEPT !.standby = s.standby]
      BY <1>2, <1>3, <1>5 DEF InType
    <3>2. in' = s
      BY <1>2, <3>1 DEF InType
    <3> QED  BY <1>2, <3>2
  <2>2. Good(adev') /\ Relisted(adev, adev', adev.listed)
    <3>1. CASE ~moved
      BY <1>1, <1>3, <3>1 DEF Relisted
    <3>2. CASE moved
      <4>1. adev' = SelectCapture(adev, out, s, g)
        BY <1>3, <1>5, <3>2
      <4>2. "CAPTURE" \in adev.listed
        BY <1>1, <3>2 DEF Matches
      <4> HIDE DEF s
      <4> QED  BY <1>1, <4>1, <4>2, SelectCaptureGood
    <3> QED  BY <3>1, <3>2
  <2> QED  BY <1>1, <2>1, <2>2, InputChange DEF Relisted, Matches
<1> QED  BY <1>4, <1>5

LEMMA SetEchoCancellerStep ==
    ASSUME IInv, NEW enable \in BOOLEAN, NEW g \in Misread, SetEchoCanceller(enable, g)
    PROVE  IInv'
<1> DEFINE s == [in EXCEPT !.aec = enable]
           a == SelectCapture(adev, out, s, g)
<1>1. /\ Good(adev) /\ in \in InType /\ Matches(adev, out, in)
      /\ out' = out /\ lock_inputs' = "free"
  BY IInvParts DEF SetEchoCanceller
<1>2. s \in InType
  BY <1>1 DEF InType
<1>3. /\ adev' = IF in.standby THEN adev ELSE stop_input_stream(a)
      /\ in' = [s EXCEPT !.standby = TRUE]
  BY DEF SetEchoCanceller
<1> HIDE DEF s
<1>4. in' \in InType /\ in'.standby
  BY <1>2, <1>3, InTypeSet
<1>5. CASE in.standby
  BY <1>1, <1>3, <1>4, <1>5, InputChange DEF Matches
<1>6. CASE ~in.standby
  <2>1. "CAPTURE" \in adev.listed
    BY <1>1, <1>6 DEF Matches
  <2>2. Good(a) /\ Relisted(adev, a, adev.listed)
    BY <1>1, <2>1, SelectCaptureGood
  <2>3. adev' = stop_input_stream(a)
    BY <1>3, <1>6
  <2> HIDE DEF a
  <2> QED  BY <1>1, <1>4, <2>2, <2>3, StopInputStep DEF Relisted
<1> QED  BY <1>5, <1>6

(* An action of the device: only the call's usecase enters or leaves.      *)
LEMMA DeviceChange ==
    ASSUME IInv, UNCHANGED <<out, in, lock_inputs>>, Good(adev'),
           adev'.active_input = adev.active_input,
           adev'.listed \ {"VOICE_CALL"} = adev.listed \ {"VOICE_CALL"},
           "VOICE_CALL" \in adev'.listed <=> adev'.in_call
    PROVE  IInv'
<1>1. /\ out \in OutType /\ in \in InType /\ Matches(adev, out, in) /\ PlayStates
      /\ lock_inputs \in {"free", "reset", "leaked"} /\ ResetInputStaysActive
  BY IInvParts
<1>2. \A u \in Usecase \ {"VOICE_CALL"} : u \in adev'.listed <=> u \in adev.listed
  OBVIOUS
<1>3. Matches(adev', out', in')
  BY <1>1, <1>2 DEF Matches, Usecase, Output
<1>4. out' \in OutType /\ \A p \in Streams : out'[p] = out[p]
  BY <1>1
<1> QED  BY <1>1, <1>3, <1>4, IInvPrime DEF PlayStates, ResetInputStaysActive

(* A field the counts and the list do not depend on. *)
LEMMA SameRouting ==
    ASSUME NEW a, Good(a), NEW b \in Device, b.uc = a.uc, b.ref = a.ref, b.listed = a.listed
    PROVE  Good(b)
BY DEF Good, Shape

LEMMA DeviceStepStep ==
    ASSUME IInv, DeviceStep
    PROVE  IInv'
<1>1. Good(adev) /\ adev \in Device /\ out \in OutType /\ Matches(adev, out, in)
  BY IInvParts DEF Good
<1>2. ASSUME NEW m \in Modes, SetMode(m)
      PROVE  IInv'
  <2> DEFINE a == [adev EXCEPT !.mode = m]
  <2>1. /\ a.active_input = adev.active_input
        /\ a.listed = adev.listed /\ a.in_call = adev.in_call
    BY <1>1 DEF Device, AudioDevice
  <2>2. Good(a)
    <3>1. a \in Device /\ a.uc = adev.uc /\ a.ref = adev.ref
      BY <1>1 DEF Device, AudioDevice
    <3> QED  BY <1>1, <2>1, <3>1, SameRouting
  <2>3. adev' = IF m = "NORMAL" /\ a.in_call THEN stop_voice_call(a) ELSE a
    BY <1>2 DEF SetMode
  <2>4. UNCHANGED <<out, in, lock_inputs>>
    BY <1>2 DEF SetMode
  <2> HIDE DEF a
  <2>5. CASE m = "NORMAL" /\ a.in_call
    <3>1. adev' = stop_voice_call(a)
      BY <2>3, <2>5
    <3>2. /\ Good(adev') /\ adev'.listed = a.listed \ {"VOICE_CALL"}
          /\ adev'.in_call = FALSE /\ adev'.active_input = a.active_input
      BY <2>2, <3>1, StopCallGood
    <3> QED  BY <2>1, <2>4, <3>2, DeviceChange
  <2>6. CASE ~(m = "NORMAL" /\ a.in_call)
    <3>1. adev' = a
      BY <2>3, <2>6
    <3>2. "VOICE_CALL" \in adev'.listed <=> adev'.in_call
      BY <1>1, <2>1, <3>1 DEF Matches
    <3> QED  BY <2>1, <2>2, <2>4, <3>1, <3>2, DeviceChange
  <2> QED  BY <2>5, <2>6
<1>3. ASSUME NEW t \in AmrTypes, NEW g \in Misread, WbAmrReport(t, g)
      PROVE  IInv'
  <2> DEFINE a    == [adev EXCEPT !.wb_amr_type = t]
             b    == stop_voice_call(a)
             devs == out[Primary].devices
  <2>1. /\ a.active_input = adev.active_input
        /\ a.listed = adev.listed /\ a.in_call = adev.in_call
    BY <1>1 DEF Device, AudioDevice
  <2>2. Good(a)
    <3>1. a \in Device /\ a.uc = adev.uc /\ a.ref = adev.ref
      BY <1>1 DEF Device, AudioDevice
    <3> QED  BY <1>1, <2>1, <3>1, SameRouting
  <2>3. adev' = IF ~a.in_call THEN a ELSE start_voice_call(b, devs, in, g)
    BY <1>3 DEF WbAmrReport
  <2>4. UNCHANGED <<out, in, lock_inputs>>
    BY <1>3 DEF WbAmrReport
  <2>5. devs \in OutRoutes
    BY <1>1, StreamsAssumption DEF OutType, StreamType
  <2> HIDE DEF a, devs
  <2>6. CASE a.in_call
    <3>1. /\ Good(b) /\ b.listed = a.listed \ {"VOICE_CALL"} /\ b.active_input = a.active_input
      BY <2>2, StopCallGood
    <3> DEFINE c == start_voice_call(b, devs, in, g)
    <3>2. adev' = c
      BY <2>3, <2>6
    <3> HIDE DEF b
    <3>3. /\ Good(c) /\ c.listed = b.listed \union {"VOICE_CALL"}
          /\ c.in_call = TRUE /\ c.active_input = b.active_input
      <4>1. "VOICE_CALL" \notin b.listed /\ Good(b)
        BY <3>1
      <4>2. g \in Misread
        BY <1>3
      <4> QED  BY <2>5, <4>1, <4>2, StartCallGood
    <3> HIDE DEF c
    <3> QED  BY <2>1, <2>4, <3>1, <3>2, <3>3, DeviceChange
  <2>7. CASE ~a.in_call
    <3>1. adev' = a
      BY <2>3, <2>7
    <3>2. "VOICE_CALL" \in adev'.listed <=> adev'.in_call
      BY <1>1, <2>1, <3>1 DEF Matches
    <3> QED  BY <2>1, <2>2, <2>4, <3>1, <3>2, DeviceChange
  <2> QED  BY <2>6, <2>7
<1>4. ASSUME NEW w \in BluetoothWbs, SetBluetoothWb(w)
      PROVE  IInv'
  <2>1. adev' = [adev EXCEPT !.bluetooth_wb = w] /\ UNCHANGED <<out, in, lock_inputs>>
    BY <1>4 DEF SetBluetoothWb
  <2>2. /\ adev' \in Device /\ adev'.uc = adev.uc /\ adev'.ref = adev.ref
        /\ adev'.active_input = adev.active_input
        /\ adev'.listed = adev.listed /\ adev'.in_call = adev.in_call
    BY <1>1, <2>1, WidebandAssumption DEF Device, AudioDevice
  <2>3. Good(adev')
    BY <1>1, <2>2, SameRouting
  <2> QED  BY <1>1, <2>1, <2>2, <2>3, DeviceChange DEF Matches
<1> QED  BY <1>2, <1>3, <1>4 DEF DeviceStep

LEMMA NextIInv ==
    ASSUME IInv, [Next]_vars
    PROVE  IInv'
<1>1. CASE UNCHANGED vars
  BY <1>1 DEF vars, IInv, TypeOK, Good, Exact, Shape, Users, UsecasesMatchStreams,
              ActiveInputRuns, ResetInputStaysActive, PlayStates
<1>2. CASE OutputStep
  BY <1>2, OutWriteStartStep, OutWriteStartFailsStep, OutStandbyStep, OutSetParametersStep
     DEF OutputStep
<1>3. CASE OffloadStep
  BY <1>3, OffloadStepStep
<1>4. CASE InputStep
  BY <1>4, ResetInputStep, InStandbyStep, InReadStartStep, InReadStartFailsStep,
     InSetParametersStep, SetEchoCancellerStep DEF InputStep
<1>5. CASE DeviceStep
  BY <1>5, DeviceStepStep
<1> QED  BY <1>1, <1>2, <1>3, <1>4, <1>5 DEF Next

THEOREM Invariance == Spec => []IInv
<1>1. Init => IInv
  BY InitIInv
<1>2. IInv /\ [Next]_vars => IInv'
  BY NextIInv
<1> QED  BY <1>1, <1>2, PTL DEF Spec

-----------------------------------------------------------------------------
(* The state keeps its shape: every list, counter, device and stream of    *)
(* the HAL ranges over what its type allows. *)
THEOREM TypeCorrect == Spec => []TypeOK
<1>1. IInv => TypeOK
  BY DEF IInv
<1> QED  BY <1>1, Invariance, PTL

(* enable_snd_device and disable_snd_device count exactly: after any       *)
(* sequence of stream, mode, parameter and modem events the reference      *)
(* count of a device is the number of usecases that hold it. *)
THEOREM RefCountsExact == Spec => []RefCountExact
<1>1. IInv => RefCountExact
  BY DEF IInv, Good, Exact, RefCountExact
<1> QED  BY <1>1, Invariance, PTL

(* A stream or call has its usecase in usecase_list exactly while it runs, *)
(* whichever of its start, stop, failure and restart paths was taken. *)
THEOREM ListMatchesStreams == Spec => []UsecasesMatchStreams
<1>1. IInv => UsecasesMatchStreams
  BY DEF IInv
<1> QED  BY <1>1, Invariance, PTL

(* active_input is set exactly while the input runs, and the input that    *)
(* out_write or out_set_parameters is about to force to standby is still   *)
(* the active one when they lock it: LOG_ALWAYS_FATAL_IF never fires. *)
THEOREM InputStaysActive == Spec => [](ActiveInputRuns /\ ResetInputStaysActive)
<1>1. IInv => ActiveInputRuns /\ ResetInputStaysActive
  BY DEF IInv
<1> QED  BY <1>1, Invariance, PTL

-----------------------------------------------------------------------------
(* The amplifier, which is told of each first user and last user of a      *)
(* device in the middle of select_devices, one usecase after the other.    *)

(* A TFA mode's count is the number of its devices in use, and the chip is *)
(* powered only while one of them is.                                      *)
ModesCounted ==
    /\ adev.amp.refcount["Music_Normal"] = OneIf(adev.ref["SPEAKER"])
    /\ adev.amp.refcount["Voice"] =
          OneIf(adev.ref["VOICE_SPEAKER"]) + OneIf(adev.ref["VOICE_SPEAKER_WB"])
NeverLeftOn == adev.amp.powered => \E d \in Amplified : adev.ref[d] > 0

(* However usecases are switched between the devices of the two modes, the *)
(* amplifier's counts neither drift nor go below zero, and it is off once  *)
(* the last device that sounds through it is off: enable_snd_device and    *)
(* disable_snd_device call amp_enable_output_devices once for the first    *)
(* user of a device and once for the last.                                 *)
THEOREM AmplifierOffWhenUnused == Spec => [](ModesCounted /\ NeverLeftOn)
<1>1. IInv => ModesCounted /\ NeverLeftOn
  BY DEF IInv, Good, Device, AmpOk, ModesCounted, NeverLeftOn
<1> QED  BY <1>1, Invariance, PTL

(* Where no call is heard on the speaker (no route to the speaker alone or *)
(* no call), the amplifier is also on whenever a speaker device is: with   *)
(* one TFA mode, the count that amp_enable_output_devices tests is that of *)
(* all users of the chip.  With both modes in use it is not, and the       *)
(* property fails for three outputs on the speaker when a call moves them. *)
THEOREM AmplifierServes ==
    ASSUME OneTfaMode
    PROVE  Spec => []AmplifierServesSpeaker
<1>1. IInv => AmplifierServesSpeaker
  <2> SUFFICES ASSUME IInv
               PROVE  adev.amp.powered <=> \E d \in Amplified : adev.ref[d] > 0
    BY DEF AmplifierServesSpeaker
  <2>1. AmpOk(adev.ref, adev.amp)
    BY DEF IInv, Good, Device
  <2>2. \A d \in VoiceSpeaker : ~(adev.ref[d] > 0)
    <3>1. \A d \in VoiceSpeaker : adev.ref[d] = 0
      BY <2>1 DEF AmpOk
    <3> QED  BY <3>1
  <2>3. \A d \in Amplified : d = "SPEAKER" \/ d \in VoiceSpeaker
    BY AmplifiedType
  <2>4. adev.ref["SPEAKER"] > 0 => adev.amp.powered
    BY <2>1 DEF AmpOk
  <2>5. adev.amp.powered => \E d \in Amplified : adev.ref[d] > 0
    BY <2>1 DEF AmpOk
  <2> QED  BY ONLY <2>2, <2>3, <2>4, <2>5
<1> QED  BY <1>1, Invariance, PTL

-----------------------------------------------------------------------------
(* Paths, call and playback device: a second invariant, about which device *)
(* each usecase is on.  It is stated for the usecases of a set S, since an *)
(* operation has one at a time that does not follow the rules yet.         *)

(* With a compressed output, no route is the headset or headphones alone.  *)
NoHeadsetAlone ==
    "OFFLOAD" \in Streams =>
        OutRoutes \intersect {{"WIRED_HEADSET"}, {"WIRED_HEADPHONE"}} = {}

(* The call has an output device, the outputs are on it, and the capture   *)
(* has the call's microphone.                                              *)
CallRules(a, S) ==
    LET c == a.uc["VOICE_CALL"]
    IN  IF a.in_call
        THEN /\ c.out # NONE
             /\ \A p \in Output \intersect S : a.uc[p].out = c.out
             /\ c.in # NONE /\ "CAPTURE" \in S => a.uc["CAPTURE"].in = c.in
        ELSE c = Idle

OneOut(a, S) == \A p, q \in Output \intersect S : a.uc[p].out = a.uc[q].out

Rules(a, S) == /\ PathsOn(a) /\ SharedInput(a) /\ CallRules(a, S)
               /\ (NoHeadsetAlone => OneOut(a, S))

Routed(a) == Rules(a, a.listed)

(* A record that agrees where the rules look follows them as well.         *)
LEMMA SameRules ==
    ASSUME NEW a, NEW b, b.uc = a.uc, b.ref = a.ref, b.path = a.path, b.in_call = a.in_call,
           NEW S, Rules(a, S)
    PROVE  Rules(b, S)
BY DEF Rules, PathsOn, SharedInput, CallRules, OneOut

(* Every route has a playback device, and with a compressed output it is   *)
(* not the headphones.                                                     *)
LEMMA RouteChoice ==
    ASSUME NEW a \in Device, NEW devs \in OutRoutes,
           NEW o, o = get_output_snd_device(a.mode, voice_session_uses_wideband(a), devs)
    PROVE  /\ o \in OutSndDevice
           /\ NoHeadsetAlone /\ "OFFLOAD" \in Streams => o # "HEADPHONES"
<1> DEFINE w == voice_session_uses_wideband(a)
<1>1. devs \in ValidRoutes
  BY RoutesAssumption
<1>2. w \in BOOLEAN
  BY WidebandType
<1>3. o \in OutSndDevice \union {NONE}
  BY <1>2, OutChoice
<1> HIDE DEF w
<1>4. CASE a.mode = "IN_CALL" /\ CallOut(devs) # NONE
  <2>1. o = Variant(CallOut(devs), w)
    BY <1>4 DEF get_output_snd_device, w
  <2>2. CallOut(devs) \in VoiceOut
    BY <1>4 DEF CallOut, VoiceOut
  <2>3. \A d \in VoiceOut : Variant(d, w) \notin {NONE, "HEADPHONES"}
    BY <1>2 DEF Variant, Wideband, VoiceOut, VoiceIn, NONE
  <2> QED  BY <1>3, <2>1, <2>2, <2>3
<1>5. CASE ~(a.mode = "IN_CALL" /\ CallOut(devs) # NONE)
  <2>1. o = MediaOutFor(devs)
    BY <1>5 DEF get_output_snd_device
  <2>2. MediaOutFor(devs) # NONE
    <3>1. devs \in {{"SPEAKER", "WIRED_HEADPHONE"}, {"SPEAKER", "WIRED_HEADSET"},
                    {"WIRED_HEADPHONE"}, {"WIRED_HEADSET"}, {"SPEAKER"}, {"SCO"}, {"EARPIECE"}}
      BY <1>1 DEF ValidRoutes
    <3> QED  BY <3>1 DEF MediaOutFor, Combo, NONE
  <2>3. devs \notin {{"WIRED_HEADPHONE"}, {"WIRED_HEADSET"}} => MediaOutFor(devs) # "HEADPHONES"
    BY DEF MediaOutFor, Combo, NONE
  <2> QED  BY <1>3, <2>1, <2>2, <2>3 DEF NoHeadsetAlone
<1> QED  BY <1>4, <1>5

-----------------------------------------------------------------------------
(* Selecting devices by the rules. *)

(* The input follows the call, and leaves the outputs where they are.      *)
LEMMA SelectCaptureRules ==
    ASSUME NEW a, Good(a), "CAPTURE" \in a.listed, NEW os, NEW s, NEW g \in Misread,
           NEW S, Rules(a, S \ {"CAPTURE"}),
           NEW b, b = SelectCapture(a, os, s, g)
    PROVE  Rules(b, S) /\ \A p \in Output : b.uc[p].out = a.uc[p].out
<1> DEFINE i == CaptureDevice(a, os, s, g)
           c == a.uc["VOICE_CALL"]
<1>1. i \in InSndDevice \union {NONE}
  BY CaptureChoice
<1>2. b = Assign(a, "CAPTURE", NONE, i)
  BY DEF SelectCapture
<1>3. a.in_call /\ c.in # NONE => i = c.in
  BY DEF CaptureDevice, CallDevice
<1>4. "CAPTURE" \notin Output
  BY DEF Output
<1> HIDE DEF i
<1>5. /\ Good(b) /\ Relisted(a, b, a.listed) /\ Placed(a, b, "CAPTURE", NONE, i)
      /\ PathsOn(a) /\ SharedInput(a) => PathsOn(b)
  BY <1>1, <1>2, <1>4, AssignListed, AllowedAlways
<1>6. /\ b.uc["VOICE_CALL"] = c /\ b.uc["CAPTURE"].in = i /\ b.in_call = a.in_call
      /\ \A p \in Output : b.uc[p].out = a.uc[p].out
  BY <1>4, <1>5 DEF Placed, Relisted
<1>7. PathsOn(b) /\ \A p \in Output : p \in S <=> p \in S \ {"CAPTURE"}
  BY <1>4, <1>5 DEF Rules
<1>8. CallRules(a, S \ {"CAPTURE"})
  BY DEF Rules
<1>9. CallRules(b, S)
  BY <1>3, <1>6, <1>7, <1>8 DEF CallRules
<1>10. SharedInput(b)
  BY <1>3, <1>6, <1>8 DEF CallRules, SharedInput, Idle
<1>11. NoHeadsetAlone => OneOut(b, S)
  BY <1>6, <1>7 DEF Rules, OneOut
<1> QED  BY <1>6, <1>7, <1>9, <1>10, <1>11 DEF Rules

(* An output that is routed takes the call's device or makes the others    *)
(* follow.  Where nothing moves, it was among those that follow the rules. *)
LEMMA SelectOutputRules ==
    ASSUME NEW a, Good(a), NEW u \in Output, u \in a.listed, NEW os, NEW s, NEW g \in Misread,
           os[u].devices \in OutRoutes,
           NEW S, Rules(a, S), a.listed \ {u} \subseteq S,
           \/ u \in S \/ a.uc[u].out = NONE
           \/ "OFFLOAD" \in Streams /\ a.uc[u].out = "HEADPHONES",
           NEW b, b = SelectOutput(a, os, s, u, g)
    PROVE  Routed(b)
<1>0. a \in Device /\ a.uc \in Views /\ "CAPTURE" \notin Output /\ "VOICE_CALL" \notin Output
  BY DEF Good, Device, AudioDevice, Views, Output
<1> DEFINE c == CallDevice(a, "out")
           a1 == IF /\ u = Primary /\ "CAPTURE" \in a.listed
                    /\ s.source = "VOICE_COMMUNICATION"
                 THEN SelectCapture(a, os, s, g) ELSE a
           o == get_output_snd_device(a.mode, voice_session_uses_wideband(a), os[u].devices)
<1>1. c \in OutSndDevice \union {NONE}
  BY <1>0, ViewOfItself DEF CallDevice, Usecase
<1>2. o \in OutSndDevice /\ (NoHeadsetAlone /\ "OFFLOAD" \in Streams => o # "HEADPHONES")
  BY <1>0, RouteChoice
<1>2a. Allowed(c) /\ Allowed(o)
  BY <1>0, WidebandType, OutAllowed, CallAllowed DEF Device, AudioDevice
<1>3. Good(a1) /\ Relisted(a, a1, a.listed)
  BY SelectCaptureGood DEF Relisted
<1>4. b = IF c # NONE THEN Assign(a, u, c, NONE) ELSE Assign(a1, u, o, NONE)
  BY DEF SelectOutput
<1>5. Rules(a1, S) /\ \A p \in Output : a1.uc[p].out = a.uc[p].out
  <2>1. CASE u = Primary /\ "CAPTURE" \in a.listed /\ s.source = "VOICE_COMMUNICATION"
    <3>1. Rules(a, S \ {"CAPTURE"})
      BY DEF Rules, CallRules, OneOut
    <3>2. a1 = SelectCapture(a, os, s, g)
      BY <2>1
    <3> HIDE DEF a1, c, o
    <3>3. "CAPTURE" \in a.listed /\ Good(a) /\ g \in Misread
      BY <2>1
    <3> QED  BY ONLY <3>1, <3>2, <3>3, SelectCaptureRules
  <2>2. CASE ~(u = Primary /\ "CAPTURE" \in a.listed /\ s.source = "VOICE_COMMUNICATION")
    BY <2>2
  <2> QED  BY <2>1, <2>2
<1>6. a.in_call => c = a.uc["VOICE_CALL"].out
  BY DEF CallDevice
<1>7. ~a.in_call => c = NONE
  BY DEF CallDevice
<1>8. CallRules(a, S)
  BY DEF Rules
<1>9. NONE \notin OutSndDevice
  BY OwnPath
<1> HIDE DEF c, a1, o
<1>10. CASE a.in_call
  <2>1. c # NONE /\ b = Assign(a, u, c, NONE)
    BY <1>4, <1>6, <1>8, <1>10 DEF CallRules
  <2>2. /\ Good(b) /\ Relisted(a, b, a.listed) /\ Placed(a, b, u, c, NONE)
        /\ PathsOn(a) /\ SharedInput(a) => PathsOn(b)
    BY <1>0, <1>1, <1>2a, <2>1, AssignListed
  <2>3. /\ b.uc["VOICE_CALL"] = a.uc["VOICE_CALL"] /\ b.uc["CAPTURE"].in = a.uc["CAPTURE"].in
        /\ b.in_call /\ b.uc[u].out = c
        /\ \A p \in Output \ {u} : b.uc[p].out = a.uc[p].out \/ b.uc[p].out = c
    BY <1>0, <1>10, <2>2 DEF Placed, Relisted
  <2>4. \A p \in Output \intersect S : a.uc[p].out = c
    BY <1>6, <1>8, <1>10 DEF CallRules
  <2>5. \A p \in Output \intersect b.listed : b.uc[p].out = c
    <3>1. b.listed \ {u} \subseteq S
      BY <2>2 DEF Relisted
    <3> QED  BY <2>3, <2>4, <3>1
  <2>6. "CAPTURE" \in b.listed => "CAPTURE" \in S
    BY <1>0, <2>2 DEF Relisted
  <2>7. CallRules(b, b.listed)
    BY <1>6, <1>8, <1>10, <2>3, <2>5, <2>6 DEF CallRules
  <2>8. PathsOn(b) /\ SharedInput(b)
    BY <2>2, <2>3 DEF Rules, SharedInput
  <2>9. OneOut(b, b.listed)
    BY <2>5 DEF OneOut
  <2> QED  BY <2>7, <2>8, <2>9 DEF Routed, Rules
<1>11. CASE ~a.in_call
  <2>1. b = Assign(a1, u, o, NONE) /\ u \in a1.listed
    BY <1>3, <1>4, <1>7, <1>11 DEF Relisted
  <2>2. /\ Good(b) /\ Relisted(a1, b, a1.listed) /\ Placed(a1, b, u, o, NONE)
        /\ PathsOn(a1) /\ SharedInput(a1) => PathsOn(b)
    BY <1>0, <1>2, <1>2a, <1>3, <2>1, AssignListed
  <2>3. /\ b.uc["VOICE_CALL"] = a1.uc["VOICE_CALL"] /\ b.uc["CAPTURE"].in = a1.uc["CAPTURE"].in
        /\ b.in_call = a.in_call /\ b.uc[u].out = o
        /\ \A p \in Output \ {u} : b.uc[p].out = a.uc[p].out \/ b.uc[p].out = o
        /\ a.uc[u].out # o => \A p \in (Output \intersect a.listed) \ {u} : b.uc[p].out = o
    BY <1>0, <1>2, <1>3, <1>5, <1>9, <2>2 DEF Placed, Relisted
  <2>4. b.listed = a.listed
    BY <1>3, <2>2 DEF Relisted
  <2>5. PathsOn(b) /\ SharedInput(b)
    BY <1>5, <2>2, <2>3 DEF Rules, SharedInput
  <2>6. CallRules(b, b.listed)
    BY <1>3, <1>5, <1>11, <2>3 DEF Rules, CallRules, Relisted
  <2>7. NoHeadsetAlone => OneOut(b, b.listed)
    <3> SUFFICES ASSUME NoHeadsetAlone
                 PROVE  \A p \in Output \intersect a.listed : b.uc[p].out = o
      BY <2>4 DEF OneOut
    <3>1. CASE a.uc[u].out # o
      BY <2>3, <3>1
    <3>2. CASE a.uc[u].out = o
      <4>1. u \in S
        BY <1>2, <1>9, <3>2
      <4>2. \A p \in Output \intersect a.listed : a.uc[p].out = o
        BY <3>2, <4>1 DEF Rules, OneOut
      <4> QED  BY <2>3, <4>2
    <3> QED  BY <3>1, <3>2
  <2> QED  BY <2>5, <2>6, <2>7 DEF Routed, Rules
<1> QED  BY <1>10, <1>11

(* A call that starts takes every output and the input along.              *)
LEMMA SelectCallRules ==
    ASSUME NEW a, Good(a), "VOICE_CALL" \in a.listed, a.in_call = TRUE, NEW devs \in OutRoutes,
           NEW s, NEW g \in Misread, PathsOn(a), a.uc["VOICE_CALL"] = Idle,
           NEW b, b = SelectCall(a, devs, s, g)
    PROVE  Routed(b)
<1> DEFINE p == prepare_voice_session(a, devs)
           o == get_output_snd_device(p.mode, voice_session_uses_wideband(p), devs)
           i == get_input_snd_device(p, s, devs, g)
           u == "VOICE_CALL"
<1>1. a \in Device
  BY DEF Good
<1>2. /\ p \in Device /\ p.uc = a.uc /\ p.ref = a.ref /\ p.path = a.path
      /\ p.listed = a.listed /\ p.in_call = TRUE
  <2>1. (~TwoMicDisabled /\ devs \in {{"EARPIECE"}, {"SPEAKER"}}) \in BOOLEAN
    BY TwoMicAssumption
  <2> QED  BY <1>1, <2>1 DEF prepare_voice_session, Device, AudioDevice
<1>3. b = Assign(p, u, o, i)
  BY DEF SelectCall
<1> HIDE DEF p
<1>4. Good(p) /\ PathsOn(p) /\ SharedInput(p) /\ p.uc[u] = Idle
  BY <1>2 DEF Good, Shape, PathsOn, SharedInput, Idle
<1>5. o \in OutSndDevice /\ i \in InSndDevice \union {NONE}
  BY <1>2, RouteChoice, InChoice
<1>5a. Allowed(o)
  BY <1>2, WidebandType, OutAllowed DEF Device, AudioDevice
<1>6. u \notin Output /\ u # "CAPTURE" /\ NONE \notin OutSndDevice
  BY OwnPath DEF Output
<1> HIDE DEF o, i
<1>7. Good(b) /\ Relisted(p, b, p.listed) /\ Placed(p, b, u, o, i) /\ PathsOn(b)
  BY <1>2, <1>3, <1>4, <1>5, <1>5a, <1>6, AssignListed
<1>8. /\ b.uc[u].out = o /\ b.uc[u].in = i /\ b.in_call = TRUE /\ b.listed = a.listed
      /\ \A v \in Output \intersect a.listed : b.uc[v].out = o
  BY <1>2, <1>4, <1>5, <1>6, <1>7 DEF Placed, Relisted, Idle
<1>9. i # NONE /\ "CAPTURE" \in a.listed => b.uc["CAPTURE"].in = i
  BY <1>2, <1>4, <1>6, <1>7 DEF Placed, Idle
<1>10. "CAPTURE" \notin a.listed => b.uc["CAPTURE"].in = NONE
  BY <1>7, <1>8 DEF Good, Shape, Idle, Usecase
<1>11. CallRules(b, b.listed)
  BY <1>5, <1>6, <1>8, <1>9 DEF CallRules
<1>12. SharedInput(b)
  BY <1>8, <1>9, <1>10 DEF SharedInput
<1>13. OneOut(b, b.listed)
  BY <1>8 DEF OneOut
<1> QED  BY <1>7, <1>11, <1>12, <1>13 DEF Routed, Rules

-----------------------------------------------------------------------------
(* The operations keep the rules.                                          *)

LEMMA EnablePathRules ==
    ASSUME NEW a, Good(a), Routed(a), NEW u \in Output, u \notin a.listed,
           NEW os, NEW s, NEW g \in Misread, os[u].devices \in OutRoutes,
           NEW b, b = enable_output_path_l(a, os, s, u, g)
    PROVE  Routed(b)
<1> DEFINE a1 == ListAdd(a, u)
<1>1. /\ Good(a1) /\ a1.uc = a.uc /\ Relisted(a, a1, a.listed \union {u})
      /\ a1.ref = a.ref /\ a1.path = a.path
  BY AddGood DEF Usecase
<1>2. b = SelectOutput(a1, os, s, u, g)
  BY DEF enable_output_path_l
<1> HIDE DEF a1
<1>3. Rules(a1, a.listed) /\ a1.listed \ {u} \subseteq a.listed /\ u \in a1.listed
  BY <1>1, SameRules DEF Routed, Relisted
<1>4. a1.uc[u].out = NONE
  BY <1>1 DEF Good, Shape, Usecase, Idle
<1> QED  BY <1>1, <1>2, <1>3, <1>4, SelectOutputRules

(* A usecase other than the call leaves.                                   *)
LEMMA StopRules ==
    ASSUME NEW a, Good(a), Routed(a), NEW u \in a.listed, u # "VOICE_CALL",
           NEW b, b = ListRemove(disable_snd_device(disable_snd_device(a, a.uc[u].out),
                                                    a.uc[u].in), u)
    PROVE  Routed(b)
<1>1. /\ Relisted(a, b, a.listed \ {u}) /\ b.uc = [a.uc EXCEPT ![u] = Idle]
      /\ PathsOn(a) /\ SharedInput(a) => PathsOn(b)
  BY StopGood
<1>2. a.uc \in Views /\ u \in Usecase /\ Usecase = Output \union {"CAPTURE", "VOICE_CALL"}
  BY DEF Good, Device, AudioDevice, Views, Usecase
<1>3. /\ b.in_call = a.in_call /\ b.listed = a.listed \ {u}
      /\ b.uc[u] = Idle /\ \A v \in Usecase \ {u} : b.uc[v] = a.uc[v]
  BY <1>1, <1>2 DEF Relisted, Views
<1>4. PathsOn(b)
  BY <1>1 DEF Routed, Rules
<1>5. SharedInput(b)
  BY <1>2, <1>3 DEF Routed, Rules, SharedInput, Idle
<1>6. CallRules(b, b.listed)
  BY <1>2, <1>3 DEF Routed, Rules, CallRules
<1>7. NoHeadsetAlone => OneOut(b, b.listed)
  BY <1>2, <1>3 DEF Routed, Rules, OneOut
<1> QED  BY <1>4, <1>5, <1>6, <1>7 DEF Routed, Rules

LEMMA DisablePathRules ==
    ASSUME NEW a, Good(a), Routed(a), NEW u \in Output,
           NEW b, b = disable_output_path_l(a, u)
    PROVE  Routed(b)
<1>1. CASE u \notin a.listed
  BY <1>1 DEF disable_output_path_l
<1>2. CASE u \in a.listed
  <2>1. a.uc[u].in = NONE /\ u # "VOICE_CALL"
    BY DEF Good, Shape, Output
  <2>2. b = ListRemove(disable_snd_device(disable_snd_device(a, a.uc[u].out), a.uc[u].in), u)
    BY <1>2, <2>1, DisableNone DEF disable_output_path_l
  <2> QED  BY <1>2, <2>1, <2>2, StopRules
<1> QED  BY <1>1, <1>2

LEMMA SetActiveRules ==
    ASSUME NEW a, Good(a), NEW t \in BOOLEAN, NEW S, Rules(a, S),
           NEW b, b = [a EXCEPT !.active_input = t]
    PROVE  Good(b) /\ Rules(b, S) /\ b.listed = a.listed
<1>1. /\ Good(b) /\ b.uc = a.uc /\ b.listed = a.listed /\ b.in_call = a.in_call
      /\ b.ref = a.ref /\ b.path = a.path
  BY SetActive
<1> QED  BY <1>1, SameRules

LEMMA StopInputRules ==
    ASSUME NEW a, Good(a), Routed(a), NEW b, b = stop_input_stream(a)
    PROVE  Routed(b)
<1> DEFINE u  == "CAPTURE"
           a1 == [a EXCEPT !.active_input = FALSE]
<1>1. Good(a1) /\ Routed(a1)
  BY SetActiveRules DEF Routed
<1>2. b = IF u \notin a1.listed THEN a1
          ELSE ListRemove(disable_snd_device(a1, a1.uc[u].in), u)
  BY DEF stop_input_stream
<1> HIDE DEF a1
<1>3. CASE u \notin a1.listed
  BY <1>1, <1>2, <1>3
<1>4. CASE u \in a1.listed
  <2>1. a1.uc[u].out = NONE
    BY <1>1 DEF Good, Shape
  <2>2. b = ListRemove(disable_snd_device(disable_snd_device(a1, a1.uc[u].out), a1.uc[u].in), u)
    BY <1>2, <1>4, <2>1, DisableNone
  <2> QED  BY <1>1, <1>4, <2>2, StopRules
<1> QED  BY <1>3, <1>4

LEMMA StopCallRules ==
    ASSUME NEW a, Good(a), Routed(a), NEW b, b = stop_voice_call(a)
    PROVE  Routed(b)
<1> DEFINE u  == "VOICE_CALL"
           a1 == [a EXCEPT !.in_call = FALSE, !.out_device = {}]
<1>1. /\ Good(a1) /\ a1.uc = a.uc /\ a1.listed = a.listed /\ a1.in_call = FALSE
      /\ PathsOn(a1) /\ SharedInput(a1)
  <2>1. a \in Device
    BY DEF Good
  <2>2. a1 \in Device
    BY <2>1 DEF Device, AudioDevice
  <2>3. /\ a1.uc = a.uc /\ a1.ref = a.ref /\ a1.path = a.path
        /\ a1.listed = a.listed /\ a1.in_call = FALSE
    BY <2>1 DEF Device, AudioDevice
  <2> HIDE DEF a1
  <2>4. Good(a1)
    BY <2>2, <2>3 DEF Good, Shape
  <2>5. PathsOn(a1) /\ SharedInput(a1)
    BY <2>3 DEF Routed, Rules, PathsOn, SharedInput
  <2> QED  BY <2>3, <2>4, <2>5
<1>2. b = IF u \notin a1.listed THEN a1
          ELSE ListRemove(disable_snd_device(disable_snd_device(a1, a1.uc[u].out),
                                             a1.uc[u].in), u)
  BY DEF stop_voice_call
<1> HIDE DEF a1
<1>3. /\ {u, "CAPTURE"} \subseteq Usecase /\ Output \subseteq Usecase
      /\ u \notin Output /\ u # "CAPTURE"
  BY DEF Usecase, Output
<1>4. /\ PathsOn(b) /\ b.in_call = FALSE /\ b.uc[u] = Idle /\ b.listed \subseteq a.listed
      /\ \A v \in Usecase \ {u} : b.uc[v] = a.uc[v]
  <2>1. CASE u \notin a1.listed
    BY <1>1, <1>2, <1>3, <2>1 DEF Good, Shape
  <2>2. CASE u \in a1.listed
    <3>1. /\ Relisted(a1, b, a1.listed \ {u}) /\ b.uc = [a1.uc EXCEPT ![u] = Idle]
          /\ PathsOn(b)
      BY <1>1, <1>2, <2>2, StopGood
    <3>2. a1.uc \in Views
      BY <1>1 DEF Good, Device, AudioDevice, Views
    <3> QED  BY <1>1, <1>3, <3>1, <3>2 DEF Relisted, Views
  <2> QED  BY <2>1, <2>2
<1>5. SharedInput(b)
  BY <1>4 DEF SharedInput, Idle
<1>6. CallRules(b, b.listed)
  BY <1>4 DEF CallRules
<1>7. NoHeadsetAlone => OneOut(b, b.listed)
  BY <1>3, <1>4 DEF Routed, Rules, OneOut
<1> QED  BY <1>4, <1>5, <1>6, <1>7 DEF Routed, Rules

(* A call may start on any routing whose paths are on.                     *)
LEMMA StartCallRules ==
    ASSUME NEW a, Good(a), PathsOn(a), "VOICE_CALL" \notin a.listed, NEW devs \in OutRoutes,
           NEW s, NEW g \in Misread,
           NEW b, b = start_voice_call(a, devs, s, g)
    PROVE  Routed(b)
<1> DEFINE a1 == ListAdd(a, "VOICE_CALL")
           a2 == [a1 EXCEPT !.in_call = TRUE]
<1>1. /\ Good(a1) /\ a1.uc = a.uc /\ Relisted(a, a1, a.listed \union {"VOICE_CALL"})
      /\ a1.ref = a.ref /\ a1.path = a.path
  BY AddGood DEF Usecase
<1> HIDE DEF a1
<1>2. /\ Good(a2) /\ a2.uc = a1.uc /\ a2.listed = a1.listed /\ a2.in_call = TRUE
      /\ PathsOn(a2)
  <2>1. a1 \in Device
    BY <1>1 DEF Good
  <2>2. a2 \in Device
    BY <2>1 DEF Device, AudioDevice
  <2>3. /\ a2.uc = a1.uc /\ a2.ref = a1.ref /\ a2.path = a1.path
        /\ a2.listed = a1.listed /\ a2.in_call = TRUE
    BY <2>1 DEF Device, AudioDevice
  <2> HIDE DEF a2
  <2>4. Good(a2)
    BY <1>1, <2>2, <2>3 DEF Good, Shape
  <2>5. PathsOn(a2)
    BY <1>1, <2>3 DEF PathsOn
  <2> QED  BY <2>3, <2>4, <2>5
<1>3. b = SelectCall(a2, devs, s, g)
  BY DEF start_voice_call, a1
<1> HIDE DEF a2
<1>4. a2.uc["VOICE_CALL"] = Idle /\ "VOICE_CALL" \in a2.listed
  BY <1>1, <1>2 DEF Good, Shape, Usecase, Relisted
<1> QED  BY <1>2, <1>3, <1>4, SelectCallRules

(* The compressed output gives the speaker up; it follows the rules again  *)
(* once it is routed.                                                      *)
LEMMA OffloadParametersRules ==
    ASSUME NEW a, Good(a), Routed(a), "OFFLOAD" \in a.listed,
           NEW b, b = out_set_offload_parameters(a)
    PROVE  \/ b = a
           \/ Rules(b, a.listed \ {"OFFLOAD"}) /\ b.uc["OFFLOAD"].out = "HEADPHONES"
<1>1. /\ Relisted(a, b, a.listed) /\ (PathsOn(a) => PathsOn(b))
      /\ \/ b = a
         \/ /\ b.uc["OFFLOAD"].out = "HEADPHONES"
            /\ \A v \in Usecase \ {"OFFLOAD"} : b.uc[v] = a.uc[v]
  BY OffloadParametersGood
<1>2. CASE \A v \in Usecase \ {"OFFLOAD"} : b.uc[v] = a.uc[v]
  <2>1. /\ b.uc["CAPTURE"] = a.uc["CAPTURE"] /\ b.uc["VOICE_CALL"] = a.uc["VOICE_CALL"]
        /\ \A p \in Output \ {"OFFLOAD"} : b.uc[p] = a.uc[p]
        /\ b.in_call = a.in_call
    BY <1>1, <1>2 DEF Usecase, Relisted
  <2>2. SharedInput(b) /\ PathsOn(b)
    BY <1>1, <2>1 DEF Routed, Rules, SharedInput
  <2>3. CallRules(b, a.listed \ {"OFFLOAD"})
    BY <2>1 DEF Routed, Rules, CallRules
  <2>4. NoHeadsetAlone => OneOut(b, a.listed \ {"OFFLOAD"})
    BY <2>1 DEF Routed, Rules, OneOut
  <2> QED  BY <1>1, <2>2, <2>3, <2>4 DEF Rules
<1> QED  BY <1>1, <1>2

LEMMA SetScoRules ==
    ASSUME NEW a, Good(a), Routed(a), NEW devs, NEW b, b = SetSco(a, devs)
    PROVE  Routed(b)
<1>1. a \in Device
  BY DEF Good
<1>2. /\ b.uc = a.uc /\ b.ref = a.ref /\ b.path = a.path /\ b.listed = a.listed
      /\ b.in_call = a.in_call
  BY <1>1 DEF SetSco, Device, AudioDevice
<1> QED  BY <1>2, SameRules DEF Routed

LEMMA SetCallRules ==
    ASSUME NEW a, Good(a), Routed(a), "VOICE_CALL" \in a.listed <=> a.in_call,
           NEW o, NEW devs \in OutRoutes, NEW g \in Misread,
           NEW b, b = SetCall(a, o, devs, g)
    PROVE  Routed(b)
<1>1. CASE a.mode # "IN_CALL" \/ o # Primary
  BY <1>1 DEF SetCall
<1>2. CASE ~(a.mode # "IN_CALL" \/ o # Primary)
  <2> DEFINE a1 == IF a.in_call THEN stop_voice_call(a) ELSE a
  <2>1. Good(a1) /\ a1.listed = a.listed \ {"VOICE_CALL"} /\ Routed(a1)
    BY StopCallGood, StopCallRules
  <2>2. b = start_voice_call(a1, devs, in, g)
    BY <1>2 DEF SetCall
  <2> HIDE DEF a1
  <2> QED  BY <2>1, <2>2, StartCallRules DEF Routed, Rules
<1> QED  BY <1>1, <1>2

-----------------------------------------------------------------------------
(* Every action keeps the rules. *)

LEMMA RoutedInit ==
    ASSUME Init
    PROVE  Routed(adev)
<1>1. /\ adev.uc = [u \in Usecase |-> Idle] /\ adev.listed = {} /\ adev.in_call = FALSE
      /\ adev.path = {} /\ adev.ref = [d \in CodecDevice |-> 0]
  BY DEF Init
<1>2. PathsOn(adev)
  BY <1>1 DEF PathsOn
<1>3. SharedInput(adev) /\ CallRules(adev, adev.listed) /\ OneOut(adev, adev.listed)
  BY <1>1 DEF SharedInput, CallRules, OneOut, Idle, Usecase
<1> QED  BY <1>2, <1>3 DEF Routed, Rules

LEMMA OutputRouted ==
    ASSUME IInv, Routed(adev), OutputStep
    PROVE  Routed(adev')
<1>1. /\ Good(adev) /\ out \in OutType /\ in \in InType /\ Matches(adev, out, in)
      /\ Streams \subseteq Output
  BY IInvParts, StreamsAssumption
<1>2. \A o \in Streams : out[o].devices \in OutRoutes
  BY <1>1 DEF OutType, StreamType
<1>3. ASSUME NEW o \in Streams, NEW g \in Misread, OutWriteStart(o, g)
      PROVE  Routed(adev')
  <2>1. o \notin adev.listed /\ adev' = enable_output_path_l(adev, out, in, o, g)
    BY <1>1, <1>3 DEF OutWriteStart, Matches
  <2> QED  BY <1>1, <1>2, <2>1, EnablePathRules
<1>4. ASSUME NEW o \in Streams, NEW g \in Misread, OutWriteStartFails(o, g)
      PROVE  Routed(adev')
  <2> DEFINE a == enable_output_path_l(adev, out, in, o, g)
  <2>1. o \notin adev.listed /\ adev' = disable_output_path_l(a, o)
    BY <1>1, <1>4 DEF OutWriteStartFails, Matches
  <2>2. Good(a) /\ Routed(a)
    BY <1>1, <1>2, <2>1, EnablePathGood, EnablePathRules
  <2> HIDE DEF a
  <2> QED  BY <1>1, <2>1, <2>2, DisablePathRules
<1>5. ASSUME NEW o \in Streams, OutStandby(o)
      PROVE  Routed(adev')
  <2>1. adev' = adev \/ adev' = disable_output_path_l(adev, o)
    BY <1>5 DEF OutStandby, stop_output_stream
  <2> QED  BY <1>1, <2>1, DisablePathRules
<1>6. ASSUME NEW o \in Streams, NEW devs \in OutRoutes, NEW g \in Misread,
             OutSetParameters(o, devs, g)
      PROVE  Routed(adev')
  <2> DEFINE offl == IF o = "OFFLOAD" THEN out_set_offload_parameters(adev) ELSE adev
             sel  == IF out[o].standby \/ o \notin adev.listed THEN adev
                     ELSE SelectOutput(offl, out', in, o, g)
             sco  == SetSco(sel, devs)
  <2>1. adev' = SetCall(sco, o, devs, g)
    BY <1>6 DEF OutSetParameters
  <2>2. out'[o].devices \in OutRoutes
    BY <1>1, <1>6 DEF OutSetParameters, OutType, StreamType
  <2>3. Good(sel) /\ Relisted(adev, sel, adev.listed) /\ Routed(sel)
    <3>1. CASE out[o].standby \/ o \notin adev.listed
      BY <1>1, <3>1 DEF Relisted
    <3>2. CASE ~(out[o].standby \/ o \notin adev.listed)
      <4>1. Good(offl) /\ Relisted(adev, offl, adev.listed)
        BY <1>1, <3>2, OffloadParametersGood DEF Relisted
      <4>2. \/ offl = adev
            \/ /\ o = "OFFLOAD" /\ Rules(offl, adev.listed \ {o})
               /\ offl.uc[o].out = "HEADPHONES"
        BY <1>1, <3>2, OffloadParametersRules
      <4>3. sel = SelectOutput(offl, out', in, o, g)
        BY <3>2
      <4> HIDE DEF offl, sel
      <4>4. Good(sel) /\ Relisted(offl, sel, offl.listed)
        BY <1>1, <2>2, <3>2, <4>1, <4>3, SelectOutputGood DEF Relisted
      <4>5. o \in offl.listed /\ o \in Output
        BY <1>1, <3>2, <4>1 DEF Relisted
      <4>6. CASE offl = adev
        <5>1. Rules(offl, offl.listed) /\ offl.listed \ {o} \subseteq offl.listed
          BY <4>6 DEF Routed
        <5>2. Routed(sel)
          BY <2>2, <4>1, <4>3, <4>5, <5>1, SelectOutputRules
        <5> QED  BY <4>1, <4>4, <5>2 DEF Relisted
      <4>7. CASE /\ o = "OFFLOAD" /\ Rules(offl, adev.listed \ {o})
                 /\ offl.uc[o].out = "HEADPHONES"
        <5>1. offl.listed \ {o} \subseteq adev.listed \ {o} /\ "OFFLOAD" \in Streams
          BY <4>1, <4>7 DEF Relisted
        <5>2. Routed(sel)
          BY <2>2, <4>1, <4>3, <4>5, <4>7, <5>1, SelectOutputRules
        <5> QED  BY <4>1, <4>4, <5>2 DEF Relisted
      <4> QED  BY <4>2, <4>6, <4>7
    <3> QED  BY <3>1, <3>2
  <2> HIDE DEF sel
  <2>4. Good(sco) /\ Relisted(sel, sco, sel.listed) /\ Routed(sco)
    BY <2>3, SetScoGood, SetScoRules
  <2> HIDE DEF sco
  <2>5. "VOICE_CALL" \in sco.listed <=> sco.in_call
    BY <1>1, <2>3, <2>4 DEF Relisted, Matches
  <2> QED  BY <2>1, <2>4, <2>5, SetCallRules
<1> QED  BY <1>3, <1>4, <1>5, <1>6 DEF OutputStep

LEMMA OffloadRouted ==
    ASSUME IInv, Routed(adev), OffloadStep
    PROVE  Routed(adev')
<1>1. /\ Good(adev) /\ out \in OutType /\ Matches(adev, out, in) /\ PlayStates
      /\ "OFFLOAD" \in Streams /\ "OFFLOAD" \in Output
  BY IInvParts DEF OffloadStep, Output
<1>2. out["OFFLOAD"].devices \in OutRoutes
  BY <1>1 DEF OutType, StreamType
<1>3. CASE OffloadPause
  BY <1>1, <1>3, DisablePathRules DEF OffloadPause
<1>4. CASE OffloadFlush
  BY <1>4 DEF OffloadFlush
<1>5. ASSUME NEW g \in Misread, OffloadResume(g) \/ OffloadWrite(g)
      PROVE  Routed(adev')
  <2>1. /\ "OFFLOAD" \notin adev.listed
        /\ adev' = enable_output_path_l(adev, out, in, "OFFLOAD", g)
    BY <1>1, <1>5 DEF OffloadResume, OffloadWrite, Matches
  <2> QED  BY <1>1, <1>2, <2>1, EnablePathRules
<1> QED  BY <1>3, <1>4, <1>5 DEF OffloadStep

LEMMA InputRouted ==
    ASSUME IInv, Routed(adev), InputStep
    PROVE  Routed(adev')
<1>1. Good(adev) /\ in \in InType /\ Matches(adev, out, in)
  BY IInvParts
<1>2. \A a, s, g, b : /\ Good(a) /\ "CAPTURE" \in a.listed /\ g \in Misread
                      /\ Rules(a, a.listed \ {"CAPTURE"}) /\ b = SelectCapture(a, out, s, g)
                      => Good(b) /\ Routed(b)
  <2> SUFFICES ASSUME NEW a, NEW s, NEW g, NEW b, Good(a), "CAPTURE" \in a.listed, g \in Misread,
                      Rules(a, a.listed \ {"CAPTURE"}), b = SelectCapture(a, out, s, g)
               PROVE  Good(b) /\ Routed(b)
    OBVIOUS
  <2>1. Good(b) /\ Relisted(a, b, a.listed)
    BY SelectCaptureGood
  <2>2. Rules(b, a.listed)
    BY SelectCaptureRules
  <2> QED  BY <2>1, <2>2 DEF Routed, Relisted
<1>3. \A a : Routed(a) => Rules(a, a.listed \ {"CAPTURE"})
  BY DEF Routed, Rules, CallRules, OneOut
<1>4. CASE ResetInput
  BY <1>1, <1>4, StopInputRules DEF ResetInput
<1>5. CASE InStandby
  BY <1>1, <1>5, StopInputRules DEF InStandby
<1>6. \A a1 : "CAPTURE" \notin adev.listed /\ a1 = ListAdd(adev, "CAPTURE") =>
         /\ Good(a1) /\ Rules(a1, a1.listed \ {"CAPTURE"}) /\ "CAPTURE" \in a1.listed
  <2> SUFFICES ASSUME NEW a1, "CAPTURE" \notin adev.listed, a1 = ListAdd(adev, "CAPTURE")
               PROVE  /\ Good(a1) /\ Rules(a1, a1.listed \ {"CAPTURE"}) /\ "CAPTURE" \in a1.listed
    OBVIOUS
  <2>1. /\ Good(a1) /\ a1.uc = adev.uc /\ Relisted(adev, a1, adev.listed \union {"CAPTURE"})
        /\ a1.ref = adev.ref /\ a1.path = adev.path
    BY <1>1, AddGood DEF Usecase
  <2>2. Rules(a1, adev.listed)
    BY <2>1, SameRules DEF Routed, Relisted
  <2>3. a1.listed \ {"CAPTURE"} = adev.listed
    BY <2>1 DEF Relisted
  <2> QED  BY <2>1, <2>2, <2>3 DEF Relisted
<1>7. ASSUME NEW g \in Misread, InReadStart(g)
      PROVE  Routed(adev')
  <2> DEFINE a1 == ListAdd(adev, "CAPTURE")
             a2 == [a1 EXCEPT !.active_input = TRUE]
  <2>1. adev' = SelectCapture(a2, out, in, g) /\ "CAPTURE" \notin adev.listed
    BY <1>1, <1>7 DEF InReadStart, Matches
  <2>2. Good(a1) /\ Rules(a1, a1.listed \ {"CAPTURE"}) /\ "CAPTURE" \in a1.listed
    BY <1>6, <2>1
  <2> HIDE DEF a1
  <2>3. Good(a2) /\ Rules(a2, a1.listed \ {"CAPTURE"}) /\ a2.listed = a1.listed
    BY <2>2, SetActiveRules
  <2> HIDE DEF a2
  <2> QED  BY <1>2, <2>1, <2>2, <2>3
<1>8. ASSUME NEW g \in Misread, InReadStartFails(g)
      PROVE  Routed(adev')
  <2>1. CASE in.device \in CaptureProfile
    <3> DEFINE a1 == ListAdd(adev, "CAPTURE")
               a  == SelectCapture(a1, out, in, g)
    <3>1. adev' = stop_input_stream(a) /\ "CAPTURE" \notin adev.listed
      BY <1>1, <1>8, <2>1 DEF InReadStartFails, Matches
    <3>2. Good(a1) /\ Rules(a1, a1.listed \ {"CAPTURE"}) /\ "CAPTURE" \in a1.listed
      BY <1>6, <3>1
    <3> HIDE DEF a1
    <3>3. Good(a) /\ Routed(a)
      BY <1>2, <3>2
    <3> HIDE DEF a
    <3> QED  BY <3>1, <3>3, StopInputRules
  <2>2. CASE in.device \notin CaptureProfile
    <3>1. adev' = [adev EXCEPT !.active_input = FALSE]
      BY <1>8, <2>2 DEF InReadStartFails
    <3> QED  BY <1>1, <3>1, SetActiveRules DEF Routed
  <2> QED  BY <2>1, <2>2
<1>9. ASSUME NEW source \in Sources, NEW device \in InRoutes, NEW g \in Misread,
             InSetParameters(source, device, g)
      PROVE  Routed(adev')
  <2> DEFINE s == [in EXCEPT !.source = source, !.device = device]
  <2>1. \/ adev' = adev \/ adev' = stop_input_stream(adev)
        \/ ~in.standby /\ adev' = SelectCapture(adev, out, s, g)
    BY <1>9 DEF InSetParameters
  <2>2. ~in.standby => "CAPTURE" \in adev.listed
    BY <1>1 DEF Matches
  <2> HIDE DEF s
  <2> QED  BY <1>1, <1>2, <1>3, <2>1, <2>2, StopInputRules
<1>10. ASSUME NEW enable \in BOOLEAN, NEW g \in Misread, SetEchoCanceller(enable, g)
       PROVE  Routed(adev')
  <2> DEFINE s == [in EXCEPT !.aec = enable]
             a == SelectCapture(adev, out, s, g)
  <2>1. adev' = adev \/ (~in.standby /\ adev' = stop_input_stream(a))
    BY <1>10 DEF SetEchoCanceller
  <2>2. ~in.standby => "CAPTURE" \in adev.listed
    BY <1>1 DEF Matches
  <2> HIDE DEF s
  <2>3. ~in.standby => Good(a) /\ Routed(a)
    BY <1>1, <1>2, <1>3, <1>10, <2>2
  <2> HIDE DEF a
  <2> QED  BY <2>1, <2>3, StopInputRules
<1> QED  BY <1>4, <1>5, <1>7, <1>8, <1>9, <1>10 DEF InputStep

LEMMA DeviceRouted ==
    ASSUME IInv, Routed(adev), DeviceStep
    PROVE  Routed(adev')
<1>1. Good(adev) /\ adev \in Device /\ out \in OutType /\ Matches(adev, out, in)
  BY IInvParts DEF Good
<1>2. \A a : /\ a \in Device /\ a.uc = adev.uc /\ a.ref = adev.ref /\ a.path = adev.path
             /\ a.listed = adev.listed /\ a.in_call = adev.in_call
             => Good(a) /\ Routed(a)
  BY <1>1, SameRouting, SameRules DEF Routed
<1>3. ASSUME NEW m \in Modes, SetMode(m)
      PROVE  Routed(adev')
  <2> DEFINE a == [adev EXCEPT !.mode = m]
  <2>1. Good(a) /\ Routed(a)
    <3>1. /\ a \in Device /\ a.uc = adev.uc /\ a.ref = adev.ref /\ a.path = adev.path
          /\ a.listed = adev.listed /\ a.in_call = adev.in_call
      BY <1>1 DEF Device, AudioDevice
    <3> HIDE DEF a
    <3> QED  BY <1>2, <3>1
  <2>2. adev' = stop_voice_call(a) \/ adev' = a
    BY <1>3 DEF SetMode
  <2> HIDE DEF a
  <2> QED  BY <2>1, <2>2, StopCallRules
<1>4. ASSUME NEW t \in AmrTypes, NEW g \in Misread, WbAmrReport(t, g)
      PROVE  Routed(adev')
  <2> DEFINE a    == [adev EXCEPT !.wb_amr_type = t]
             b    == stop_voice_call(a)
             devs == out[Primary].devices
  <2>1. Good(a) /\ Routed(a)
    <3>1. /\ a \in Device /\ a.uc = adev.uc /\ a.ref = adev.ref /\ a.path = adev.path
          /\ a.listed = adev.listed /\ a.in_call = adev.in_call
      BY <1>1 DEF Device, AudioDevice
    <3> HIDE DEF a
    <3> QED  BY <1>2, <3>1
  <2>2. adev' = a \/ adev' = start_voice_call(b, devs, in, g)
    BY <1>4 DEF WbAmrReport
  <2>3. devs \in OutRoutes
    BY <1>1, StreamsAssumption DEF OutType, StreamType
  <2> HIDE DEF a, devs
  <2>4. Good(b) /\ "VOICE_CALL" \notin b.listed /\ PathsOn(b)
    BY <2>1, StopCallGood, StopCallRules DEF Routed, Rules
  <2> HIDE DEF b
  <2> QED  BY <1>4, <2>1, <2>2, <2>3, <2>4, StartCallRules
<1>5. ASSUME NEW w \in BluetoothWbs, SetBluetoothWb(w)
      PROVE  Routed(adev')
  <2>1. adev' = [adev EXCEPT !.bluetooth_wb = w]
    BY <1>5 DEF SetBluetoothWb
  <2>2. /\ adev' \in Device /\ adev'.uc = adev.uc /\ adev'.ref = adev.ref
        /\ adev'.path = adev.path
        /\ adev'.listed = adev.listed /\ adev'.in_call = adev.in_call
    BY <1>1, <2>1, WidebandAssumption DEF Device, AudioDevice
  <2> QED  BY <1>2, <2>2
<1> QED  BY <1>3, <1>4, <1>5 DEF DeviceStep

(* Every usecase is routed by the rules in every reachable state. *)
THEOREM RoutingInvariance == Spec => []Routed(adev)
<1>1. Init => Routed(adev)
  BY RoutedInit
<1>2. IInv /\ Routed(adev) /\ [Next]_vars => Routed(adev)'
  <2> SUFFICES ASSUME IInv, Routed(adev), [Next]_vars
               PROVE  Routed(adev')
    OBVIOUS
  <2>1. CASE UNCHANGED vars
    BY <2>1 DEF vars
  <2> QED  BY <2>1, OutputRouted, OffloadRouted, InputRouted, DeviceRouted DEF Next
<1> QED  BY <1>1, <1>2, Invariance, PTL DEF Spec

(* The mixer paths that are on are those of the devices in use: none stays *)
(* on after its last user, none is reset under a user, although devices    *)
(* share paths and a released microphone cycles the playback path. *)
THEOREM PathsFollowUse == Spec => []PathsMatchUse
<1>1. IInv /\ Routed(adev) => PathsMatchUse
  <2> SUFFICES ASSUME IInv, Routed(adev)
               PROVE  PathsMatchUse
    OBVIOUS
  <2>1. Good(adev) /\ PathsOn(adev) /\ adev.uc \in Views
    BY DEF IInv, Good, Routed, Rules, Device, AudioDevice, Views
  <2>2. \A d \in CodecDevice : adev.ref[d] > 0 <=> Users(adev.uc, d) # {}
    <3> TAKE d \in CodecDevice
    <3>1. IsFiniteSet(Users(adev.uc, d)) /\ adev.ref[d] = Cardinality(Users(adev.uc, d))
      BY <2>1, UsersFinite DEF Good, Exact
    <3>2. Cardinality(Users(adev.uc, d)) \in Nat
      BY <3>1, FS_CardinalityType
    <3>3. Cardinality(Users(adev.uc, d)) = 0 <=> Users(adev.uc, d) = {}
      BY <3>1, FS_EmptySet
    <3> QED  BY <3>1, <3>2, <3>3
  <2>3. {c \in CodecDevice : adev.ref[c] > 0} = {c \in CodecDevice : Users(adev.uc, c) # {}}
    BY <2>2
  <2> QED  BY <2>1, <2>3 DEF PathsOn, PathsMatchUse
<1> QED  BY <1>1, Invariance, RoutingInvariance, PTL

(* select_devices: while there is a call, every listed output plays on the *)
(* call's device and the capture has its microphone, whatever was opened,  *)
(* rerouted or restarted meanwhile. *)
THEOREM CallDecidesAll == Spec => []CallDecides
<1>1. Routed(adev) => CallDecides
  BY DEF Routed, Rules, CallRules, CallDecides
<1> QED  BY <1>1, RoutingInvariance, PTL

(* check_and_route_usecases: the listed outputs are on one device, when    *)
(* no compressed output can be sent to the headset or headphones alone.    *)
THEOREM OneDevice ==
    ASSUME "OFFLOAD" \in Streams =>
               OutRoutes \intersect {{"WIRED_HEADSET"}, {"WIRED_HEADPHONE"}} = {}
    PROVE  Spec => []OnePlaybackDevice
<1>1. Routed(adev) => OnePlaybackDevice
  BY DEF Routed, Rules, OneOut, OnePlaybackDevice, NoHeadsetAlone
<1> QED  BY <1>1, RoutingInvariance, PTL
=============================================================================

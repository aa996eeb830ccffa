------------------------------- MODULE Routing -------------------------------
(***************************************************************************)
(* Device routing of the primary audio HAL (audio/audio_hw.c): the list of *)
(* active usecases, the reference counts of the sound devices, the mixer   *)
(* paths they switch on, and the operations on streams, audio mode and     *)
(* voice call that change them.                                            *)
(*                                                                         *)
(* Every operation runs with audio_device.lock held, so it is one step.    *)
(* The one place where a call gives that lock up half way, forcing the     *)
(* input to standby after an output change, is two steps: lock_inputs      *)
(* stays held in between.                                                  *)
(*                                                                         *)
(* adev is struct audio_device with its voice data.  Usecase ids are the   *)
(* streams' ids: each output stream has the usecase its open gave it.      *)
(***************************************************************************)
EXTENDS AudioDevices, Amplifier

CONSTANTS
    Streams,        \* the output streams the audio policy opens
    Primary,        \* the one opened with AUDIO_OUTPUT_FLAG_PRIMARY
    OutRoutes,      \* the device sets out_set_parameters is given
    InRoutes,       \* the input devices in_set_parameters is given
    Sources,        \* the audio sources of the input stream
    Modes,          \* the audio modes
    AmrTypes,       \* the AMR codec types the modem reports: 0 narrow band
    BluetoothWbs,   \* the values parameter bt_wbs is set to
    TwoMicDisabled, \* property audio_hal.disable_two_mic
    Misread         \* what get_input_snd_device yields when it reads the
                    \* call's output stream as an input stream

Output  == {"PLAYBACK", "DEEP_BUFFER", "OFFLOAD"}
Usecase == Output \union {"CAPTURE", "VOICE_CALL"}

ValidRoutes == {{"SPEAKER"}, {"EARPIECE"}, {"WIRED_HEADSET"}, {"WIRED_HEADPHONE"}, {"SCO"},
                {"SPEAKER", "WIRED_HEADSET"}, {"SPEAKER", "WIRED_HEADPHONE"}}

ASSUME StreamsAssumption == /\ Streams \subseteq Output
                            /\ Primary \in Streams
ASSUME RoutesAssumption  == OutRoutes \subseteq ValidRoutes /\ OutRoutes # {}
ASSUME ModesAssumption   == "NORMAL" \in Modes
ASSUME WidebandAssumption == /\ {0} \subseteq AmrTypes /\ AmrTypes \subseteq Nat
                             /\ BluetoothWbs \subseteq BOOLEAN
ASSUME MisreadAssumption == Misread \subseteq InSndDevice \union {NONE}
ASSUME TwoMicAssumption  == TwoMicDisabled \in BOOLEAN

VARIABLES
    adev,           \* struct audio_device
    out,            \* the output streams
    in,             \* the input stream
    lock_inputs     \* "free", "reset": held across a forced input standby,
                    \* "leaked": held by a call that has returned
vars == <<adev, out, in, lock_inputs>>

Idle == [out |-> NONE, in |-> NONE]

-----------------------------------------------------------------------------
(* The usecase list: its members, and for each the members ahead of it.    *)

ListAdd(a, u) == [a EXCEPT !.listed = @ \union {u}, !.ahead[u] = a.listed, !.uc[u] = Idle]
ListRemove(a, u) == [a EXCEPT !.listed = @ \ {u}, !.uc[u] = Idle,
                          !.ahead = [v \in Usecase |-> a.ahead[v] \ {u}]]

(* get_usecase_from_type(PCM_PLAYBACK), as a set of at most one usecase. *)
FirstPlayback(a) == {o \in a.listed \intersect Output : a.ahead[o] \intersect Output = {}}

(* get_usecase_from_type(PCM_CAPTURE|VOICE_CALL) finds the call: its       *)
(* stream is an output stream, and select_devices and get_input_snd_device *)
(* read it as an input stream.                                             *)
CallFirst(a) == /\ "VOICE_CALL" \in a.listed
                /\ "CAPTURE" \in a.listed => "VOICE_CALL" \in a.ahead["CAPTURE"]

-----------------------------------------------------------------------------
(* Reference counts, mixer paths and the amplifier: all three follow the    *)
(* first user and the last of a device.                                    *)

EnableOne(a, d) ==
    [a EXCEPT !.ref[d] = @ + 1,
              !.path = IF a.ref[d] = 0 THEN @ \union {Path(d)} ELSE @,
              !.amp = IF a.ref[d] = 0 THEN amp_enable_output_devices(@, d, TRUE) ELSE @]

enable_snd_device(a, d) ==
    IF d = Combo THEN EnableOne(EnableOne(a, "SPEAKER"), "HEADPHONES") ELSE EnableOne(a, d)

(* "Cycle the rx device": releasing a capture device applies the path of   *)
(* the first playback usecase again.  The comparison with                  *)
(* SND_DEVICE_IN_BEGIN leaves out the first capture device.                *)
Cycled(a, d) ==
    IF d \in InSndDevice \ {"EARPIECE_MIC"}
    THEN {Path(p) : p \in UNION {Parts(a.uc[o].out) : o \in FirstPlayback(a)}}
    ELSE {}

(* MUTANT: the path is reset with the first user that leaves. *)
DisableOne_ResetsAlways(a, d) ==
    IF a.ref[d] = 0 THEN a
    ELSE [a EXCEPT !.ref[d] = @ - 1, !.path = (@ \ {Path(d)}) \union Cycled(a, d),
                   !.amp = amp_enable_output_devices(@, d, FALSE)]

DisableOne(a, d) ==
    IF a.ref[d] = 0 THEN a
    ELSE [a EXCEPT !.ref[d] = @ - 1,
                   !.path = IF a.ref[d] > 1 THEN @ ELSE (@ \ {Path(d)}) \union Cycled(a, d),
                   !.amp = IF a.ref[d] > 1 THEN @ ELSE amp_enable_output_devices(@, d, FALSE)]

disable_snd_device(a, d) ==
    IF d = NONE THEN a
    ELSE IF d = Combo THEN DisableOne(DisableOne(a, "SPEAKER"), "HEADPHONES")
    ELSE DisableOne(a, d)

-----------------------------------------------------------------------------
(* check_and_route_usecases: the other usecases that share the backend are *)
(* moved to the new device, one after the other.                           *)

(* MUTANT: the device a usecase is moved away from is not released. *)
SwitchOut_KeepsOld(a, u, self, d) ==
    IF u = self \/ u \notin a.listed \/ a.uc[u].out = d THEN a
    ELSE [enable_snd_device(a, d) EXCEPT !.uc[u].out = d]

SwitchOut(a, u, self, d) ==
    IF u = self \/ u \notin a.listed \/ a.uc[u].out = d THEN a
    ELSE [enable_snd_device(disable_snd_device(a, a.uc[u].out), d) EXCEPT !.uc[u].out = d]

SwitchIn(a, self, d) ==
    IF self = "CAPTURE" \/ "CAPTURE" \notin a.listed \/ a.uc["CAPTURE"].in = d THEN a
    ELSE [enable_snd_device(disable_snd_device(a, a.uc["CAPTURE"].in), d)
              EXCEPT !.uc["CAPTURE"].in = d]

(* MUTANT: the last listed playback is not rerouted. *)
RouteOut_StopsEarly(a, self, d) == SwitchOut(a, "PLAYBACK", self, d)

RouteOut(a, self, d) ==
    SwitchOut(SwitchOut(SwitchOut(a, "PLAYBACK", self, d), "DEEP_BUFFER", self, d),
              "OFFLOAD", self, d)

(* The second half of select_devices: give usecase u the devices o and i.  *)
Assign(a, u, o, i) ==
    IF o = a.uc[u].out /\ i = a.uc[u].in THEN a
    ELSE LET a1 == disable_snd_device(disable_snd_device(a, a.uc[u].out), a.uc[u].in)
             a2 == IF o = NONE THEN a1 ELSE enable_snd_device(RouteOut(a1, u, o), o)
             a3 == IF i = NONE THEN a2 ELSE enable_snd_device(SwitchIn(a2, u, i), i)
         IN  [a3 EXCEPT !.uc[u] = [out |-> o, in |-> i]]

-----------------------------------------------------------------------------
(* The first half of select_devices, per kind of usecase.  s is the input  *)
(* stream, os the output streams, g a misread input device.                *)

voice_session_uses_wideband(a) ==
    IF "SCO" \in a.out_device THEN a.bluetooth_wb ELSE a.wb_amr_type >= 1

get_input_snd_device(a, s, out_device, g) ==
    IF a.mode = "IN_CALL"
    THEN Variant(CallIn(out_device, a.two_mic), voice_session_uses_wideband(a))
    ELSE IF CallFirst(a) THEN g
    ELSE IF "CAPTURE" \in a.listed THEN MediaInFor(s.source, s.device, s.aec, out_device)
    ELSE NONE

prepare_voice_session(a, devs) ==
    [a EXCEPT !.out_device = devs,
              !.two_mic = ~TwoMicDisabled /\ devs \in {{"EARPIECE"}, {"SPEAKER"}}]

(* MUTANT: the two devices of the call change places. *)
SelectCall_Swapped(a, devs, s, g) ==
    LET p == prepare_voice_session(a, devs)
    IN  Assign(p, "VOICE_CALL", get_input_snd_device(p, s, devs, g),
               get_output_snd_device(p.mode, voice_session_uses_wideband(p), devs))

SelectCall(a, devs, s, g) ==
    LET p == prepare_voice_session(a, devs)
    IN  Assign(p, "VOICE_CALL",
               get_output_snd_device(p.mode, voice_session_uses_wideband(p), devs),
               get_input_snd_device(p, s, devs, g))

(* MUTANT: the call decides for playback only. *)
CallDevice_OutOnly(a, slot) ==
    IF a.in_call /\ slot = "out" THEN a.uc["VOICE_CALL"].out ELSE NONE

(* A voice call's device, when there is a call, decides for the others. *)
CallDevice(a, slot) == IF a.in_call THEN a.uc["VOICE_CALL"][slot] ELSE NONE

CaptureDevice(a, os, s, g) ==
    IF CallDevice(a, "in") # NONE THEN CallDevice(a, "in")
    ELSE IF CallFirst(a) THEN g
    ELSE IF s.source = "VOICE_COMMUNICATION" /\ ~os[Primary].standby
    THEN get_input_snd_device(a, s, os[Primary].devices, g)
    ELSE get_input_snd_device(a, s, {}, g)

SelectCapture(a, os, s, g) == Assign(a, "CAPTURE", NONE, CaptureDevice(a, os, s, g))

(* Routing the primary output outside a call routes a voice-communication  *)
(* input as well: the microphone depends on the output device.             *)
SelectOutput(a, os, s, o, g) ==
    IF CallDevice(a, "out") # NONE THEN Assign(a, o, CallDevice(a, "out"), NONE)
    ELSE LET b == IF /\ o = Primary
                     /\ "CAPTURE" \in a.listed
                     /\ s.source = "VOICE_COMMUNICATION"
                  THEN SelectCapture(a, os, s, g) ELSE a
         IN  Assign(b, o, get_output_snd_device(a.mode, voice_session_uses_wideband(a),
                                                os[o].devices), NONE)

-----------------------------------------------------------------------------
enable_output_path_l(a, os, s, o, g) == SelectOutput(ListAdd(a, o), os, s, o, g)

disable_output_path_l(a, o) ==
    IF o \notin a.listed THEN a ELSE ListRemove(disable_snd_device(a, a.uc[o].out), o)

(* stop_output_stream, with the offload effect library loaded: a paused    *)
(* offload stream has given its path up already.                           *)
stop_output_stream(a, os, o) ==
    IF os[o].state \in {"PAUSED", "PAUSED_FLUSHED"} THEN a ELSE disable_output_path_l(a, o)

stop_input_stream(a) ==
    LET b == [a EXCEPT !.active_input = FALSE]
    IN  IF "CAPTURE" \notin b.listed THEN b
        ELSE ListRemove(disable_snd_device(b, b.uc["CAPTURE"].in), "CAPTURE")

(* MUTANT: the call ends, its usecase stays. *)
stop_voice_call_StaysListed(a) ==
    LET b == [a EXCEPT !.in_call = FALSE, !.out_device = {}]
    IN  IF "VOICE_CALL" \notin b.listed THEN b
        ELSE [disable_snd_device(disable_snd_device(b, b.uc["VOICE_CALL"].out),
                                 b.uc["VOICE_CALL"].in) EXCEPT !.uc["VOICE_CALL"] = Idle]

stop_voice_call(a) ==
    LET b == [a EXCEPT !.in_call = FALSE, !.out_device = {}]
    IN  IF "VOICE_CALL" \notin b.listed THEN b
        ELSE ListRemove(disable_snd_device(disable_snd_device(b, b.uc["VOICE_CALL"].out),
                                       b.uc["VOICE_CALL"].in), "VOICE_CALL")

start_voice_call(a, devs, s, g) ==
    SelectCall([ListAdd(a, "VOICE_CALL") EXCEPT !.in_call = TRUE], devs, s, g)

(* An offload stream leaving the combo device keeps the headphones. *)
out_set_offload_parameters(a) ==
    IF a.uc["OFFLOAD"].out # Combo THEN a
    ELSE disable_snd_device([a EXCEPT !.uc["OFFLOAD"].out = "HEADPHONES"], "SPEAKER")

-----------------------------------------------------------------------------
(* Output streams. *)

(* The input must be restarted when the output changes under it. *)
TalkInput == adev.active_input /\ in.source \in {"VOICE_COMMUNICATION", "MIC"}

(* out_write on a stream in standby.  After opening the PCM the call keeps *)
(* lock_inputs iff it has an input to reset; the offload write returns     *)
(* from the middle of the function and never gets to it.                   *)
OutWriteStart(o, g) ==
    /\ out[o].standby /\ lock_inputs = "free"
    /\ adev' = enable_output_path_l(adev, out, in, o, g)
    /\ out' = [out EXCEPT ![o].standby = FALSE,
                          ![o].state = IF o = "OFFLOAD" THEN "PLAYING" ELSE @]
    /\ lock_inputs' = IF ~TalkInput THEN "free"
                      ELSE IF o = "OFFLOAD" THEN "leaked" ELSE "reset"
    /\ UNCHANGED in

(* The PCM or the compress device does not open: error_open. *)
OutWriteStartFails(o, g) ==
    /\ out[o].standby /\ lock_inputs = "free"
    /\ adev' = disable_output_path_l(enable_output_path_l(adev, out, in, o, g), o)
    /\ UNCHANGED <<out, in, lock_inputs>>

(* out_standby, also the way out of a failed write. *)
OutStandby(o) ==
    /\ ~out[o].standby
    /\ adev' = stop_output_stream(adev, out, o)
    /\ out' = [out EXCEPT ![o].standby = TRUE, ![o].state = "IDLE"]
    /\ UNCHANGED <<in, lock_inputs>>

(* The Bluetooth SCO part of out_set_parameters: outside a call, stopping  *)
(* SCO also ends the voice session.                                        *)
SetSco(a, devs) ==
    IF a.mode \in {"IN_COMMUNICATION", "IN_CALL"} /\ "SCO" \in devs
    THEN [a EXCEPT !.bt_sco_active = TRUE]
    ELSE IF "SCO" \notin devs /\ a.bt_sco_active
    THEN [a EXCEPT !.bt_sco_active = FALSE,
                   !.out_device = IF a.mode = "IN_CALL" THEN @ ELSE {}]
    ELSE a

SetCall(a, o, devs, g) ==
    IF a.mode # "IN_CALL" \/ o # Primary THEN a
    ELSE start_voice_call(IF a.in_call THEN stop_voice_call(a) ELSE a, devs, in, g)

OutSetParameters(o, devs, g) ==
    /\ lock_inputs = "free"
    /\ out' = [out EXCEPT ![o].devices = devs]
    /\ LET offl == IF o = "OFFLOAD" THEN out_set_offload_parameters(adev) ELSE adev
           sel  == IF out[o].standby \/ o \notin adev.listed THEN adev
                   ELSE SelectOutput(offl, out', in, o, g)
       IN  adev' = SetCall(SetSco(sel, devs), o, devs, g)
    /\ lock_inputs' = IF /\ devs # out[o].devices /\ ~out[o].standby
                         /\ o = "PLAYBACK" /\ TalkInput
                      THEN "reset" ELSE "free"
    /\ UNCHANGED in

(* Pause, resume, flush and write of a running offload stream.             *)
OffloadPause ==
    /\ out["OFFLOAD"].state = "PLAYING"
    /\ adev' = disable_output_path_l(adev, "OFFLOAD")
    /\ out' = [out EXCEPT !["OFFLOAD"].state = "PAUSED"]
    /\ UNCHANGED <<in, lock_inputs>>

OffloadFlush ==
    /\ out["OFFLOAD"].state = "PAUSED"
    /\ out' = [out EXCEPT !["OFFLOAD"].state = "PAUSED_FLUSHED"]
    /\ UNCHANGED <<adev, in, lock_inputs>>

OffloadResume(g) ==
    /\ out["OFFLOAD"].state = "PAUSED"
    /\ adev' = enable_output_path_l(adev, out, in, "OFFLOAD", g)
    /\ out' = [out EXCEPT !["OFFLOAD"].state = "PLAYING"]
    /\ UNCHANGED <<in, lock_inputs>>

(* The playback thread of the framework does not write to a paused stream: *)
(* it resumes or flushes it first.                                         *)
OffloadWrite(g) ==
    /\ out["OFFLOAD"].state = "PAUSED_FLUSHED"
    /\ adev' = enable_output_path_l(adev, out, in, "OFFLOAD", g)
    /\ out' = [out EXCEPT !["OFFLOAD"].state = "PLAYING"]
    /\ UNCHANGED <<in, lock_inputs>>

-----------------------------------------------------------------------------
(* The input stream. *)

(* The rest of out_write and out_set_parameters: do_in_standby_l. *)
ResetInput ==
    /\ lock_inputs = "reset"
    /\ lock_inputs' = "free"
    /\ adev' = IF in.standby THEN adev ELSE stop_input_stream(adev)
    /\ in' = [in EXCEPT !.standby = TRUE]
    /\ UNCHANGED out

(* in_read on a stream in standby: start_input_stream. *)
InReadStart(g) ==
    /\ in.standby /\ lock_inputs = "free"
    /\ in.device \in CaptureProfile
    /\ adev' = SelectCapture([ListAdd(adev, "CAPTURE") EXCEPT !.active_input = TRUE], out, in, g)
    /\ in' = [in EXCEPT !.standby = FALSE]
    /\ UNCHANGED <<out, lock_inputs>>

(* The PCM does not open, or no profile serves the device. *)
InReadStartFails(g) ==
    /\ in.standby /\ lock_inputs = "free"
    /\ adev' = IF in.device \in CaptureProfile
               THEN stop_input_stream(SelectCapture(ListAdd(adev, "CAPTURE"), out, in, g))
               ELSE [adev EXCEPT !.active_input = FALSE]
    /\ UNCHANGED <<out, in, lock_inputs>>

InStandby ==
    /\ ~in.standby /\ lock_inputs = "free"
    /\ adev' = stop_input_stream(adev)
    /\ in' = [in EXCEPT !.standby = TRUE]
    /\ UNCHANGED <<out, lock_inputs>>

InSetParameters(source, device, g) ==
    /\ lock_inputs = "free"
    /\ LET s == [in EXCEPT !.source = source, !.device = device]
           moved == device # in.device /\ ~in.standby
       IN  /\ adev' = IF ~moved THEN adev
                      ELSE IF device \in CaptureProfile THEN SelectCapture(adev, out, s, g)
                      ELSE stop_input_stream(adev)
           /\ in' = [s EXCEPT !.standby = @ \/ (moved /\ device \notin CaptureProfile)]
    /\ UNCHANGED <<out, lock_inputs>>

(* add_remove_audio_effect for the echo canceller: an effect is added once *)
(* and removed once.                                                       *)
SetEchoCanceller(enable, g) ==
    /\ enable # in.aec /\ lock_inputs = "free"
    /\ LET s == [in EXCEPT !.aec = enable]
       IN  /\ adev' = IF in.standby THEN adev
                      ELSE stop_input_stream(SelectCapture(adev, out, s, g))
           /\ in' = [s EXCEPT !.standby = TRUE]
    /\ UNCHANGED <<out, lock_inputs>>

-----------------------------------------------------------------------------
(* The device. *)

SetMode(m) ==
    /\ m # adev.mode
    /\ LET a == [adev EXCEPT !.mode = m]
       IN  adev' = IF m = "NORMAL" /\ a.in_call THEN stop_voice_call(a) ELSE a
    /\ UNCHANGED <<out, in, lock_inputs>>

(* voice_session_wb_amr_callback, on the RIL client's reader thread. *)
WbAmrReport(t, g) ==
    /\ t # adev.wb_amr_type
    /\ LET a == [adev EXCEPT !.wb_amr_type = t]
       IN  adev' = IF ~a.in_call THEN a
                   ELSE start_voice_call(stop_voice_call(a), out[Primary].devices, in, g)
    /\ UNCHANGED <<out, in, lock_inputs>>

(* adev_set_parameters(bt_wbs), without the lock. *)
SetBluetoothWb(b) ==
    /\ b # adev.bluetooth_wb
    /\ adev' = [adev EXCEPT !.bluetooth_wb = b]
    /\ UNCHANGED <<out, in, lock_inputs>>

-----------------------------------------------------------------------------
Init ==
    /\ adev = [mode |-> "NORMAL", in_call |-> FALSE, bt_sco_active |-> FALSE,
               bluetooth_wb |-> FALSE, wb_amr_type |-> 0, out_device |-> {},
               two_mic |-> FALSE, active_input |-> FALSE,
               listed |-> {}, ahead |-> [u \in Usecase |-> {}],
               uc |-> [u \in Usecase |-> Idle],
               ref |-> [d \in CodecDevice |-> 0], path |-> {}, amp |-> AmpClosed]
    /\ \E r \in OutRoutes :
          out = [o \in Streams |-> [devices |-> r, standby |-> TRUE, state |-> "IDLE"]]
    /\ in \in [source : Sources, device : InRoutes \intersect CaptureProfile,
               aec : {FALSE}, standby : {TRUE}]
    /\ lock_inputs = "free"

OutputStep ==
    \E o \in Streams :
        \/ \E g \in Misread : OutWriteStart(o, g) \/ OutWriteStartFails(o, g)
        \/ OutStandby(o)
        \/ \E devs \in OutRoutes, g \in Misread : OutSetParameters(o, devs, g)

OffloadStep ==
    /\ "OFFLOAD" \in Streams
    /\ \/ OffloadPause \/ OffloadFlush
       \/ \E g \in Misread : OffloadResume(g) \/ OffloadWrite(g)

InputStep ==
    \/ ResetInput \/ InStandby
    \/ \E g \in Misread : InReadStart(g) \/ InReadStartFails(g)
    \/ \E source \in Sources, device \in InRoutes, g \in Misread :
          InSetParameters(source, device, g)
    \/ \E enable \in BOOLEAN, g \in Misread : SetEchoCanceller(enable, g)

DeviceStep ==
    \/ \E m \in Modes : SetMode(m)
    \/ \E t \in AmrTypes, g \in Misread : WbAmrReport(t, g)
    \/ \E b \in BluetoothWbs : SetBluetoothWb(b)

Next == OutputStep \/ OffloadStep \/ InputStep \/ DeviceStep

Spec == Init /\ [][Next]_vars

-----------------------------------------------------------------------------
(* Properties. *)

SndUse == [out : OutSndDevice \union {NONE}, in : InSndDevice \union {NONE}]

AudioDevice ==
    [mode : Modes, in_call : BOOLEAN, bt_sco_active : BOOLEAN, bluetooth_wb : BOOLEAN,
     wb_amr_type : AmrTypes, out_device : {{}} \union OutRoutes, two_mic : BOOLEAN,
     active_input : BOOLEAN, listed : SUBSET Usecase, ahead : [Usecase -> SUBSET Usecase],
     uc : [Usecase -> SndUse], ref : [CodecDevice -> Nat], path : SUBSET CodecDevice,
     amp : Amp]

(* The shape of the state: what the lists, counters and streams range over. *)
TypeOK ==
    /\ adev \in AudioDevice
    /\ out \in [Streams -> [devices : OutRoutes, standby : BOOLEAN,
                           state : {"IDLE", "PLAYING", "PAUSED", "PAUSED_FLUSHED"}]]
    /\ in \in [source : Sources, device : InRoutes, aec : BOOLEAN, standby : BOOLEAN]
    /\ lock_inputs \in {"free", "reset", "leaked"}

(* The usecase slots that hold a device. *)
Users(uc, d) == {x \in Usecase \X {"out", "in"} : d \in Parts(uc[x[1]][x[2]])}

(* The reference count of a device is the number of usecases using it, so  *)
(* that enable_snd_device and disable_snd_device switch it on with the     *)
(* first and off with the last, through every switch of                    *)
(* check_and_route_usecases, combo device and error path.                  *)
RefCountExact == \A d \in CodecDevice : adev.ref[d] = Cardinality(Users(adev.uc, d))

(* The mixer paths switched on are those of the devices in use: none is    *)
(* left on when its last user goes, none is reset under a user, although   *)
(* devices share paths and releasing a microphone applies the playback     *)
(* path once more.                                                         *)
PathsMatchUse ==
    adev.path = {Path(d) : d \in {c \in CodecDevice : Users(adev.uc, c) # {}}}

(* The amplifier is powered exactly while a device that sounds through the *)
(* speaker is on, in whichever of the two modes.                           *)
AmplifierServesSpeaker == adev.amp.powered <=> \E d \in Amplified : adev.ref[d] > 0

(* A stream out of standby has its usecase in the list and one in standby  *)
(* has none (a paused offload stream has given its usecase up); the call   *)
(* has one while in_call.                                                  *)
UsecasesMatchStreams ==
    /\ \A o \in Output : o \in adev.listed <=>
          /\ o \in Streams /\ ~out[o].standby
          /\ out[o].state \notin {"PAUSED", "PAUSED_FLUSHED"}
    /\ "CAPTURE" \in adev.listed <=> ~in.standby
    /\ "VOICE_CALL" \in adev.listed <=> adev.in_call
    /\ \A u \in Usecase \ adev.listed : adev.uc[u] = Idle

(* check_and_route_usecases: "make sure that all the usecases that are     *)
(* active on the hardware codec backend are always routed to any one       *)
(* device".                                                                *)
OnePlaybackDevice ==
    \A o, p \in Output \intersect adev.listed : adev.uc[o].out = adev.uc[p].out

(* select_devices: "If the voice call is active, use the sound devices of  *)
(* voice call usecase".                                                    *)
CallDecides ==
    adev.in_call =>
        /\ \A o \in Output \intersect adev.listed :
              adev.uc[o].out = adev.uc["VOICE_CALL"].out
        /\ adev.uc["VOICE_CALL"].in # NONE /\ "CAPTURE" \in adev.listed =>
              adev.uc["CAPTURE"].in = adev.uc["VOICE_CALL"].in

(* Between out_write releasing the device lock and the input's forced      *)
(* standby, the input it chose stays the active one (LOG_ALWAYS_FATAL_IF). *)
ResetInputStaysActive == lock_inputs = "reset" => adev.active_input /\ ~in.standby

(* audio_device.active_input is the input exactly while it is running.     *)
ActiveInputRuns == adev.active_input <=> ~in.standby
=============================================================================

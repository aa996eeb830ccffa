---------------------------- MODULE VoiceSession ----------------------------
(***************************************************************************)
(* The session with the modem (voice.c): its PCMs and those of the         *)
(* Bluetooth headset, opened and closed by routing, mode and band; and     *)
(* what the modem was told last through ril_interface.c.                   *)
(*                                                                         *)
(* Every operation runs under adev->lock and is one step; only the         *)
(* Bluetooth flags are stored without it.                                  *)
(***************************************************************************)
EXTENDS Naturals

CONSTANTS
    Devices,   \* what outputs are routed to
    Volumes,   \* volumes of the voice
    Failures   \* which PCMs may fail to open: voice_rx, voice_tx, sco_rx, sco_tx

Modes == {"NORMAL", "IN_COMMUNICATION", "IN_CALL"}

ASSUME VoiceAssumption ==
    /\ Devices \subseteq {"EARPIECE", "SPEAKER", "HEADSET", "SCO"}
    /\ Devices # {} /\ Volumes # {}
    /\ Failures \subseteq {"voice_rx", "voice_tx", "sco_rx", "sco_tx"}

VARIABLES
    config,     \* the properties disable_two_mic and force_voice_config
    primary,    \* the device of the primary output
    routed,     \* it has been routed in this mode
    mode,
    in_call,
    volume,     \* the cached volume
    bluetooth,  \* bluetooth_wb, bluetooth_nrec, bt_sco_active, and the SCO PCMs
    session,    \* struct voice_session
    modem       \* the last request of each kind
vars == <<config, primary, routed, mode, in_call, volume, bluetooth, session, modem>>

(* A PCM is closed, open at a rate, or a handle that is not ready. *)
Closed == "closed"
Bad    == "bad"
Rates  == {"8 kHz", "16 kHz"}

Rate(s)    == IF s.wb_amr_type >= 1 THEN "16 kHz" ELSE "8 kHz"
ScoRate(b) == IF b.wb THEN "16 kHz" ELSE "8 kHz"

-----------------------------------------------------------------------------
(* Functions of voice.c and ril_interface.c, on the session (s), the       *)
(* Bluetooth data (b) and what the modem knows (m).                        *)

AudioPath(s, b) ==
    CASE s.out_device = "SPEAKER" -> "SPEAKER"
      [] s.out_device = "HEADSET" -> "HEADSET"
      [] s.out_device = "SCO" ->
            IF b.wb THEN IF b.nrec THEN "BLUETOOTH_WB" ELSE "BLUETOOTH_WB_NO_NR"
                    ELSE IF b.nrec THEN "BLUETOOTH" ELSE "BLUETOOTH_NO_NR"
      [] OTHER -> "EARPIECE"

SoundType(d) ==
    CASE d = "SPEAKER" -> "SPEAKER"
      [] d = "HEADSET" -> "HEADSET"
      [] d = "SCO" -> "BTVOICE"
      [] OTHER -> "VOICE"

set_voice_session_volume(m, s, v) == [m EXCEPT !.volume = <<SoundType(s.out_device), v>>]

prepare_voice_session(s, d) ==
    [s EXCEPT !.out_device = d,
              !.two_mic = d \in {"EARPIECE", "SPEAKER"} /\ ~config.two_mic_disabled]

(* start_voice_session; fail is the PCM that does not open, or none.  A    *)
(* failing RX PCM ends the process, which closes the TX PCM it does not    *)
(* have: see Restart.                                                      *)
start_voice_session(s, fail) ==
    IF s.rx # Closed \/ s.tx # Closed THEN s
    ELSE IF fail = "voice_tx" THEN [s EXCEPT !.tx = Bad]
    ELSE [s EXCEPT !.rx = Rate(s), !.tx = Rate(s)]

Starts(s, fail) == s.rx = Closed /\ s.tx = Closed /\ fail # "voice_tx"
TwoMic(m, s)    == [m EXCEPT !.two_mic = s.two_mic]

stop_voice_session(s) == [s EXCEPT !.rx = Closed, !.tx = Closed, !.out_device = "NONE"]

ScoPcms(b, fail) ==
    IF fail \in {"sco_rx", "sco_tx"} THEN b
    ELSE [b EXCEPT !.sco_rx = ScoRate(b), !.sco_tx = ScoRate(b)]

-----------------------------------------------------------------------------
(* Functions of audio_hw.c.  A state of the call: in_call, session, modem. *)

Call == [in_call |-> in_call, s |-> session, m |-> modem]

stop_voice_call(c) ==
    [in_call |-> FALSE, s |-> stop_voice_session(c.s), m |-> c.m]

(* select_devices prepares the session and tells the modem the path. *)
start_voice_call(c, b, d, fail) ==
    LET ready == prepare_voice_session(c.s, d)
        open  == start_voice_session(ready, fail)
        path  == [c.m EXCEPT !.path = AudioPath(ready, b)]
        mic   == IF Starts(ready, fail) THEN TwoMic(path, ready) ELSE path
    IN  [in_call |-> TRUE, s |-> open,
         m |-> IF mode = "IN_CALL" THEN set_voice_session_volume(mic, open, volume) ELSE mic]

(* MUTANT: the modem's PCMs stay open when the headset goes. *)
stop_voice_session_bt_sco_KeepsSession(c) == c

stop_voice_session_bt_sco(c) ==
    IF mode = "IN_CALL" THEN c
    ELSE [c EXCEPT !.s = stop_voice_session(c.s)]

start_voice_session_bt_sco(c, b, fail) ==
    IF b.sco_rx # Closed \/ b.sco_tx # Closed \/ fail \in {"sco_rx", "sco_tx"} \/ mode = "IN_CALL"
    THEN c
    ELSE [c EXCEPT !.s = start_voice_session(c.s, fail),
                   !.m = IF Starts(c.s, fail) THEN TwoMic(c.m, c.s) ELSE c.m]

(* The Bluetooth part of out_set_parameters. *)
ScoOn(d)  == d = "SCO" /\ mode # "NORMAL" /\ ~bluetooth.active
ScoOff(d) == d # "SCO" /\ bluetooth.active

Sco(d, fail) ==
    IF ScoOn(d) THEN ScoPcms([bluetooth EXCEPT !.active = TRUE], fail)
    ELSE IF ScoOff(d)
         THEN [bluetooth EXCEPT !.active = FALSE, !.sco_rx = Closed, !.sco_tx = Closed]
    ELSE bluetooth

ScoCall(d, fail) ==
    IF ScoOn(d) THEN start_voice_session_bt_sco(Call, bluetooth, fail)
    ELSE IF ScoOff(d) THEN stop_voice_session_bt_sco(Call)
    ELSE Call

(* MUTANT: a call in progress is routed without a restart. *)
Recall_OnlyFirst(c, b, d, fail) ==
    IF mode # "IN_CALL" \/ c.in_call THEN c ELSE start_voice_call(c, b, d, fail)

(* The call's part: a call that is on is restarted. *)
Recall(c, b, d, fail) ==
    IF mode # "IN_CALL" THEN c
    ELSE start_voice_call(IF c.in_call THEN stop_voice_call(c) ELSE c, b, d, fail)

Becomes(c) == in_call' = c.in_call /\ session' = c.s /\ modem' = c.m

-----------------------------------------------------------------------------
Fails == (Failures \ {"voice_rx"}) \union {"none"}

(* out_set_parameters of the primary output, and of another one. *)
OutSetParameters(d) ==
    /\ \E fail \in Fails :
          /\ bluetooth' = Sco(d, fail)
          /\ Becomes(Recall(ScoCall(d, fail), bluetooth', d, fail))
    /\ primary' = d /\ routed' = TRUE
    /\ UNCHANGED <<config, mode, volume>>

OtherSetParameters(d) ==
    /\ ScoOn(d) \/ ScoOff(d)
    /\ \E fail \in Fails : bluetooth' = Sco(d, fail) /\ Becomes(ScoCall(d, fail))
    /\ UNCHANGED <<config, primary, routed, mode, volume>>

(* adev_set_mode.  The framework sets a mode and routes the primary output *)
(* before it sets the next one.                                            *)
SetMode(m) ==
    /\ m # mode /\ routed
    /\ mode' = m /\ routed' = FALSE
    /\ Becomes(IF m = "NORMAL" /\ in_call THEN stop_voice_call(Call) ELSE Call)
    /\ UNCHANGED <<config, primary, volume, bluetooth>>

SetVoiceVolume(v) ==
    /\ v # volume /\ volume' = v
    /\ modem' = IF mode = "IN_CALL" THEN set_voice_session_volume(modem, session, v) ELSE modem
    /\ UNCHANGED <<config, primary, routed, mode, in_call, bluetooth, session>>

(* adev_set_parameters, without the lock. *)
SetBluetooth(wb, nrec) ==
    /\ bluetooth.wb # wb \/ bluetooth.nrec # nrec
    /\ bluetooth' = [bluetooth EXCEPT !.wb = wb, !.nrec = nrec]
    /\ UNCHANGED <<config, primary, routed, mode, in_call, volume, session, modem>>

(* voice_session_wb_amr_callback; with a forced band it is not registered. *)
WbAmrReport(t) ==
    /\ config.forced = "no" /\ session.wb_amr_type # t
    /\ LET c == [Call EXCEPT !.s.wb_amr_type = t]
       IN  \E fail \in Fails :
              Becomes(IF in_call THEN start_voice_call(stop_voice_call(c), bluetooth, primary, fail)
                      ELSE c)
    /\ UNCHANGED <<config, primary, routed, mode, volume, bluetooth>>

(* voice_session_init, for given properties. *)
NewSession(forced) ==
    [rx |-> Closed, tx |-> Closed, out_device |-> "NONE", two_mic |-> FALSE,
     wb_amr_type |-> IF forced = "wide" THEN 1 ELSE 0]
NewBluetooth ==
    [wb |-> FALSE, nrec |-> FALSE, active |-> FALSE, sco_rx |-> Closed, sco_tx |-> Closed]

(* An RX PCM that does not open, and the process starts again.  The        *)
(* framework sets mode and routes anew.                                    *)
Restart ==
    /\ "voice_rx" \in Failures /\ mode # "NORMAL"
    /\ (session.rx = Closed /\ session.tx = Closed) \/ in_call
    /\ mode' = "NORMAL" /\ routed' = TRUE /\ in_call' = FALSE
    /\ session' = NewSession(config.forced) /\ bluetooth' = NewBluetooth
    /\ UNCHANGED <<config, primary, volume, modem>>

Init ==
    /\ config \in [two_mic_disabled : BOOLEAN, forced : {"no", "narrow", "wide"}]
    /\ primary \in Devices /\ routed = TRUE
    /\ mode = "NORMAL" /\ in_call = FALSE /\ volume \in Volumes
    /\ bluetooth = NewBluetooth /\ session = NewSession(config.forced)
    /\ modem = [path |-> "NONE", volume |-> <<"NONE", volume>>, two_mic |-> FALSE]

Next ==
    \/ \E d \in Devices : OutSetParameters(d) \/ OtherSetParameters(d)
    \/ \E m \in Modes : SetMode(m)
    \/ \E v \in Volumes : SetVoiceVolume(v)
    \/ \E wb, nrec \in BOOLEAN : SetBluetooth(wb, nrec)
    \/ \E t \in {0, 1} : WbAmrReport(t)
    \/ Restart

Spec == Init /\ [][Next]_vars

-----------------------------------------------------------------------------
(* Every variable in its range; the headset's PCMs are open both or none,  *)
(* whichever fails, as are the modem's once both have opened.              *)
TypeOK ==
    /\ config \in [two_mic_disabled : BOOLEAN, forced : {"no", "narrow", "wide"}]
    /\ primary \in Devices /\ routed \in BOOLEAN /\ mode \in Modes /\ in_call \in BOOLEAN
    /\ volume \in Volumes
    /\ {bluetooth.wb, bluetooth.nrec, bluetooth.active} \subseteq BOOLEAN
    /\ bluetooth.sco_rx = bluetooth.sco_tx /\ bluetooth.sco_rx \in Rates \union {Closed}
    /\ session.tx \in Rates \union {Closed, Bad}
    /\ session.rx = IF session.tx = Bad THEN Closed ELSE session.tx
    /\ session.out_device \in Devices \union {"NONE"}
    /\ session.two_mic \in BOOLEAN /\ session.wb_amr_type \in {0, 1}

(* Once the primary output is routed in a call, the call is on, its        *)
(* session has PCMs unless the TX one failed, and the modem has the path   *)
(* and volume of the output's device, over route changes, headsets that    *)
(* come and go, band reports and a volume set at any time                  *)
(* (start_voice_call, stop_voice_session_bt_sco).                          *)
CallIsServed ==
    mode = "IN_CALL" /\ routed =>
        /\ in_call /\ session.tx # Closed
        /\ session.out_device = primary
        /\ modem.volume = <<SoundType(primary), volume>>
        /\ primary # "SCO" => modem.path = AudioPath(session, bluetooth)

(* Without a headset its PCMs are closed, and without a call as well no    *)
(* PCM to the modem stays open, in whatever order mode, route and band     *)
(* changed (stop_voice_session_bt_sco, adev_set_mode).                     *)
UnusedIsClosed ==
    /\ ~bluetooth.active => bluetooth.sco_rx = Closed
    /\ ~in_call /\ ~bluetooth.active /\ mode # "IN_CALL" => session.tx = Closed

(* "reopen the modem PCMs at the new rate" (voice_session_wb_amr_callback):*)
(* in a call they run at the rate of the band.                             *)
(* False: a session that the headset opened for a call over the Internet   *)
(* is kept when the phone call starts, at the rate it was opened with.     *)
CallAtBandRate == in_call /\ session.rx # Closed => session.rx = Rate(session)
=============================================================================

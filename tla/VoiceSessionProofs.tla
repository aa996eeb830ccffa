------------------------- MODULE VoiceSessionProofs -------------------------
(***************************************************************************)
(* What the voice session guarantees on any set of devices, with any       *)
(* volumes and any failures to open a PCM: a call that is routed is        *)
(* served, and nothing stays open that nobody uses.                        *)
(***************************************************************************)
EXTENDS VoiceSession, TLAPS

Sessions ==
    {s \in [rx : Rates \union {Closed}, tx : Rates \union {Closed, Bad},
            out_device : Devices \union {"NONE"}, two_mic : BOOLEAN, wb_amr_type : {0, 1}] :
        s.rx = IF s.tx = Bad THEN Closed ELSE s.tx}

Bluetooths ==
    {b \in [wb : BOOLEAN, nrec : BOOLEAN, active : BOOLEAN,
            sco_rx : Rates \union {Closed}, sco_tx : Rates \union {Closed}] : b.sco_rx = b.sco_tx}

Paths == {"NONE", "EARPIECE", "SPEAKER", "HEADSET", "BLUETOOTH", "BLUETOOTH_NO_NR",
          "BLUETOOTH_WB", "BLUETOOTH_WB_NO_NR"}
Sounds == {"NONE", "VOICE", "SPEAKER", "HEADSET", "BTVOICE"}
Modems == [path : Paths, volume : Sounds \X Volumes, two_mic : BOOLEAN]

Calls == [in_call : BOOLEAN, s : Sessions, m : Modems]

Typed ==
    /\ config \in [two_mic_disabled : BOOLEAN, forced : {"no", "narrow", "wide"}]
    /\ primary \in Devices /\ routed \in BOOLEAN /\ mode \in Modes /\ volume \in Volumes
    /\ in_call \in BOOLEAN /\ session \in Sessions /\ modem \in Modems
    /\ bluetooth \in Bluetooths

(* Both properties are needed: that a mode other than a call's finds the   *)
(* PCMs closed or a call to stop rests on the call having been served.     *)
IInv == Typed /\ UnusedIsClosed /\ CallIsServed

-----------------------------------------------------------------------------
(* The state of the call is one.                                           *)
LEMMA CallTyped == Typed => Call \in Calls /\ Call.in_call = in_call /\ Call.s = session /\ Call.m = modem
BY DEF Typed, Call, Calls

(* What the modem is told.                                                 *)
LEMMA PathsAndSounds ==
    /\ \A s, b : AudioPath(s, b) \in Paths
    /\ \A d : SoundType(d) \in Sounds
BY DEF AudioPath, SoundType, Paths, Sounds

(* Opening the session leaves its device alone, and a TX PCM that is ready *)
(* or bad.                                                                 *)
LEMMA SessionStarts ==
    ASSUME NEW s \in Sessions, NEW fail
    PROVE  /\ start_voice_session(s, fail) \in Sessions
           /\ start_voice_session(s, fail).tx # Closed
           /\ start_voice_session(s, fail).out_device = s.out_device
<1>1. CASE s.rx # Closed \/ s.tx # Closed
  <2>1. start_voice_session(s, fail) = s
    BY <1>1 DEF start_voice_session
  <2>2. s.tx # Closed
    BY <1>1 DEF Sessions, Closed, Bad
  <2>3. QED
    BY <2>1, <2>2
<1>2. CASE ~(s.rx # Closed \/ s.tx # Closed) /\ fail = "voice_tx"
  <2>1. start_voice_session(s, fail) = [s EXCEPT !.tx = Bad]
    BY <1>2 DEF start_voice_session
  <2>2. QED
    BY <1>2, <2>1 DEF Sessions, Closed, Bad
<1>3. CASE ~(s.rx # Closed \/ s.tx # Closed) /\ fail # "voice_tx"
  <2>1. start_voice_session(s, fail) = [s EXCEPT !.rx = Rate(s), !.tx = Rate(s)]
    BY <1>3 DEF start_voice_session
  <2>2. Rate(s) \in Rates /\ Rate(s) # Closed /\ Rate(s) # Bad
    BY DEF Rate, Rates, Closed, Bad
  <2>3. QED
    BY <2>1, <2>2 DEF Sessions
<1>4. QED
  BY <1>1, <1>2, <1>3

(* Closing the session closes both PCMs.                                   *)
LEMMA SessionStops ==
    ASSUME NEW s \in Sessions
    PROVE  stop_voice_session(s) \in Sessions /\ stop_voice_session(s).tx = Closed
BY DEF stop_voice_session, Sessions, Closed, Bad

(* A call that stops.                                                      *)
LEMMA CallStops ==
    ASSUME NEW c \in Calls
    PROVE  stop_voice_call(c) \in Calls /\ stop_voice_call(c).s.tx = Closed
BY SessionStops DEF stop_voice_call, Calls

(* A call that starts is served: it has PCMs unless the TX one failed, and *)
(* the modem has the path and, in a phone call, the volume of the device.  *)
LEMMA CallStarts ==
    ASSUME Typed, NEW c \in Calls, NEW b, NEW d \in Devices, NEW fail
    PROVE  /\ start_voice_call(c, b, d, fail) \in Calls
           /\ start_voice_call(c, b, d, fail).in_call
           /\ start_voice_call(c, b, d, fail).s.tx # Closed
           /\ start_voice_call(c, b, d, fail).s.out_device = d
           /\ mode = "IN_CALL" =>
                /\ start_voice_call(c, b, d, fail).m.volume = <<SoundType(d), volume>>
                /\ d # "SCO" => \A s, b2 : s.out_device = d =>
                      start_voice_call(c, b, d, fail).m.path = AudioPath(s, b2)
<1> DEFINE ready == prepare_voice_session(c.s, d)
           open  == start_voice_session(ready, fail)
           path  == [c.m EXCEPT !.path = AudioPath(ready, b)]
           mic   == IF Starts(ready, fail) THEN TwoMic(path, ready) ELSE path
           told  == IF mode = "IN_CALL" THEN set_voice_session_volume(mic, open, volume) ELSE mic
           r     == start_voice_call(c, b, d, fail)
<1>1. ready \in Sessions /\ ready.out_device = d
  <2> DEFINE two_mic == d \in {"EARPIECE", "SPEAKER"} /\ ~config.two_mic_disabled
  <2>1. ready = [c.s EXCEPT !.out_device = d, !.two_mic = two_mic] /\ two_mic \in BOOLEAN
    BY DEF prepare_voice_session
  <2> HIDE DEF two_mic, ready
  <2>2. QED
    BY <2>1 DEF Calls, Sessions
<1>2. open \in Sessions /\ open.tx # Closed /\ open.out_device = d
  BY <1>1, SessionStarts
<1>3. r = [in_call |-> TRUE, s |-> open, m |-> told]
  BY DEF start_voice_call
<1> HIDE DEF ready, open, r
<1>4. path \in Modems /\ path.path = AudioPath(ready, b)
  BY PathsAndSounds DEF Calls, Modems
<1> HIDE DEF path
<1>5. mic \in Modems /\ mic.path = path.path
  <2>1. CASE Starts(ready, fail)
    BY <1>1, <1>4, <2>1 DEF TwoMic, Modems, Sessions
  <2>2. CASE ~Starts(ready, fail)
    BY <1>4, <2>2
  <2>3. QED
    BY <2>1, <2>2
<1> HIDE DEF mic
<1>6. CASE mode = "IN_CALL"
  <2>1. told = [mic EXCEPT !.volume = <<SoundType(d), volume>>]
    BY <1>2, <1>6 DEF set_voice_session_volume
  <2> HIDE DEF told
  <2>2. SoundType(d) \in Sounds /\ volume \in Volumes
    BY PathsAndSounds DEF Typed
  <2>3. /\ told \in Modems /\ told.volume = <<SoundType(d), volume>>
        /\ told.path = AudioPath(ready, b)
    BY <1>4, <1>5, <2>1, <2>2 DEF Modems
  <2>4. d # "SCO" => \A s, b2 : s.out_device = d => AudioPath(ready, b) = AudioPath(s, b2)
    BY <1>1 DEF AudioPath
  <2> HIDE DEF r
  <2>5. QED
    BY <1>2, <1>3, <2>3, <2>4 DEF Calls, r
<1>7. CASE mode # "IN_CALL"
  <2>1. told = mic
    BY <1>7
  <2>2. QED
    BY <1>2, <1>3, <1>5, <1>7, <2>1 DEF Calls, r
<1>8. QED
  BY <1>6, <1>7

(* The PCMs of a headset that is not there are closed.                     *)
LEMMA HeadsetPcms ==
    ASSUME Typed, UnusedIsClosed, NEW d \in Devices, NEW fail
    PROVE  /\ Sco(d, fail) \in Bluetooths
           /\ ~Sco(d, fail).active => Sco(d, fail).sco_rx = Closed
           /\ ~Sco(d, fail).active => ScoOff(d) \/ ~bluetooth.active
<1>1. CASE ScoOn(d)
  <2> DEFINE b == [bluetooth EXCEPT !.active = TRUE]
  <2>1. Sco(d, fail) = ScoPcms(b, fail)
    BY <1>1 DEF Sco
  <2>2. b \in Bluetooths /\ b.active
    BY DEF Typed, Bluetooths
  <2> HIDE DEF b
  <2>3. ScoPcms(b, fail) \in {b, [b EXCEPT !.sco_rx = ScoRate(b), !.sco_tx = ScoRate(b)]}
    BY DEF ScoPcms
  <2>4. ScoRate(b) \in Rates
    BY DEF ScoRate, Rates
  <2>5. ScoPcms(b, fail) \in Bluetooths /\ ScoPcms(b, fail).active
    BY <2>2, <2>3, <2>4 DEF Bluetooths
  <2>6. QED
    BY <2>1, <2>5
<1>2. CASE ~ScoOn(d) /\ ScoOff(d)
  <2>1. Sco(d, fail) = [bluetooth EXCEPT !.active = FALSE, !.sco_rx = Closed, !.sco_tx = Closed]
    BY <1>2 DEF Sco
  <2>2. QED
    BY <1>2, <2>1 DEF Typed, Bluetooths
<1>3. CASE ~ScoOn(d) /\ ~ScoOff(d)
  <2>1. Sco(d, fail) = bluetooth
    BY <1>3 DEF Sco
  <2>2. QED
    BY <2>1 DEF Typed, UnusedIsClosed
<1>4. QED
  BY <1>1, <1>2, <1>3

(* The session under a headset: a phone call keeps its own, and a headset  *)
(* that goes closes that of another call.                                  *)
LEMMA HeadsetSession ==
    ASSUME Typed, NEW d \in Devices, NEW fail
    PROVE  /\ ScoCall(d, fail) \in Calls /\ ScoCall(d, fail).in_call = in_call
           /\ mode = "IN_CALL" => ScoCall(d, fail) = Call
           /\ ScoOff(d) /\ mode # "IN_CALL" => ScoCall(d, fail).s.tx = Closed
           /\ ~ScoOn(d) /\ ~ScoOff(d) => ScoCall(d, fail) = Call
<1>1. Call \in Calls /\ Call.in_call = in_call /\ Call.s \in Sessions /\ Call.m \in Modems
  BY CallTyped DEF Typed
<1>2. ScoOff(d) => ~ScoOn(d)
  BY DEF ScoOff, ScoOn
<1>3. CASE ScoOn(d)
  <2> DEFINE r == start_voice_session_bt_sco(Call, bluetooth, fail)
             m == IF Starts(Call.s, fail) THEN TwoMic(Call.m, Call.s) ELSE Call.m
  <2>1. ScoCall(d, fail) = r
    BY <1>3 DEF ScoCall
  <2>2. m \in Modems
    BY <1>1 DEF TwoMic, Modems, Sessions
  <2>3. r \in {Call, [Call EXCEPT !.s = start_voice_session(Call.s, fail), !.m = m]}
    BY DEF start_voice_session_bt_sco
  <2>4. mode = "IN_CALL" => r = Call
    BY DEF start_voice_session_bt_sco
  <2>5. start_voice_session(Call.s, fail) \in Sessions
    BY <1>1, SessionStarts
  <2> HIDE DEF m, r
  <2>6. r \in Calls /\ r.in_call = in_call
    BY <1>1, <2>2, <2>3, <2>5 DEF Calls
  <2>7. QED
    BY <1>2, <1>3, <2>1, <2>4, <2>6
<1>4. CASE ScoOff(d)
  <2>1. ScoCall(d, fail) = stop_voice_session_bt_sco(Call)
    BY <1>2, <1>4 DEF ScoCall
  <2>2. CASE mode = "IN_CALL"
    BY <1>1, <2>1, <2>2, <1>4 DEF stop_voice_session_bt_sco
  <2>3. CASE mode # "IN_CALL"
    <3>1. ScoCall(d, fail) = [Call EXCEPT !.s = stop_voice_session(Call.s)]
      BY <2>1, <2>3 DEF stop_voice_session_bt_sco
    <3>2. stop_voice_session(Call.s) \in Sessions /\ stop_voice_session(Call.s).tx = Closed
      BY <1>1, SessionStops
    <3>3. QED
      BY <1>1, <1>4, <2>3, <3>1, <3>2 DEF Calls
  <2>4. QED
    BY <2>2, <2>3
<1>5. CASE ~ScoOn(d) /\ ~ScoOff(d)
  BY <1>1, <1>5 DEF ScoCall
<1>6. QED
  BY <1>3, <1>4, <1>5

-----------------------------------------------------------------------------
(* The state of a call is stored.                                          *)
LEMMA BecomesTyped ==
    ASSUME NEW c \in Calls, Becomes(c)
    PROVE  in_call' \in BOOLEAN /\ session' \in Sessions /\ modem' \in Modems
BY DEF Becomes, Calls

(* The session is closed, and the modem knows nothing.                     *)
LEMMA InitHolds == Init => IInv
<1> SUFFICES ASSUME Init PROVE IInv
  OBVIOUS
<1>1. session \in Sessions /\ session.tx = Closed
  BY DEF Init, NewSession, Sessions, Closed, Bad, Rates
<1>2. bluetooth \in Bluetooths /\ bluetooth.sco_rx = Closed
  BY DEF Init, NewBluetooth, Bluetooths, Rates, Closed
<1>3. modem \in Modems
  BY DEF Init, Modems, Paths, Sounds
<1>4. Typed
  BY <1>1, <1>2, <1>3 DEF Init, Typed, Modes
<1>5. QED
  BY <1>1, <1>2, <1>4 DEF Init, IInv, UnusedIsClosed, CallIsServed

(* A started call fulfils both properties.                                 *)
LEMMA StartedIsServed ==
    ASSUME Typed, NEW c \in Calls, NEW b, NEW d \in Devices, NEW fail, in_call \/ mode = "IN_CALL",
           Becomes(start_voice_call(c, b, d, fail)),
           primary' = d, bluetooth' \in Bluetooths, ~bluetooth'.active => bluetooth'.sco_rx = Closed,
           routed' \in BOOLEAN, UNCHANGED <<config, mode, volume>>
    PROVE  IInv'
<1> DEFINE r == start_voice_call(c, b, d, fail)
<1>1. /\ r \in Calls /\ r.in_call /\ r.s.tx # Closed /\ r.s.out_device = d
      /\ mode = "IN_CALL" =>
           /\ r.m.volume = <<SoundType(d), volume>>
           /\ d # "SCO" => \A s, b2 : s.out_device = d => r.m.path = AudioPath(s, b2)
  BY CallStarts
<1> HIDE DEF r
<1>2. in_call' = r.in_call /\ session' = r.s /\ modem' = r.m
  BY DEF Becomes, r
<1>3. Typed'
  BY <1>1, <1>2, BecomesTyped DEF Typed, Calls
<1>4. UnusedIsClosed'
  BY <1>1, <1>2 DEF UnusedIsClosed
<1>5. CallIsServed'
  BY <1>1, <1>2 DEF CallIsServed
<1>6. QED
  BY <1>3, <1>4, <1>5 DEF IInv

(* Without a phone call, headset and session are closed together.          *)
LEMMA HeadsetKeeps ==
    ASSUME IInv, mode # "IN_CALL", NEW d \in Devices, NEW fail,
           bluetooth' = Sco(d, fail), Becomes(ScoCall(d, fail)),
           primary' \in Devices, routed' \in BOOLEAN, UNCHANGED <<config, mode, volume>>
    PROVE  IInv'
<1>1. /\ ScoCall(d, fail) \in Calls /\ ScoCall(d, fail).in_call = in_call
      /\ ScoOff(d) => ScoCall(d, fail).s.tx = Closed
      /\ ~ScoOn(d) /\ ~ScoOff(d) => ScoCall(d, fail) = Call
  BY HeadsetSession DEF IInv
<1>2. /\ bluetooth' \in Bluetooths /\ (~bluetooth'.active => bluetooth'.sco_rx = Closed)
      /\ ~bluetooth'.active => ScoOff(d) \/ ~bluetooth.active
  BY HeadsetPcms DEF IInv
<1>3. ScoOn(d) => bluetooth'.active
  <2> DEFINE b == [bluetooth EXCEPT !.active = TRUE]
  <2>1. ScoOn(d) => bluetooth' = ScoPcms(b, fail)
    BY DEF Sco
  <2>2. b \in Bluetooths /\ b.active
    BY DEF IInv, Typed, Bluetooths
  <2> HIDE DEF b
  <2>3. ScoPcms(b, fail).active
    BY <2>2 DEF ScoPcms, Bluetooths
  <2>4. QED
    BY <2>1, <2>3
<1>4. Typed'
  BY <1>1, <1>2, BecomesTyped DEF IInv, Typed
<1>5. UnusedIsClosed'
  <2> SUFFICES ASSUME ~in_call', ~bluetooth'.active PROVE session'.tx = Closed
    BY <1>2 DEF UnusedIsClosed
  <2>1. CASE ScoOff(d)
    BY <1>1, <2>1 DEF Becomes
  <2>2. CASE ~ScoOff(d)
    <3>1. session' = session /\ in_call' = in_call /\ ~bluetooth.active
      BY <1>1, <1>2, <1>3, <2>2, CallTyped DEF Becomes, IInv
    <3>2. QED
      BY <3>1 DEF IInv, UnusedIsClosed
  <2>3. QED
    BY <2>1, <2>2
<1>6. CallIsServed'
  BY DEF CallIsServed
<1>7. QED
  BY <1>4, <1>5, <1>6 DEF IInv

(* A route of the primary output restarts a phone call.                    *)
LEMMA OutSetParametersKeeps ==
    ASSUME IInv, NEW d \in Devices, OutSetParameters(d)
    PROVE  IInv'
<1>1. PICK fail \in Fails :
        /\ bluetooth' = Sco(d, fail)
        /\ Becomes(Recall(ScoCall(d, fail), bluetooth', d, fail))
  BY DEF OutSetParameters
<1>2. primary' = d /\ routed' = TRUE /\ UNCHANGED <<config, mode, volume>>
  BY DEF OutSetParameters
<1>3. CASE mode = "IN_CALL"
  <2> DEFINE c == IF in_call THEN stop_voice_call(Call) ELSE Call
  <2>1. ScoCall(d, fail) = Call /\ Call.in_call = in_call
    BY <1>3, HeadsetSession, CallTyped DEF IInv
  <2>2. Becomes(start_voice_call(c, bluetooth', d, fail))
    BY <1>1, <1>3, <2>1 DEF Recall
  <2>3. c \in Calls
    BY CallTyped, CallStops DEF IInv
  <2> HIDE DEF c
  <2>4. bluetooth' \in Bluetooths /\ (~bluetooth'.active => bluetooth'.sco_rx = Closed)
    BY <1>1, HeadsetPcms DEF IInv
  <2>5. QED
    BY <1>2, <1>3, <2>2, <2>3, <2>4, StartedIsServed DEF IInv
<1>4. CASE mode # "IN_CALL"
  <2>1. Becomes(ScoCall(d, fail))
    BY <1>1, <1>4 DEF Recall
  <2>2. QED
    BY <1>1, <1>2, <1>4, <2>1, HeadsetKeeps
<1>5. QED
  BY <1>3, <1>4

(* A route of another output does not touch a phone call.                  *)
LEMMA OtherSetParametersKeeps ==
    ASSUME IInv, NEW d \in Devices, OtherSetParameters(d)
    PROVE  IInv'
<1>1. PICK fail \in Fails : bluetooth' = Sco(d, fail) /\ Becomes(ScoCall(d, fail))
  BY DEF OtherSetParameters
<1>2. UNCHANGED <<config, primary, routed, mode, volume>>
  BY DEF OtherSetParameters
<1>3. CASE mode # "IN_CALL"
  BY <1>1, <1>2, <1>3, HeadsetKeeps DEF IInv, Typed
<1>4. CASE mode = "IN_CALL"
  <2>1. UNCHANGED <<in_call, session, modem>>
    BY <1>1, <1>4, HeadsetSession, CallTyped DEF Becomes, IInv
  <2>2. bluetooth' \in Bluetooths /\ (~bluetooth'.active => bluetooth'.sco_rx = Closed)
    BY <1>1, HeadsetPcms DEF IInv
  <2>3. Typed' /\ UnusedIsClosed'
    BY <1>2, <1>4, <2>1, <2>2 DEF IInv, Typed, UnusedIsClosed
  <2>4. session.out_device # "SCO" => AudioPath(session, bluetooth') = AudioPath(session, bluetooth)
    BY DEF AudioPath
  <2>5. CallIsServed'
    BY <1>2, <2>1, <2>4 DEF IInv, CallIsServed
  <2>6. QED
    BY <2>3, <2>5 DEF IInv
<1>5. QED
  BY <1>3, <1>4

(* A new mode is not routed yet; the normal one ends the call.             *)
LEMMA SetModeKeeps ==
    ASSUME IInv, NEW m \in Modes, SetMode(m)
    PROVE  IInv'
<1>1. /\ mode' = m /\ routed' = FALSE /\ routed
      /\ UNCHANGED <<config, primary, volume, bluetooth>>
  BY DEF SetMode
<1>2. mode = "IN_CALL" => in_call
  BY <1>1 DEF IInv, CallIsServed
<1>3. CASE m = "NORMAL" /\ in_call
  <2>1. Becomes(stop_voice_call(Call))
    BY <1>3 DEF SetMode
  <2>2. stop_voice_call(Call) \in Calls /\ stop_voice_call(Call).s.tx = Closed
    BY CallTyped, CallStops DEF IInv
  <2>3. session'.tx = Closed
    BY <2>1, <2>2 DEF Becomes
  <2>4. Typed'
    BY <1>1, <2>1, <2>2, BecomesTyped DEF IInv, Typed
  <2>5. QED
    BY <1>1, <2>3, <2>4 DEF IInv, UnusedIsClosed, CallIsServed
<1>4. CASE ~(m = "NORMAL" /\ in_call)
  <2>1. UNCHANGED <<in_call, session, modem>>
    BY <1>4, CallTyped DEF SetMode, Becomes, IInv
  <2>2. QED
    BY <1>1, <1>2, <2>1 DEF IInv, Typed, UnusedIsClosed, CallIsServed
<1>5. QED
  BY <1>3, <1>4

(* In a phone call the modem is told a new volume.                         *)
LEMMA SetVoiceVolumeKeeps ==
    ASSUME IInv, NEW v \in Volumes, SetVoiceVolume(v)
    PROVE  IInv'
<1>1. /\ volume' = v
      /\ UNCHANGED <<config, primary, routed, mode, in_call, bluetooth, session>>
  BY DEF SetVoiceVolume
<1>2. CASE mode = "IN_CALL"
  <2>1. modem' = [modem EXCEPT !.volume = <<SoundType(session.out_device), v>>]
    BY <1>2 DEF SetVoiceVolume, set_voice_session_volume
  <2>2. /\ modem' \in Modems /\ modem'.path = modem.path
        /\ modem'.volume = <<SoundType(session.out_device), v>>
    BY <2>1, PathsAndSounds DEF IInv, Typed, Modems
  <2>3. Typed' /\ UnusedIsClosed'
    BY <1>1, <2>2 DEF IInv, Typed, UnusedIsClosed
  <2>4. CallIsServed'
    BY <1>1, <2>2 DEF IInv, CallIsServed
  <2>5. QED
    BY <2>3, <2>4 DEF IInv
<1>3. CASE mode # "IN_CALL"
  <2>1. modem' = modem
    BY <1>3 DEF SetVoiceVolume
  <2>2. QED
    BY <1>1, <1>3, <2>1 DEF IInv, Typed, UnusedIsClosed, CallIsServed
<1>4. QED
  BY <1>2, <1>3

(* The Bluetooth flags count for a headset only.                           *)
LEMMA SetBluetoothKeeps ==
    ASSUME IInv, NEW wb \in BOOLEAN, NEW nrec \in BOOLEAN, SetBluetooth(wb, nrec)
    PROVE  IInv'
<1>1. /\ bluetooth' = [bluetooth EXCEPT !.wb = wb, !.nrec = nrec]
      /\ UNCHANGED <<config, primary, routed, mode, in_call, volume, session, modem>>
  BY DEF SetBluetooth
<1>2. /\ bluetooth' \in Bluetooths /\ bluetooth'.active = bluetooth.active
      /\ bluetooth'.sco_rx = bluetooth.sco_rx
  BY <1>1 DEF IInv, Typed, Bluetooths
<1>3. Typed' /\ UnusedIsClosed'
  BY <1>1, <1>2 DEF IInv, Typed, UnusedIsClosed
<1>4. session.out_device # "SCO" => AudioPath(session, bluetooth') = AudioPath(session, bluetooth)
  BY DEF AudioPath
<1>5. CallIsServed'
  BY <1>1, <1>4 DEF IInv, CallIsServed
<1>6. QED
  BY <1>3, <1>5 DEF IInv

(* A band report restarts a call.                                          *)
LEMMA WbAmrReportKeeps ==
    ASSUME IInv, NEW t \in {0, 1}, WbAmrReport(t)
    PROVE  IInv'
<1> DEFINE c == [Call EXCEPT !.s.wb_amr_type = t]
<1>1. c \in Calls /\ c.in_call = in_call /\ c.s = [session EXCEPT !.wb_amr_type = t] /\ c.m = modem
  BY DEF Call, Calls, IInv, Typed, Sessions
<1>2. PICK fail \in Fails :
        Becomes(IF in_call THEN start_voice_call(stop_voice_call(c), bluetooth, primary, fail)
                ELSE c)
  BY DEF WbAmrReport
<1>3. UNCHANGED <<config, primary, routed, mode, volume, bluetooth>>
  BY DEF WbAmrReport
<1> HIDE DEF c
<1>4. CASE in_call
  <2>1. Becomes(start_voice_call(stop_voice_call(c), bluetooth, primary, fail))
    BY <1>2, <1>4
  <2>2. stop_voice_call(c) \in Calls
    BY <1>1, CallStops
  <2>3. QED
    BY <1>3, <1>4, <2>1, <2>2, StartedIsServed DEF IInv, Typed, UnusedIsClosed
<1>5. CASE ~in_call
  <2>1. in_call' = in_call /\ session' = [session EXCEPT !.wb_amr_type = t] /\ modem' = modem
    BY <1>1, <1>2, <1>5 DEF Becomes
  <2>2. session' \in Sessions /\ session'.tx = session.tx /\ session'.out_device = session.out_device
    BY <2>1 DEF IInv, Typed, Sessions
  <2>3. QED
    BY <1>3, <1>5, <2>1, <2>2 DEF IInv, Typed, UnusedIsClosed, CallIsServed
<1>6. QED
  BY <1>4, <1>5

(* The process starts again.                                               *)
LEMMA RestartKeeps ==
    ASSUME IInv, Restart
    PROVE  IInv'
<1>1. session' \in Sessions /\ session'.tx = Closed
  BY DEF Restart, NewSession, Sessions, Closed, Bad, Rates
<1>2. bluetooth' \in Bluetooths /\ bluetooth'.sco_rx = Closed
  BY DEF Restart, NewBluetooth, Bluetooths, Rates, Closed
<1>3. Typed'
  BY <1>1, <1>2 DEF Restart, IInv, Typed, Modes
<1>4. QED
  BY <1>1, <1>2, <1>3 DEF Restart, IInv, UnusedIsClosed, CallIsServed

(* Both properties hold after any order of routes, modes, volumes,         *)
(* headsets, band reports and restarts.                                    *)
THEOREM Invariance == Spec => []IInv
<1>1. Init => IInv
  BY InitHolds
<1>2. IInv /\ [Next]_vars => IInv'
  <2> SUFFICES ASSUME IInv, [Next]_vars PROVE IInv'
    OBVIOUS
  <2>1. CASE UNCHANGED vars
    BY <2>1 DEF vars, IInv, Typed, UnusedIsClosed, CallIsServed
  <2>2. QED
    BY <2>1, OutSetParametersKeeps, OtherSetParametersKeeps, SetModeKeeps, SetVoiceVolumeKeeps,
       SetBluetoothKeeps, WbAmrReportKeeps, RestartKeeps DEF Next
<1>3. QED
  BY <1>1, <1>2, PTL DEF Spec

(* The PCMs of the session and of the headset are open both or none, but   *)
(* for a TX one that failed, and every field is in its range.              *)
THEOREM TypeCorrect == Spec => []TypeOK
<1>1. IInv => TypeOK
  BY DEF IInv, Typed, Sessions, Bluetooths, TypeOK
<1>2. QED
  BY <1>1, Invariance, PTL

(* A call that is routed is on, has its PCMs unless the TX one failed, and *)
(* the modem has the path and volume of its device (start_voice_call,      *)
(* stop_voice_session_bt_sco, adev_set_voice_volume).                      *)
THEOREM CallsAreServed == Spec => []CallIsServed
<1>1. IInv => CallIsServed
  BY DEF IInv
<1>2. QED
  BY <1>1, Invariance, PTL

(* Without a headset its PCMs are closed, and without a call as well no    *)
(* PCM to the modem stays open (stop_voice_session_bt_sco, adev_set_mode). *)
THEOREM UnusedPcmsAreClosed == Spec => []UnusedIsClosed
<1>1. IInv => UnusedIsClosed
  BY DEF IInv
<1>2. QED
  BY <1>1, Invariance, PTL
=============================================================================

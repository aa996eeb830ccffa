------------------------------ MODULE TfaClock ------------------------------
(***************************************************************************)
(* Switching the TFA9896 speaker amplifier (amplifier/tfa.c) on and off    *)
(* for the amplifier HAL (amplifier/amplifier.c).  The chip needs an I2S   *)
(* clock while it is switched, so tfa_clock_on starts a thread that writes *)
(* silence to the playback PCM and waits for its report, and tfa_clock_off *)
(* joins it.  The audio HAL calls with its device mutex held, so there is  *)
(* one caller at a time.                                                   *)
(***************************************************************************)
EXTENDS Amplifier

CONSTANTS
    PcmOutcomes,   \* what pcm_open of the playback PCM may do: "ready",
                   \* "busy" (the HAL has it open), "error"
    EnableMayFail, \* TRUE: the vendor's tfa_enable may fail
    Garbage,       \* what clock_enabled may hold in fresh memory
    MaxUsers       \* bound: users of a TFA mode at a time

ASSUME OutcomesAssumption ==
    /\ PcmOutcomes \subseteq {"ready", "busy", "error"} /\ PcmOutcomes # {}
    /\ EnableMayFail \in BOOLEAN
    /\ Garbage \subseteq BOOLEAN /\ Garbage # {}
    /\ MaxUsers \in Nat \ {0}

VARIABLES
    amp,           \* amp_device_t: refcount and amp_state
    stage,         \* which tfa_power tfa_device_open is at, then "ready",
                   \* "close" in tfa_device_close
    pc,            \* the caller in tfa_power
    on,            \* tfa_power's parameter
    ok,            \* rc == 0
    chip,          \* the chip is on
    writer,        \* where write_dummy_data is
    pcm,           \* it has the playback PCM open
    initializing, clock_enabled, writing
clock == <<initializing, clock_enabled, writing>>
thread == <<writer, pcm>>
vars == <<amp, stage, pc, on, ok, chip, thread, clock>>

-----------------------------------------------------------------------------
(* tfa_power, step by step. *)

Power(enable) == /\ pc' = IF enable THEN "clock_on" ELSE "tfa_enable"
                 /\ on' = enable

ClockOn ==
    /\ pc = "clock_on"
    /\ IF clock_enabled
       THEN pc' = "tfa_enable" /\ UNCHANGED <<initializing, writer>>
       ELSE pc' = "wait" /\ initializing' = TRUE /\ writer' = "open"
    /\ UNCHANGED <<amp, stage, on, ok, chip, pcm, clock_enabled, writing>>

(* while (!writing) pthread_cond_wait *)
Wait ==
    /\ pc = "wait"
    /\ IF writing
       THEN pc' = "tfa_enable" /\ clock_enabled' = TRUE
       ELSE pc' = "asleep" /\ UNCHANGED clock_enabled
    /\ UNCHANGED <<amp, stage, on, ok, chip, thread, initializing, writing>>

TfaEnable ==
    /\ pc = "tfa_enable"
    /\ ok' \in {TRUE} \union {~EnableMayFail}
    /\ chip' = IF ok' THEN on ELSE chip
    /\ pc' = "clock_off"
    /\ UNCHANGED <<amp, stage, on, thread, clock>>

(* MUTANT: the writer is told to stop and left alone. *)
ClockOff_NoJoin ==
    /\ pc = "clock_off"
    /\ pc' = "return"
    /\ initializing' = IF clock_enabled THEN FALSE ELSE initializing
    /\ clock_enabled' = FALSE
    /\ UNCHANGED <<amp, stage, on, ok, chip, thread, writing>>

ClockOff ==
    /\ pc = "clock_off"
    /\ IF clock_enabled
       THEN pc' = "join" /\ initializing' = FALSE
       ELSE pc' = "return" /\ UNCHANGED initializing
    /\ UNCHANGED <<amp, stage, on, ok, chip, thread, clock_enabled, writing>>

(* pthread_join; of a thread that never was, it returns an error. *)
Join ==
    /\ pc = "join" /\ writer \in {"finished", "none"}
    /\ writer' = "none"
    /\ clock_enabled' = FALSE
    /\ pc' = "return"
    /\ UNCHANGED <<amp, stage, on, ok, chip, pcm, initializing, writing>>

-----------------------------------------------------------------------------
(* The callers of tfa_power. *)

(* tfa_device_open: powerdown, then a full powerup and powerdown with the  *)
(* clock's fields initialised.                                             *)
OpenGoesOn ==
    /\ pc = "return" /\ ok
    /\ \/ /\ stage = "powerdown"
          /\ stage' = "powerup" /\ Power(TRUE)
          /\ writing' = FALSE /\ clock_enabled' = FALSE
       \/ /\ stage = "powerup"
          /\ stage' = "last powerdown" /\ Power(FALSE)
          /\ UNCHANGED <<writing, clock_enabled>>
       \/ /\ stage = "last powerdown"
          /\ stage' = "ready" /\ pc' = "idle"
          /\ UNCHANGED <<on, writing, clock_enabled>>
    /\ UNCHANGED <<amp, ok, chip, thread, initializing>>

OpenFails ==
    /\ pc = "return" /\ ~ok /\ stage \in {"powerdown", "powerup", "last powerdown"}
    /\ stage' = "failed" /\ pc' = "idle"
    /\ UNCHANGED <<amp, on, ok, chip, thread, clock>>

(* amp_dev_close, when the audio HAL closes: amp_dev is left set, so that  *)
(* amp_module_open opens no second device.                                 *)
CloseDevice ==
    /\ stage = "ready" /\ pc = "idle"
    /\ stage' = "close" /\ Power(FALSE)
    /\ UNCHANGED <<amp, ok, chip, thread, clock>>

DeviceClosed ==
    /\ stage = "close" /\ pc = "return"
    /\ stage' = "closed" /\ pc' = "idle"
    /\ UNCHANGED <<amp, on, ok, chip, thread, clock>>

(* Without an amplifier the audio HAL carries on. *)
NoAmplifier == stage \in {"failed", "closed"} /\ UNCHANGED vars

Count(m, enable) == IF enable THEN amp.refcount[m] + 1
                    ELSE IF amp.refcount[m] > 0 THEN amp.refcount[m] - 1 ELSE 0

(* amp_enable_output_devices for a device of mode m. *)
EnableDevice(m, enable) ==
    /\ stage = "ready" /\ pc = "idle"
    /\ Count(m, enable) <= MaxUsers
    /\ amp' = [amp EXCEPT !.refcount[m] = Count(m, enable)]
    /\ IF IF enable THEN ~amp.powered /\ Count(m, enable) = 1
                    ELSE amp.powered /\ Count(m, enable) = 0
       THEN Power(enable)
       ELSE UNCHANGED <<pc, on>>
    /\ UNCHANGED <<stage, ok, chip, thread, clock>>

(* MUTANT: amp_state follows the request, whatever became of it. *)
EnableReturns_Assumes ==
    /\ stage = "ready" /\ pc = "return"
    /\ amp' = [amp EXCEPT !.powered = on]
    /\ pc' = "idle"
    /\ UNCHANGED <<stage, on, ok, chip, thread, clock>>

EnableReturns ==
    /\ stage = "ready" /\ pc = "return"
    /\ amp' = [amp EXCEPT !.powered = IF ok THEN on ELSE @]
    /\ pc' = "idle"
    /\ UNCHANGED <<stage, on, ok, chip, thread, clock>>

-----------------------------------------------------------------------------
(* write_dummy_data. *)

(* Reporting: writing is set and the caller woken, under the mutex. *)
Report == /\ writing' = TRUE
          /\ pc' = IF pc = "asleep" THEN "wait" ELSE pc

OpenPcm ==
    /\ writer = "open"
    /\ \E outcome \in PcmOutcomes :
          /\ pcm' = (outcome = "ready")
          /\ writer' = IF outcome = "ready" THEN "write" ELSE "exit"
    /\ UNCHANGED <<amp, stage, pc, on, ok, chip, clock>>

(* The first write to the PCM, and the report after it. *)
FirstWrite ==
    /\ writer = "write"
    /\ Report
    /\ writer' = "loop"
    /\ UNCHANGED <<amp, stage, on, ok, chip, pcm, initializing, clock_enabled>>

(* MUTANT: silence is written until the clock counts as off, which takes   *)
(* the join.                                                               *)
LoopEnds_UntilClockOff ==
    /\ writer = "loop"
    /\ IF initializing \/ clock_enabled
       THEN UNCHANGED writer
       ELSE writer' = "close"
    /\ UNCHANGED <<amp, stage, pc, on, ok, chip, pcm, clock>>

(* while (initializing): further writes change nothing. *)
LoopEnds ==
    /\ writer = "loop" /\ ~initializing
    /\ writing' = FALSE
    /\ writer' = "close"
    /\ UNCHANGED <<amp, stage, pc, on, ok, chip, pcm, initializing, clock_enabled>>

ClosePcm ==
    /\ writer = "close"
    /\ pcm' = FALSE
    /\ writer' = "finished"
    /\ UNCHANGED <<amp, stage, pc, on, ok, chip, clock>>

(* The PCM did not open: the caller must not wait for ever. *)
Exit ==
    /\ writer = "exit"
    /\ Report
    /\ writer' = "finished"
    /\ UNCHANGED <<amp, stage, on, ok, chip, pcm, initializing, clock_enabled>>

-----------------------------------------------------------------------------
Init ==
    /\ amp = AmpClosed
    /\ stage = "powerdown" /\ pc = "tfa_enable" /\ on = FALSE
    /\ ok = TRUE /\ chip \in BOOLEAN
    /\ writer = "none" /\ pcm = FALSE
    /\ initializing \in BOOLEAN /\ clock_enabled \in Garbage /\ writing \in BOOLEAN

Caller == \/ ClockOn \/ Wait \/ TfaEnable \/ ClockOff \/ Join
          \/ OpenGoesOn \/ OpenFails \/ EnableReturns \/ DeviceClosed
Writer == OpenPcm \/ FirstWrite \/ LoopEnds \/ ClosePcm \/ Exit

Next == \/ Caller \/ Writer \/ CloseDevice \/ NoAmplifier
        \/ \E m \in TfaMode, enable \in BOOLEAN : EnableDevice(m, enable)

Spec == Init /\ [][Next]_vars

(* Both threads run, and a PCM write returns. *)
FairSpec == Spec /\ WF_vars(Caller) /\ WF_vars(Writer)

-----------------------------------------------------------------------------
(* Properties. *)

(* What the fields and places range over. *)
TypeOK ==
    /\ amp \in Amp /\ \A m \in TfaMode : amp.refcount[m] <= MaxUsers
    /\ stage \in {"powerdown", "powerup", "last powerdown", "ready", "close", "closed", "failed"}
    /\ pc \in {"idle", "clock_on", "wait", "asleep", "tfa_enable", "clock_off", "join", "return"}
    /\ writer \in {"none", "open", "write", "loop", "close", "exit", "finished"}
    /\ {on, ok, chip, pcm, initializing, clock_enabled, writing} \subseteq BOOLEAN
    /\ pc = "asleep" => writer \in {"open", "write", "exit"}

(* "this implementation requires explicit clock control": the chip is      *)
(* switched on only after the writer has reported its first write, or that *)
(* there will be none.                                                     *)
EnabledUnderClock ==
    pc = "tfa_enable" /\ on => writer \notin {"open", "write", "exit"}

(* tfa_power leaves nothing behind: with no call in progress the playback  *)
(* PCM is closed, so that the HAL can open it, and no thread is unjoined;  *)
(* and pthread_join is given the thread that tfa_clock_on created.         *)
QuietAfterPower ==
    /\ pc \in {"idle", "return"} => ~pcm /\ writer = "none"
    /\ pc = "join" => writer # "none"

(* amp_state says what the chip is, also when the vendor library failed. *)
StateMatchesChip == stage = "ready" /\ pc = "idle" => (amp.powered <=> chip)

(* Every tfa_power returns, whatever becomes of the PCM: neither the wait  *)
(* for the report nor the join lasts for ever.                             *)
PowerReturns == pc # "idle" ~> pc = "idle"
=============================================================================

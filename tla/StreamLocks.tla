---------------------------- MODULE StreamLocks ----------------------------
(***************************************************************************)
(* The mutexes of the primary audio HAL (audio/audio_hw.c): lock_inputs,   *)
(* and lock with its pre_lock of every stream, as the calls of the         *)
(* playback threads, of the capture thread and of the effect framework     *)
(* take and release them.  The audio_device mutex is the innermost: what   *)
(* runs under it is part of one step.                                      *)
(*                                                                         *)
(* One playback thread serves each output and one capture thread the       *)
(* input, as in AudioFlinger; an output's thread has the output's name.    *)
(* lock_output_stream(s) and lock_input_stream(s) are two steps:           *)
(* EnterPreLock, then the step of the call that takes s->lock and gives    *)
(* s->pre_lock back (LockStream, or PassStream when that same step         *)
(* releases s->lock as well).                                              *)
(***************************************************************************)
EXTENDS Naturals

CONSTANTS
    Outs,          \* the output streams
    LowLatency,    \* those with USECASE_AUDIO_PLAYBACK
    Offload,       \* those with USECASE_AUDIO_PLAYBACK_OFFLOAD
    Nobody,        \* the owner of a free mutex
    Returned       \* the owner of one whose call has returned

InThread == {"capture", "effect"}
Thread   == Outs \union InThread
Stream   == Outs \union {"in"}

ASSUME StreamsAssumption ==
    /\ LowLatency \subseteq Outs /\ Offload \subseteq Outs
    /\ LowLatency \intersect Offload = {}
    /\ Outs \intersect (InThread \union {"in"}) = {}
    /\ {Nobody, Returned} \intersect Thread = {} /\ Nobody # Returned

VARIABLES
    pc,            \* where each thread is
    lock_inputs,   \* the owners of the mutexes
    pre_lock,
    lock,
    standby,       \* stream_out.standby, stream_in.standby
    active_input,  \* adev->active_input is the input stream
    source,        \* TRUE: the input's source makes an output change reset it
    in,            \* a running out_write or out_set_parameters: in != NULL
    opened         \* the input stream exists
mutexes == <<lock_inputs, pre_lock, lock>>
data == <<standby, active_input, source, in, opened>>
vars == <<pc, mutexes, data>>

-----------------------------------------------------------------------------
(* Where a call takes lock_inputs, and where a stream's locks.             *)

InputsFirst == {"out_write_retry", "out_set_parameters", "in_read_retry",
                "in_standby", "in_set_parameters", "adev_close_input_stream"}
OutCall == {"out_write", "out_write_retry", "out_standby", "out_set_parameters"}
InCall  == {"in_read", "in_read_retry", "in_standby", "in_set_parameters",
            "adev_close_input_stream", "out_reset_input"}

(* The stream whose lock a thread at a given place of its code wants. *)
Wanted(t) == IF pc[t] \in OutCall THEN {t} ELSE IF pc[t] \in InCall THEN {"in"} ELSE {}

TakeLockInputs(t) ==
    /\ pc[t] \in InputsFirst
    /\ lock_inputs = Nobody
    /\ lock_inputs' = t
    /\ UNCHANGED <<pc, pre_lock, lock, data>>

EnterPreLock(t) ==
    /\ pc[t] \in InputsFirst => lock_inputs = t
    /\ \E s \in Wanted(t) :
          /\ pre_lock[s] = Nobody
          /\ pre_lock' = [pre_lock EXCEPT ![s] = t]
    /\ UNCHANGED <<pc, lock_inputs, lock, data>>

(* MUTANT: lock_input_stream and lock_output_stream without the pre_lock. *)
Admitted_NoPreLock(t, s) == lock[s] = Nobody /\ (pc[t] \in InputsFirst => lock_inputs = t)

Admitted(t, s) == pre_lock[s] = t /\ lock[s] = Nobody

LockStream(t, s) ==
    /\ Admitted(t, s)
    /\ pre_lock' = [pre_lock EXCEPT ![s] = Nobody]
    /\ lock' = [lock EXCEPT ![s] = t]

PassStream(t, s) ==
    /\ Admitted(t, s)
    /\ pre_lock' = [pre_lock EXCEPT ![s] = Nobody]
    /\ UNCHANGED lock

Unlock(s) == lock' = [lock EXCEPT ![s] = Nobody] /\ UNCHANGED pre_lock

Goto(t, place) == pc' = [pc EXCEPT ![t] = place]

-----------------------------------------------------------------------------
(* The calls a thread may make. *)

CallOut(o) ==
    /\ pc[o] = "idle"
    /\ \E call \in {"out_write", "out_standby", "out_set_parameters"} : Goto(o, call)
    /\ UNCHANGED <<mutexes, data>>

(* The framework closes a stream that no thread uses any more. *)
CallIn ==
    /\ opened
    /\ pc["capture"] = "idle"
    /\ \/ \E call \in {"in_read", "in_standby", "in_set_parameters"} : Goto("capture", call)
       \/ pc["effect"] = "idle" /\ Goto("capture", "adev_close_input_stream")
    /\ UNCHANGED <<mutexes, data>>

(* add_remove_audio_effect, from a thread of the effect framework, takes   *)
(* the same locks as in_set_parameters.                                    *)
CallEffect ==
    /\ opened
    /\ pc["effect"] = "idle" /\ pc["capture"] # "adev_close_input_stream"
    /\ Goto("effect", "in_set_parameters")
    /\ UNCHANGED <<mutexes, data>>

adev_open_input_stream ==
    /\ ~opened
    /\ opened' = TRUE
    /\ source' \in BOOLEAN
    /\ UNCHANGED <<pc, mutexes, standby, active_input, in>>

-----------------------------------------------------------------------------
(* Output calls. *)

(* out_write: a stream in standby lets its lock go to take lock_inputs. *)
OutWrite(o) ==
    /\ pc[o] = "out_write"
    /\ \/ standby[o] /\ PassStream(o, o) /\ Goto(o, "out_write_retry")
       \/ ~standby[o] /\ LockStream(o, o) /\ Goto(o, "out_write_pcm")
    /\ UNCHANGED <<lock_inputs, data>>

(* MUTANT: lock_inputs is released although there is an input to reset. *)
OutWriteStart_Releases(o) ==
    /\ pc[o] = "out_write_retry" /\ standby[o]
    /\ LockStream(o, o)
    /\ standby' = [standby EXCEPT ![o] = FALSE]
    /\ in' = [in EXCEPT ![o] = active_input /\ source]
    /\ lock_inputs' = Nobody
    /\ Goto(o, "out_write_pcm")
    /\ UNCHANGED <<active_input, source, opened>>

(* start_output_stream succeeds; lock_inputs stays locked iff in != NULL. *)
OutWriteStart(o) ==
    /\ pc[o] = "out_write_retry" /\ standby[o]
    /\ LockStream(o, o)
    /\ standby' = [standby EXCEPT ![o] = FALSE]
    /\ in' = [in EXCEPT ![o] = active_input /\ source]
    /\ lock_inputs' = IF in'[o] THEN o ELSE Nobody
    /\ Goto(o, "out_write_pcm")
    /\ UNCHANGED <<active_input, source, opened>>

OutWriteStartFails(o) ==
    /\ pc[o] = "out_write_retry" /\ standby[o]
    /\ PassStream(o, o)
    /\ lock_inputs' = Nobody
    /\ Goto(o, "out_standby")
    /\ UNCHANGED data

(* MUTANT: the standby after a failed write forgets the input. *)
OutStandby_ForgetsInput(o) ==
    /\ pc[o] = "out_standby"
    /\ PassStream(o, o)
    /\ standby' = [standby EXCEPT ![o] = TRUE]
    /\ Goto(o, "idle")
    /\ UNCHANGED <<lock_inputs, active_input, source, in, opened>>

AfterWrite(o) == IF in[o] THEN "out_reset_input" ELSE "idle"

(* The end of the transfer.  A compressed output's write returns from the  *)
(* middle of out_write: the input it chose is forgotten.                   *)
OutWriteDone(o) ==
    /\ pc[o] = "out_write_pcm"
    /\ Unlock(o)
    /\ IF o \in Offload
       THEN /\ in' = [in EXCEPT ![o] = FALSE]
            /\ lock_inputs' = IF in[o] THEN Returned ELSE lock_inputs
            /\ Goto(o, "idle")
       ELSE /\ Goto(o, AfterWrite(o))
            /\ UNCHANGED <<in, lock_inputs>>
    /\ UNCHANGED <<standby, active_input, source, opened>>

OutWriteFails(o) ==
    /\ pc[o] = "out_write_pcm" /\ o \notin Offload
    /\ Unlock(o)
    /\ Goto(o, "out_standby")
    /\ UNCHANGED <<lock_inputs, data>>

(* out_standby, called by the framework or by a failed out_write. *)
OutStandby(o) ==
    /\ pc[o] = "out_standby"
    /\ PassStream(o, o)
    /\ standby' = [standby EXCEPT ![o] = TRUE]
    /\ Goto(o, AfterWrite(o))
    /\ UNCHANGED <<lock_inputs, active_input, source, in, opened>>

(* out_set_parameters(routing); moved: the devices are other ones. *)
OutSetParameters(o, moved) ==
    /\ pc[o] = "out_set_parameters"
    /\ PassStream(o, o)
    /\ in' = [in EXCEPT ![o] = /\ moved /\ ~standby[o] /\ o \in LowLatency
                               /\ active_input /\ source]
    /\ lock_inputs' = IF in'[o] THEN o ELSE Nobody
    /\ Goto(o, IF in'[o] THEN "out_reset_input" ELSE "idle")
    /\ UNCHANGED <<standby, active_input, source, opened>>

do_in_standby_l ==
    /\ standby' = [standby EXCEPT !["in"] = TRUE]
    /\ active_input' = (active_input /\ standby["in"])

(* MUTANT: the input is let run. *)
OutResetInput_KeepsInput(o) ==
    /\ pc[o] = "out_reset_input"
    /\ PassStream(o, "in")
    /\ in' = [in EXCEPT ![o] = FALSE]
    /\ lock_inputs' = Nobody
    /\ Goto(o, "idle")
    /\ UNCHANGED <<standby, active_input, source, opened>>

(* The end of out_write and of out_set_parameters. *)
OutResetInput(o) ==
    /\ pc[o] = "out_reset_input"
    /\ PassStream(o, "in")
    /\ do_in_standby_l
    /\ in' = [in EXCEPT ![o] = FALSE]
    /\ lock_inputs' = Nobody
    /\ Goto(o, "idle")
    /\ UNCHANGED <<source, opened>>

-----------------------------------------------------------------------------
(* Input calls. *)

InRead ==
    /\ pc["capture"] = "in_read"
    /\ \/ standby["in"] /\ PassStream("capture", "in") /\ Goto("capture", "in_read_retry")
       \/ ~standby["in"] /\ LockStream("capture", "in") /\ Goto("capture", "in_read_pcm")
    /\ UNCHANGED <<lock_inputs, data>>

(* start_input_stream; standby is cleared after lock_inputs is released. *)
InReadStart ==
    /\ pc["capture"] = "in_read_retry" /\ standby["in"]
    /\ LockStream("capture", "in")
    /\ active_input' = TRUE
    /\ lock_inputs' = Nobody
    /\ Goto("capture", "in_read_started")
    /\ UNCHANGED <<standby, source, in, opened>>

InReadStartFails ==
    /\ pc["capture"] = "in_read_retry" /\ standby["in"]
    /\ PassStream("capture", "in")
    /\ active_input' = FALSE
    /\ lock_inputs' = Nobody
    /\ Goto("capture", "in_standby")
    /\ UNCHANGED <<standby, source, in, opened>>

InReadStarted ==
    /\ pc["capture"] = "in_read_started"
    /\ standby' = [standby EXCEPT !["in"] = FALSE]
    /\ Goto("capture", "in_read_pcm")
    /\ UNCHANGED <<mutexes, active_input, source, in, opened>>

(* The transfer; a failed one puts the stream into standby. *)
InReadDone ==
    /\ pc["capture"] = "in_read_pcm"
    /\ Unlock("in")
    /\ \E place \in {"idle", "in_standby"} : Goto("capture", place)
    /\ UNCHANGED <<lock_inputs, data>>

InStandby ==
    /\ pc["capture"] = "in_standby"
    /\ PassStream("capture", "in")
    /\ do_in_standby_l
    /\ lock_inputs' = Nobody
    /\ Goto("capture", "idle")
    /\ UNCHANGED <<source, in, opened>>

(* in_set_parameters by the capture thread may change the source; it and   *)
(* add_remove_audio_effect may put the stream into standby.                *)
InSetParameters(t) ==
    /\ pc[t] = "in_set_parameters"
    /\ PassStream(t, "in")
    /\ IF t = "capture" THEN source' \in BOOLEAN ELSE UNCHANGED source
    /\ \/ do_in_standby_l
       \/ UNCHANGED <<standby, active_input>>
    /\ lock_inputs' = Nobody
    /\ Goto(t, "idle")
    /\ UNCHANGED <<in, opened>>

adev_close_input_stream ==
    /\ pc["capture"] = "adev_close_input_stream"
    /\ PassStream("capture", "in")
    /\ do_in_standby_l
    /\ opened' = FALSE
    /\ lock_inputs' = Nobody
    /\ Goto("capture", "idle")
    /\ UNCHANGED <<source, in>>

-----------------------------------------------------------------------------
Init ==
    /\ pc = [t \in Thread |-> "idle"]
    /\ lock_inputs = Nobody
    /\ pre_lock = [s \in Stream |-> Nobody]
    /\ lock = [s \in Stream |-> Nobody]
    /\ standby = [s \in Stream |-> TRUE]
    /\ active_input = FALSE
    /\ source = FALSE
    /\ in = [o \in Outs |-> FALSE]
    /\ opened = FALSE

OutStep(o) ==
    \/ OutWrite(o) \/ OutWriteStart(o) \/ OutWriteStartFails(o)
    \/ OutWriteDone(o) \/ OutWriteFails(o) \/ OutStandby(o)
    \/ \E moved \in BOOLEAN : OutSetParameters(o, moved)
    \/ OutResetInput(o)

InStep(t) ==
    \/ InSetParameters(t)
    \/ /\ t = "capture"
       /\ \/ InRead \/ InReadStart \/ InReadStartFails \/ InReadStarted \/ InReadDone
          \/ InStandby \/ adev_close_input_stream

Work(t) == (t \in Outs /\ OutStep(t)) \/ (t \in InThread /\ InStep(t))

Next ==
    \/ \E t \in Thread : TakeLockInputs(t) \/ EnterPreLock(t)
    \/ \E o \in Outs : CallOut(o) \/ OutStep(o)
    \/ CallIn \/ CallEffect \/ adev_open_input_stream
    \/ \E t \in InThread : InStep(t)

Spec == Init /\ [][Next]_vars

(* A thread inside a call runs on, and a PCM transfer ends.  lock_inputs   *)
(* and a pre_lock are held for moments only, so a thread that waits gets   *)
(* them in the end; a stream's lock is held for as long as a transfer      *)
(* takes and let go for an instant between two, so a waiting thread is     *)
(* only sure of it if it stays free.                                       *)
Fairness ==
    \A t \in Thread : /\ SF_vars(TakeLockInputs(t) \/ EnterPreLock(t))
                      /\ WF_vars(Work(t))

FairSpec == Spec /\ Fairness

-----------------------------------------------------------------------------
(* Properties. *)

Place == InputsFirst \union OutCall \union InCall \union
         {"idle", "out_write_pcm", "in_read_started", "in_read_pcm"}

(* What the places and flags range over, and which threads may hold which  *)
(* mutex for longer than a step: an output never keeps the input's lock.   *)
TypeOK ==
    /\ pc \in [Thread -> Place]
    /\ lock_inputs \in Thread \union {Nobody, Returned}
    /\ pre_lock \in [Stream -> Thread \union {Nobody}]
    /\ lock \in [Stream -> Thread \union {Nobody}]
    /\ \A o \in Outs : pre_lock[o] \in {o, Nobody} /\ lock[o] \in {o, Nobody}
    /\ lock["in"] \in {"capture", Nobody}
    /\ standby \in [Stream -> BOOLEAN]
    /\ active_input \in BOOLEAN /\ source \in BOOLEAN /\ opened \in BOOLEAN
    /\ in \in [Outs -> BOOLEAN]

(* "The lock on adev->lock_inputs prevents input stream from being closed" *)
(* and LOG_ALWAYS_FATAL_IF(in != adev->active_input): from the choice of   *)
(* the input until its reset, through the write and even a failed write's  *)
(* standby, it is open and the active one.                                 *)
ChosenInputStays == \A o \in Outs : in[o] => opened /\ active_input

(* "This mutex was left locked iff in != NULL": a call that has returned   *)
(* holds none of the mutexes.                                              *)
CallsReleaseLocks ==
    /\ lock_inputs # Returned
    /\ \A t \in Thread : pc[t] = "idle" =>
          lock_inputs # t /\ \A s \in Stream : pre_lock[s] # t /\ lock[s] # t

(* active_input is the input exactly while that runs, but for the moment   *)
(* in_read has started it and still holds its lock.                        *)
ActiveInputRuns ==
    \/ active_input <=> ~standby["in"]
    \/ pc["capture"] = "in_read_started" /\ lock["in"] = "capture"

(* A closed input is not running and nobody holds or wants its locks. *)
ClosedInputIsQuiet ==
    ~opened => /\ ~active_input /\ lock["in"] = Nobody /\ pre_lock["in"] = Nobody
               /\ \A t \in Thread : pc[t] \notin InCall

(* Every call returns: nobody waits for ever, neither in a cycle of        *)
(* mutexes nor behind the thread that transfers audio all the time.        *)
CallsReturn == \A t \in Thread : pc[t] # "idle" ~> pc[t] = "idle"

(* What lock_inputs is for. *)
Input == INSTANCE ActiveInput WITH running <- active_input, chosen <- {o \in Outs : in[o]}
ImplementsActiveInput == Input!Spec
=============================================================================

-------------------------- MODULE StreamLocksProofs --------------------------
(***************************************************************************)
(* What lock_inputs guarantees and that the mutexes cannot deadlock, for   *)
(* any number of outputs; and, in the second part, what the calls of the   *)
(* amplifier HAL and its clock thread guarantee (TfaClock).                *)
(***************************************************************************)
EXTENDS StreamLocks, TLAPS

(* Who runs what code. *)
Places ==
    /\ \A o \in Outs : pc[o] \in OutCall \union {"idle", "out_write_pcm", "out_reset_input"}
    /\ pc["effect"] \in {"idle", "in_set_parameters"}
    /\ pc["capture"] \in (InCall \ {"out_reset_input"}) \union
                         {"idle", "in_read_started", "in_read_pcm"}

(* A pre_lock belongs to a thread about to take that stream's lock, one    *)
(* that has lock_inputs already if its call needs it.                      *)
PreLockOrder ==
    \A t \in Thread, s \in Stream : pre_lock[s] = t =>
        s \in Wanted(t) /\ (pc[t] \in InputsFirst => lock_inputs = t)

(* A stream's lock is held during a transfer only. *)
LockHeld ==
    /\ \A o \in Outs : lock[o] = o => pc[o] = "out_write_pcm"
    /\ lock["in"] = "capture" <=> pc["capture"] \in {"in_read_started", "in_read_pcm"}

(* lock_inputs belongs to a call that needs it or that will reset an input. *)
LockInputsHeld ==
    \A t \in Thread : lock_inputs = t => pc[t] \in InputsFirst \/ (t \in Outs /\ in[t])

(* The output that has chosen the input holds lock_inputs, and the input   *)
(* is active; only such an output gets to the reset.                       *)
Chosen ==
    \A o \in Outs :
        /\ in[o] => /\ lock_inputs = o /\ opened /\ active_input
                    /\ pc[o] \in {"out_write_pcm", "out_standby", "out_reset_input"}
        /\ pc[o] = "out_reset_input" => in[o]

(* The input's life. *)
InputLife ==
    /\ ~opened => ~active_input /\ pc["capture"] = "idle" /\ pc["effect"] = "idle"
    /\ pc["capture"] = "adev_close_input_stream" => pc["effect"] = "idle"
    /\ pc["capture"] = "in_read_started" => active_input
    /\ pc["capture"] # "in_read_started" => (active_input <=> ~standby["in"])

IInv == /\ TypeOK /\ Places /\ PreLockOrder /\ LockHeld
        /\ LockInputsHeld /\ Chosen /\ InputLife

-----------------------------------------------------------------------------
(* The initial state: every mutex is free. *)
LEMMA InitHolds == Init => IInv
BY StreamsAssumption
   DEF Init, IInv, TypeOK, Places, PreLockOrder, LockHeld, LockInputsHeld, Chosen, InputLife,
       Thread, Stream, InThread, Place, Wanted, OutCall, InCall, InputsFirst

(* Taking lock_inputs, and a pre_lock. *)
LEMMA TakeLockInputsKeeps ==
    ASSUME IInv, NEW t \in Thread, TakeLockInputs(t)
    PROVE  IInv'
BY StreamsAssumption DEF TakeLockInputs,
       IInv, TypeOK, Places, PreLockOrder, LockHeld, LockInputsHeld, Chosen, InputLife,
       Thread, Stream, InThread, Place, Wanted, OutCall, InCall, InputsFirst, data, Goto

(* lock_inputs comes before a pre_lock, so PreLockOrder holds of the taker. *)
LEMMA EnterPreLockKeeps ==
    ASSUME IInv, NEW t \in Thread, EnterPreLock(t)
    PROVE  IInv'
BY StreamsAssumption DEF EnterPreLock,
       IInv, TypeOK, Places, PreLockOrder, LockHeld, LockInputsHeld, Chosen, InputLife,
       Thread, Stream, InThread, Place, Wanted, OutCall, InCall, InputsFirst, data, Goto

(* A thread begins a call. *)
LEMMA CallOutKeeps ==
    ASSUME IInv, NEW o \in Outs, CallOut(o)
    PROVE  IInv'
BY StreamsAssumption DEF CallOut, mutexes,
       IInv, TypeOK, Places, PreLockOrder, LockHeld, LockInputsHeld, Chosen, InputLife,
       Thread, Stream, InThread, Place, Wanted, OutCall, InCall, InputsFirst, data, Goto

(* The input is closed by a call of its own. *)
LEMMA CallInKeeps ==
    ASSUME IInv, CallIn
    PROVE  IInv'
BY StreamsAssumption DEF CallIn, mutexes,
       IInv, TypeOK, Places, PreLockOrder, LockHeld, LockInputsHeld, Chosen, InputLife,
       Thread, Stream, InThread, Place, Wanted, OutCall, InCall, InputsFirst, data, Goto

(* An effect is added or removed while the input is open. *)
LEMMA CallEffectKeeps ==
    ASSUME IInv, CallEffect
    PROVE  IInv'
BY StreamsAssumption DEF CallEffect, mutexes,
       IInv, TypeOK, Places, PreLockOrder, LockHeld, LockInputsHeld, Chosen, InputLife,
       Thread, Stream, InThread, Place, Wanted, OutCall, InCall, InputsFirst, data, Goto

(* A new input is not active. *)
LEMMA OpenKeeps ==
    ASSUME IInv, adev_open_input_stream
    PROVE  IInv'
BY StreamsAssumption DEF adev_open_input_stream, mutexes,
       IInv, TypeOK, Places, PreLockOrder, LockHeld, LockInputsHeld, Chosen, InputLife,
       Thread, Stream, InThread, Place, Wanted, OutCall, InCall, InputsFirst, data, Goto

(* out_write lets its lock go before it takes lock_inputs. *)
LEMMA OutWriteKeeps ==
    ASSUME IInv, NEW o \in Outs, OutWrite(o)
    PROVE  IInv'
BY StreamsAssumption DEF OutWrite, PassStream, Admitted, LockStream,
       IInv, TypeOK, Places, PreLockOrder, LockHeld, LockInputsHeld, Chosen, InputLife,
       Thread, Stream, InThread, Place, Wanted, OutCall, InCall, InputsFirst, data, Goto

(* The choice: lock_inputs stays with the output iff in != NULL. *)
LEMMA OutWriteStartKeeps ==
    ASSUME IInv, NEW o \in Outs, OutWriteStart(o)
    PROVE  IInv'
BY StreamsAssumption DEF OutWriteStart, LockStream, Admitted,
       IInv, TypeOK, Places, PreLockOrder, LockHeld, LockInputsHeld, Chosen, InputLife,
       Thread, Stream, InThread, Place, Wanted, OutCall, InCall, InputsFirst, data, Goto

(* No choice was made. *)
LEMMA OutWriteStartFailsKeeps ==
    ASSUME IInv, NEW o \in Outs, OutWriteStartFails(o)
    PROVE  IInv'
BY StreamsAssumption DEF OutWriteStartFails, PassStream, Admitted,
       IInv, TypeOK, Places, PreLockOrder, LockHeld, LockInputsHeld, Chosen, InputLife,
       Thread, Stream, InThread, Place, Wanted, OutCall, InCall, InputsFirst, data, Goto

(* The call goes on to the reset iff there is one to do, unless the output *)
(* is a compressed one: then lock_inputs may be left behind, the choice is *)
(* not.                                                                    *)
LEMMA OutWriteDoneKeeps ==
    ASSUME IInv, NEW o \in Outs, OutWriteDone(o)
    PROVE  IInv'
<1>1. CASE o \in Offload
  <2>1. /\ pc[o] = "out_write_pcm" /\ pc' = [pc EXCEPT ![o] = "idle"]
        /\ lock' = [lock EXCEPT ![o] = Nobody] /\ pre_lock' = pre_lock
        /\ in' = [in EXCEPT ![o] = FALSE]
        /\ lock_inputs' = IF in[o] THEN Returned ELSE lock_inputs
        /\ UNCHANGED <<standby, active_input, source, opened>>
    BY <1>1 DEF OutWriteDone, Unlock, Goto
  <2>2. QED
    BY <2>1, StreamsAssumption
       DEF IInv, TypeOK, Places, PreLockOrder, LockHeld, LockInputsHeld, Chosen, InputLife,
           Thread, Stream, InThread, Place, Wanted, OutCall, InCall, InputsFirst
<1>2. CASE o \notin Offload
  BY <1>2, StreamsAssumption DEF OutWriteDone, Unlock, AfterWrite,
         IInv, TypeOK, Places, PreLockOrder, LockHeld, LockInputsHeld, Chosen, InputLife,
         Thread, Stream, InThread, Place, Wanted, OutCall, InCall, InputsFirst, data, Goto
<1>3. QED
  BY <1>1, <1>2

(* The choice survives a failed transfer ... *)
LEMMA OutWriteFailsKeeps ==
    ASSUME IInv, NEW o \in Outs, OutWriteFails(o)
    PROVE  IInv'
BY StreamsAssumption DEF OutWriteFails, Unlock,
       IInv, TypeOK, Places, PreLockOrder, LockHeld, LockInputsHeld, Chosen, InputLife,
       Thread, Stream, InThread, Place, Wanted, OutCall, InCall, InputsFirst, data, Goto

(* ... and the standby after it. *)
LEMMA OutStandbyKeeps ==
    ASSUME IInv, NEW o \in Outs, OutStandby(o)
    PROVE  IInv'
BY StreamsAssumption DEF OutStandby, PassStream, Admitted, AfterWrite,
       IInv, TypeOK, Places, PreLockOrder, LockHeld, LockInputsHeld, Chosen, InputLife,
       Thread, Stream, InThread, Place, Wanted, OutCall, InCall, InputsFirst, data, Goto

(* The reset. *)
LEMMA OutResetInputKeeps ==
    ASSUME IInv, NEW o \in Outs, OutResetInput(o)
    PROVE  IInv'
BY StreamsAssumption DEF OutResetInput, PassStream, Admitted, do_in_standby_l,
       IInv, TypeOK, Places, PreLockOrder, LockHeld, LockInputsHeld, Chosen, InputLife,
       Thread, Stream, InThread, Place, Wanted, OutCall, InCall, InputsFirst, data, Goto

(* The choice of out_set_parameters. *)
LEMMA OutSetParametersKeeps ==
    ASSUME IInv, NEW o \in Outs, NEW moved \in BOOLEAN, OutSetParameters(o, moved)
    PROVE  IInv'
BY StreamsAssumption DEF OutSetParameters, PassStream, Admitted,
       IInv, TypeOK, Places, PreLockOrder, LockHeld, LockInputsHeld, Chosen, InputLife,
       Thread, Stream, InThread, Place, Wanted, OutCall, InCall, InputsFirst, data, Goto

(* in_read lets its lock go before it takes lock_inputs. *)
LEMMA InReadKeeps ==
    ASSUME IInv, InRead
    PROVE  IInv'
BY StreamsAssumption DEF InRead, PassStream, Admitted, LockStream,
       IInv, TypeOK, Places, PreLockOrder, LockHeld, LockInputsHeld, Chosen, InputLife,
       Thread, Stream, InThread, Place, Wanted, OutCall, InCall, InputsFirst, data, Goto

(* Only the holder of lock_inputs makes an input the active one, *)
LEMMA InReadStartKeeps ==
    ASSUME IInv, InReadStart
    PROVE  IInv'
BY StreamsAssumption DEF InReadStart, LockStream, Admitted,
       IInv, TypeOK, Places, PreLockOrder, LockHeld, LockInputsHeld, Chosen, InputLife,
       Thread, Stream, InThread, Place, Wanted, OutCall, InCall, InputsFirst, data, Goto

(* and only it unmakes one. *)
LEMMA InReadStartFailsKeeps ==
    ASSUME IInv, InReadStartFails
    PROVE  IInv'
<1>1. /\ pre_lock["in"] = "capture" /\ lock["in"] = Nobody /\ lock_inputs = "capture"
      /\ pc' = [pc EXCEPT !["capture"] = "in_standby"] /\ lock_inputs' = Nobody
      /\ pre_lock' = [pre_lock EXCEPT !["in"] = Nobody] /\ lock' = lock /\ in' = in
  BY StreamsAssumption
     DEF InReadStartFails, PassStream, Admitted, Goto, IInv, PreLockOrder, InputsFirst,
         Thread, Stream, InThread
<1>2. "capture" \in InThread /\ "capture" \notin Outs
  BY StreamsAssumption DEF InThread
<1>3. \A o \in Outs : ~in[o] /\ pc[o] # "out_reset_input" /\ pc'[o] = pc[o]
  BY <1>1, <1>2 DEF IInv, Chosen, TypeOK, Thread
<1>4. TypeOK'
  BY <1>1, <1>2, StreamsAssumption
     DEF InReadStartFails, IInv, TypeOK, Thread, Stream, Place, InCall
<1>5. Places' /\ LockInputsHeld' /\ Chosen'
  BY <1>1, <1>2, <1>3, StreamsAssumption
     DEF IInv, TypeOK, Places, LockInputsHeld, Chosen, Thread, InThread, InCall
<1>6. PreLockOrder'
  BY <1>1, <1>2, StreamsAssumption
     DEF IInv, TypeOK, PreLockOrder, LockInputsHeld, Wanted, Thread, Stream, OutCall, InCall,
         InputsFirst
<1>7. LockHeld'
  BY <1>1, <1>2, <1>3, StreamsAssumption
     DEF IInv, TypeOK, LockHeld, Places, Thread, InThread, Stream
<1>8. InputLife'
  BY <1>1, <1>2, StreamsAssumption
     DEF InReadStartFails, IInv, TypeOK, Places, LockHeld, InputLife,
         Thread, InThread, Stream, InCall
<1>9. QED
  BY <1>4, <1>5, <1>6, <1>7, <1>8 DEF IInv

(* standby follows active_input under the input's lock. *)
LEMMA InReadStartedKeeps ==
    ASSUME IInv, InReadStarted
    PROVE  IInv'
BY StreamsAssumption DEF InReadStarted, mutexes,
       IInv, TypeOK, Places, PreLockOrder, LockHeld, LockInputsHeld, Chosen, InputLife,
       Thread, Stream, InThread, Place, Wanted, OutCall, InCall, InputsFirst, data, Goto

(* The end of a transfer. *)
LEMMA InReadDoneKeeps ==
    ASSUME IInv, InReadDone
    PROVE  IInv'
BY StreamsAssumption DEF InReadDone, Unlock,
       IInv, TypeOK, Places, PreLockOrder, LockHeld, LockInputsHeld, Chosen, InputLife,
       Thread, Stream, InThread, Place, Wanted, OutCall, InCall, InputsFirst, data, Goto

(* A standby by the holder of lock_inputs: no output has chosen the input. *)
LEMMA InStandbyKeeps ==
    ASSUME IInv, InStandby
    PROVE  IInv'
BY StreamsAssumption DEF InStandby, PassStream, Admitted, do_in_standby_l,
       IInv, TypeOK, Places, PreLockOrder, LockHeld, LockInputsHeld, Chosen, InputLife,
       Thread, Stream, InThread, Place, Wanted, OutCall, InCall, InputsFirst, data, Goto

(* A close likewise. *)
LEMMA CloseKeeps ==
    ASSUME IInv, adev_close_input_stream
    PROVE  IInv'
<1>1. /\ pre_lock["in"] = "capture" /\ lock["in"] = Nobody /\ lock_inputs = "capture"
      /\ pc' = [pc EXCEPT !["capture"] = "idle"] /\ lock_inputs' = Nobody
      /\ pre_lock' = [pre_lock EXCEPT !["in"] = Nobody] /\ lock' = lock /\ in' = in
  BY StreamsAssumption
     DEF adev_close_input_stream, PassStream, Admitted, Goto, IInv, PreLockOrder, InputsFirst,
         Thread, Stream, InThread
<1>2. "capture" \in InThread /\ "capture" \notin Outs
  BY StreamsAssumption DEF InThread
<1>3. \A o \in Outs : ~in[o] /\ pc[o] # "out_reset_input" /\ pc'[o] = pc[o]
  BY <1>1, <1>2 DEF IInv, Chosen, TypeOK, Thread
<1>4. TypeOK'
  BY <1>1, <1>2, StreamsAssumption
     DEF adev_close_input_stream, do_in_standby_l, IInv, TypeOK, Thread, Stream, Place
<1>5. Places' /\ LockInputsHeld' /\ Chosen'
  BY <1>1, <1>2, <1>3, StreamsAssumption
     DEF IInv, TypeOK, Places, LockInputsHeld, Chosen, Thread, InThread, InCall
<1>6. PreLockOrder'
  BY <1>1, <1>2, StreamsAssumption
     DEF IInv, TypeOK, PreLockOrder, LockInputsHeld, Wanted, Thread, Stream, OutCall, InCall,
         InputsFirst
<1>7. LockHeld'
  BY <1>1, <1>2, <1>3, StreamsAssumption
     DEF IInv, TypeOK, LockHeld, Places, Thread, InThread, Stream
<1>8. InputLife'
  BY <1>1, <1>2, StreamsAssumption
     DEF adev_close_input_stream, do_in_standby_l, IInv, TypeOK, Places, LockHeld, InputLife,
         Thread, InThread, Stream, InCall
<1>9. QED
  BY <1>4, <1>5, <1>6, <1>7, <1>8 DEF IInv

(* A change of the input's parameters or effects likewise. *)
LEMMA InSetParametersKeeps ==
    ASSUME IInv, NEW t \in InThread, InSetParameters(t)
    PROVE  IInv'
<1>1. /\ pre_lock["in"] = t /\ lock["in"] = Nobody /\ lock_inputs = t
      /\ pc' = [pc EXCEPT ![t] = "idle"] /\ lock_inputs' = Nobody
      /\ pre_lock' = [pre_lock EXCEPT !["in"] = Nobody] /\ lock' = lock /\ in' = in
  BY StreamsAssumption
     DEF InSetParameters, PassStream, Admitted, Goto, IInv, PreLockOrder, InputsFirst,
         Thread, Stream, InThread
<1>2. t \in InThread /\ t \notin Outs
  BY StreamsAssumption DEF InThread
<1>3. \A o \in Outs : ~in[o] /\ pc[o] # "out_reset_input" /\ pc'[o] = pc[o]
  BY <1>1, <1>2 DEF IInv, Chosen, TypeOK, Thread
<1>4. TypeOK'
  BY <1>1, <1>2, StreamsAssumption
     DEF InSetParameters, do_in_standby_l, IInv, TypeOK, Thread, Stream, Place
<1>5. Places' /\ LockInputsHeld' /\ Chosen'
  BY <1>1, <1>2, <1>3, StreamsAssumption
     DEF IInv, TypeOK, Places, LockInputsHeld, Chosen, Thread, InThread, InCall
<1>6. PreLockOrder'
  BY <1>1, <1>2, StreamsAssumption
     DEF IInv, TypeOK, PreLockOrder, LockInputsHeld, Wanted, Thread, Stream, OutCall, InCall,
         InputsFirst
<1>7. LockHeld'
  BY <1>1, <1>2, <1>3, StreamsAssumption
     DEF IInv, TypeOK, LockHeld, Places, Thread, InThread, Stream
<1>8. InputLife'
  BY <1>1, <1>2, StreamsAssumption
     DEF InSetParameters, do_in_standby_l, IInv, TypeOK, Places, LockHeld, InputLife,
         Thread, InThread, Stream, InCall
<1>9. QED
  BY <1>4, <1>5, <1>6, <1>7, <1>8 DEF IInv

(* Every step of every thread keeps the invariant. *)
LEMMA NextKeeps ==
    ASSUME IInv, [Next]_vars
    PROVE  IInv'
<1>1. CASE UNCHANGED vars
  BY <1>1 DEF vars, mutexes, IInv, TypeOK, Places, PreLockOrder, LockHeld, LockInputsHeld,
              Chosen, InputLife, Wanted, data
<1>2. ASSUME NEW t \in Thread, TakeLockInputs(t) \/ EnterPreLock(t) PROVE IInv'
  BY <1>2, TakeLockInputsKeeps, EnterPreLockKeeps
<1>3. ASSUME NEW o \in Outs, CallOut(o) \/ OutStep(o) PROVE IInv'
  BY <1>3, CallOutKeeps, OutWriteKeeps, OutWriteStartKeeps, OutWriteStartFailsKeeps,
     OutWriteDoneKeeps, OutWriteFailsKeeps, OutStandbyKeeps,
     OutSetParametersKeeps, OutResetInputKeeps DEF OutStep
<1>4. CASE CallIn \/ CallEffect \/ adev_open_input_stream
  BY <1>4, CallInKeeps, CallEffectKeeps, OpenKeeps
<1>5. ASSUME NEW t \in InThread, InStep(t) PROVE IInv'
  BY <1>5, InSetParametersKeeps, InReadKeeps, InReadStartKeeps, InReadStartFailsKeeps,
     InReadStartedKeeps, InReadDoneKeeps, InStandbyKeeps, CloseKeeps DEF InStep
<1>6. QED
  BY <1>1, <1>2, <1>3, <1>4, <1>5 DEF Next

-----------------------------------------------------------------------------
(* The invariant holds in every reachable state, for any set of outputs. *)
THEOREM Invariance == Spec => []IInv
<1>1. Init => IInv
  BY InitHolds
<1>2. IInv /\ [Next]_vars => IInv'
  BY NextKeeps
<1>3. QED
  BY <1>1, <1>2, PTL DEF Spec

(* No output ever keeps the input's lock, and no thread another stream's. *)
THEOREM TypeCorrect == Spec => []TypeOK
<1>1. IInv => TypeOK
  BY DEF IInv
<1>2. QED
  BY <1>1, Invariance, PTL

(* The fatal assertions of out_write and out_set_parameters never fire,    *)
(* and the input they are about to reset is never closed before.           *)
THEOREM ChosenInputIsActive == Spec => []ChosenInputStays
<1>1. IInv => ChosenInputStays
  BY DEF IInv, Chosen, ChosenInputStays
<1>2. QED
  BY <1>1, Invariance, PTL

(* active_input and stream_in.standby agree whenever the input's lock is free. *)
THEOREM ActiveInputAgrees == Spec => []ActiveInputRuns
<1>1. IInv => ActiveInputRuns
  BY DEF IInv, InputLife, LockHeld, ActiveInputRuns
<1>2. QED
  BY <1>1, Invariance, PTL

(* A closed input leaves nothing behind. *)
THEOREM ClosedInput == Spec => []ClosedInputIsQuiet
<1>1. IInv => ClosedInputIsQuiet
  <2> SUFFICES ASSUME IInv, ~opened PROVE ClosedInputIsQuiet
    BY DEF ClosedInputIsQuiet
  <2>1. /\ ~active_input /\ pc["capture"] = "idle" /\ pc["effect"] = "idle"
        /\ \A o \in Outs : pc[o] \notin InCall
    BY DEF IInv, InputLife, Chosen, Places, OutCall, InCall
  <2>2. \A t \in Thread : pc[t] \notin InCall /\ pre_lock["in"] # t
    BY <2>1, StreamsAssumption DEF IInv, PreLockOrder, Wanted, Thread, Stream, InThread, InCall
  <2>3. lock["in"] = Nobody /\ pre_lock["in"] = Nobody
    BY <2>1, <2>2 DEF IInv, TypeOK, LockHeld, Stream
  <2>4. QED
    BY <2>1, <2>2, <2>3 DEF ClosedInputIsQuiet
<1>2. QED
  BY <1>1, Invariance, PTL

-----------------------------------------------------------------------------
(* Without a compressed output, lock_inputs is never left behind. *)
NeverLeft == lock_inputs # Returned

LEMMA NeverReturned ==
    ASSUME Offload = {}
    PROVE  Spec => []NeverLeft
<1>1. Init => NeverLeft
  BY StreamsAssumption DEF Init, NeverLeft
<1>2. NeverLeft /\ [Next]_vars => NeverLeft'
  <2> SUFFICES ASSUME lock_inputs # Returned, [Next]_vars PROVE lock_inputs' # Returned
    BY DEF NeverLeft
  <2> USE StreamsAssumption DEF Thread
  <2>1. CASE UNCHANGED vars
    BY <2>1 DEF vars, mutexes
  <2>2. ASSUME NEW t \in Thread, TakeLockInputs(t) \/ EnterPreLock(t)
        PROVE  lock_inputs' # Returned
    BY <2>2 DEF TakeLockInputs, EnterPreLock
  <2>3. ASSUME NEW o \in Outs, CallOut(o) \/ OutStep(o) PROVE lock_inputs' # Returned
    BY <2>3 DEF CallOut, mutexes, OutStep, OutWrite, OutWriteStart, OutWriteStartFails,
                OutWriteDone, OutWriteFails, OutStandby, OutSetParameters,
                OutResetInput
  <2>4. CASE CallIn \/ CallEffect \/ adev_open_input_stream
    BY <2>4 DEF CallIn, CallEffect, adev_open_input_stream, mutexes
  <2>5. ASSUME NEW t \in InThread, InStep(t) PROVE lock_inputs' # Returned
    BY <2>5 DEF InStep, InRead, InReadStart, InReadStartFails, InReadStarted, InReadDone,
                InStandby, InSetParameters, adev_close_input_stream, mutexes
  <2>6. QED
    BY <2>1, <2>2, <2>3, <2>4, <2>5 DEF Next
<1>3. QED
  BY <1>1, <1>2, PTL DEF Spec

(* A call that has returned holds no mutex, as long as no output is a      *)
(* compressed one.                                                         *)
THEOREM LocksReleased ==
    ASSUME Offload = {}
    PROVE  Spec => []CallsReleaseLocks
<1>1. IInv /\ NeverLeft => CallsReleaseLocks
  <2> SUFFICES ASSUME IInv, NEW t \in Thread, pc[t] = "idle"
               PROVE  lock_inputs # t /\ \A s \in Stream : pre_lock[s] # t /\ lock[s] # t
    BY DEF CallsReleaseLocks, NeverLeft
  <2>1. lock_inputs # t
    BY DEF IInv, LockInputsHeld, Chosen, InputsFirst
  <2>2. \A s \in Stream : pre_lock[s] # t
    BY DEF IInv, PreLockOrder, Wanted, OutCall, InCall
  <2>3. \A s \in Stream : lock[s] # t
    BY StreamsAssumption DEF IInv, TypeOK, LockHeld, Thread, Stream, InThread
  <2>4. QED
    BY <2>1, <2>2, <2>3
<1>2. QED
  BY <1>1, NeverReturned, Invariance, PTL

(* The mutexes implement what ActiveInput promises: between the choice of  *)
(* the input and its reset nothing happens to it.                          *)
THEOREM LocksImplementActiveInput ==
    ASSUME Offload = {}
    PROVE  Spec => ImplementsActiveInput
<1>1. Init => Input!Init
  BY DEF Init, Input!Init
<1>2. IInv /\ [Next]_vars => [Input!Next]_(Input!vars)
  <2> SUFFICES ASSUME IInv, [Next]_vars PROVE [Input!Next]_(Input!vars)
    OBVIOUS
  <2>1. ASSUME active_input' = active_input, in' = in PROVE UNCHANGED Input!vars
    BY <2>1 DEF Input!vars
  <2>2. ASSUME NEW o \in Outs, NEW b \in BOOLEAN, b => active_input, \A p \in Outs : ~in[p],
               active_input' = active_input, in' = [in EXCEPT ![o] = b]
        PROVE  [Input!Next]_(Input!vars)
    <3>1. {p \in Outs : in[p]} = {}
      BY <2>2
    <3>2. CASE b
      <4>1. {p \in Outs : in'[p]} = {o}
        BY <2>2, <3>2 DEF IInv, TypeOK
      <4>2. Input!Choose(o)
        BY <2>2, <3>1, <3>2, <4>1 DEF Input!Choose
      <4>3. QED
        BY <4>2 DEF Input!Next
    <3>3. CASE ~b
      <4>1. {p \in Outs : in'[p]} = {}
        BY <2>2, <3>3 DEF IInv, TypeOK
      <4>2. QED
        BY <2>2, <3>1, <4>1 DEF Input!vars
    <3>4. QED
      BY <3>2, <3>3
  <2>3. CASE UNCHANGED vars
    BY <2>1, <2>3 DEF vars, data
  <2>4. ASSUME NEW t \in Thread, TakeLockInputs(t) \/ EnterPreLock(t)
        PROVE  [Input!Next]_(Input!vars)
    BY <2>1, <2>4 DEF TakeLockInputs, EnterPreLock, data
  <2>5. ASSUME NEW o \in Outs, CallOut(o) \/ OutStep(o)
        PROVE  [Input!Next]_(Input!vars)
    <3>1. ASSUME pre_lock[o] = o, pc[o] \in InputsFirst PROVE \A p \in Outs : ~in[p]
      BY <3>1 DEF IInv, Chosen, PreLockOrder, Stream, Thread, InputsFirst
    <3>2. CASE OutWriteStart(o)
      <4>1. pre_lock[o] = o /\ pc[o] \in InputsFirst
        BY <3>2 DEF OutWriteStart, LockStream, Admitted, InputsFirst
      <4>2. active_input' = active_input /\ in' = [in EXCEPT ![o] = active_input /\ source]
        BY <3>2 DEF OutWriteStart
      <4>3. (active_input /\ source) \in BOOLEAN /\ (active_input /\ source => active_input)
        OBVIOUS
      <4>4. QED
        BY <2>2, <3>1, <4>1, <4>2, <4>3
    <3>3. ASSUME NEW moved \in BOOLEAN, OutSetParameters(o, moved)
          PROVE  [Input!Next]_(Input!vars)
      <4> DEFINE b == moved /\ ~standby[o] /\ o \in LowLatency /\ active_input /\ source
      <4>1. pre_lock[o] = o /\ pc[o] \in InputsFirst
        BY <3>3 DEF OutSetParameters, PassStream, Admitted, InputsFirst
      <4>2. active_input' = active_input /\ in' = [in EXCEPT ![o] = b]
        BY <3>3 DEF OutSetParameters
      <4>3. b \in BOOLEAN /\ (b => active_input)
        OBVIOUS
      <4> HIDE DEF b
      <4>4. QED
        BY <2>2, <3>1, <4>1, <4>2, <4>3
    <3>4. CASE OutResetInput(o)
      <4>1. {p \in Outs : in[p]} = {o}
        BY <3>4 DEF OutResetInput, IInv, Chosen
      <4>2. in' = [in EXCEPT ![o] = FALSE]
        BY <3>4 DEF OutResetInput
      <4>3. active_input' = FALSE
        BY <3>4, StreamsAssumption
           DEF OutResetInput, PassStream, Admitted, do_in_standby_l, IInv, TypeOK, InputLife,
               LockHeld, Thread, InThread
      <4>4. {p \in Outs : in'[p]} = {}
        BY <4>1, <4>2 DEF IInv, TypeOK
      <4>5. Input!Reset(o)
        BY <4>1, <4>3, <4>4 DEF Input!Reset
      <4>6. QED
        BY <4>5 DEF Input!Next
    <3>5. CASE \/ CallOut(o) \/ OutWrite(o) \/ OutWriteStartFails(o) \/ OutWriteDone(o)
               \/ OutWriteFails(o) \/ OutStandby(o)
      BY <2>1, <3>5 DEF CallOut, OutWrite, OutWriteStartFails, OutWriteDone, OutWriteFails,
                        OutStandby, data
    <3>6. QED
      BY <2>5, <3>2, <3>3, <3>4, <3>5 DEF OutStep
  <2>6. CASE CallIn \/ CallEffect \/ adev_open_input_stream
    BY <2>1, <2>6 DEF CallIn, CallEffect, adev_open_input_stream, data
  <2>7. ASSUME NEW t \in InThread, InStep(t) PROVE [Input!Next]_(Input!vars)
    <3>1. ASSUME pre_lock["in"] = t, pc[t] \in InputsFirst PROVE \A p \in Outs : ~in[p]
      BY <3>1, StreamsAssumption
         DEF IInv, Chosen, PreLockOrder, Stream, Thread, InThread, InputsFirst
    <3>2. in' = in /\ active_input' \in BOOLEAN
      BY <2>7 DEF InStep, InSetParameters, InRead, InReadStart, InReadStartFails,
                  InReadStarted, InReadDone, InStandby, adev_close_input_stream,
                  do_in_standby_l, data, IInv, TypeOK
    <3>3. active_input' = active_input \/ (pre_lock["in"] = t /\ pc[t] \in InputsFirst)
      BY <2>7 DEF InStep, InSetParameters, InRead, InReadStart, InReadStartFails,
                  InReadStarted, InReadDone, InStandby, adev_close_input_stream,
                  data, LockStream, PassStream, Admitted, InputsFirst
    <3>4. CASE active_input' = active_input
      BY <2>1, <3>2, <3>4
    <3>5. CASE active_input' # active_input
      <4>1. {p \in Outs : in[p]} = {} /\ {p \in Outs : in'[p]} = {}
        BY <3>1, <3>2, <3>3, <3>5
      <4>2. Input!Start \/ Input!Stop
        BY <3>2, <3>5, <4>1 DEF Input!Start, Input!Stop, IInv, TypeOK
      <4>3. QED
        BY <4>2 DEF Input!Next
    <3>6. QED
      BY <3>4, <3>5
  <2>8. QED
    BY <2>3, <2>4, <2>5, <2>6, <2>7 DEF Next
<1>3. QED
  BY <1>1, <1>2, Invariance, PTL DEF Spec, Input!Spec, ImplementsActiveInput

-----------------------------------------------------------------------------
(* Nobody waits in a cycle. *)

(* The mutex thread t must have next, by its owner; Nobody also when t     *)
(* needs none: it transfers audio, or is not in a call.                    *)
Awaits(t) ==
    LET s == IF pc[t] \in OutCall THEN t ELSE "in"
    IN  IF pc[t] \notin OutCall \union InCall THEN Nobody
        ELSE IF pc[t] \in InputsFirst /\ lock_inputs # t THEN lock_inputs
        ELSE IF pre_lock[s] # t THEN pre_lock[s] ELSE lock[s]

(* How many mutexes t still has to get before its step: lock_inputs,       *)
(* pre_lock and lock, in this order.                                       *)
ToGet(t) ==
    IF pc[t] \notin OutCall \union InCall THEN 0
    ELSE IF pc[t] \in InputsFirst /\ lock_inputs # t THEN 3
    ELSE IF \E s \in Wanted(t) : pre_lock[s] # t THEN 2 ELSE 1

(* "When multiple mutexes have to be acquired, always take the             *)
(* lock_inputs, stream_in, stream_out" and "acquire before lock": whoever  *)
(* waits, waits for a thread in a call that has fewer mutexes to get.      *)
WaitsForward ==
    \A t \in Thread : Awaits(t) # Nobody =>
        /\ Awaits(t) \in Thread
        /\ pc[Awaits(t)] # "idle"
        /\ ToGet(Awaits(t)) < ToGet(t)

(* While any thread is in a call, one in a call waits for no mutex. *)
NobodyStuck ==
    (\E t \in Thread : pc[t] # "idle") =>
        \E t \in Thread : pc[t] # "idle" /\ Awaits(t) = Nobody

(* A thread that gave its stream's lock up to get lock_inputs finds the    *)
(* stream in standby when it is back, so it has the step of starting it.   *)
StillInStandby ==
    /\ \A o \in Outs : pc[o] = "out_write_retry" => standby[o]
    /\ pc["capture"] = "in_read_retry" => standby["in"]

(* Who holds a mutex has those before it: the owner of lock_inputs waits   *)
(* at most for a pre_lock, that of a pre_lock at most for a lock, and that *)
(* of a lock for nothing.                                                  *)
LEMMA LockOrder ==
    ASSUME IInv, NeverLeft
    PROVE  WaitsForward
<1> SUFFICES ASSUME NEW t \in Thread, Awaits(t) # Nobody
             PROVE  /\ Awaits(t) \in Thread /\ pc[Awaits(t)] # "idle"
                    /\ ToGet(Awaits(t)) < ToGet(t)
  BY DEF WaitsForward
<1> DEFINE u == Awaits(t)
           s == IF pc[t] \in OutCall THEN t ELSE "in"
<1>1. pc[t] \in OutCall \union InCall /\ Wanted(t) = {s}
  BY DEF Awaits, Wanted
<1>2. s \in Stream
  <2>1. CASE t \in Outs
    BY <2>1 DEF Stream
  <2>2. CASE t \in InThread
    BY <2>2, StreamsAssumption DEF IInv, Places, InThread, InCall, OutCall, Stream
  <2>3. QED
    BY <2>1, <2>2 DEF Thread
<1>3. CASE pc[t] \in InputsFirst /\ lock_inputs # t
  <2>1. u = lock_inputs /\ ToGet(t) = 3
    BY <1>1, <1>3 DEF Awaits, ToGet
  <2>2. u \in Thread
    BY <2>1 DEF IInv, TypeOK, NeverLeft
  <2>3. pc[u] # "idle"
    BY <2>1, <2>2 DEF IInv, LockInputsHeld, Chosen, InputsFirst
  <2>4. ToGet(u) \in {0, 1, 2}
    BY <2>1 DEF ToGet
  <2>5. QED
    BY <2>1, <2>2, <2>3, <2>4
<1>4. CASE ~(pc[t] \in InputsFirst /\ lock_inputs # t) /\ pre_lock[s] # t
  <2>1. u = pre_lock[s] /\ ToGet(t) = 2
    BY <1>1, <1>4 DEF Awaits, ToGet
  <2>2. u \in Thread
    BY <1>2, <2>1 DEF IInv, TypeOK
  <2>3. s \in Wanted(u) /\ (pc[u] \in InputsFirst => lock_inputs = u)
    BY <1>2, <2>1, <2>2 DEF IInv, PreLockOrder
  <2>4. pc[u] \in OutCall \union InCall /\ Wanted(u) = {s}
    BY <2>3 DEF Wanted
  <2>5. pc[u] # "idle" /\ ToGet(u) = 1
    BY <2>1, <2>3, <2>4 DEF ToGet, OutCall, InCall
  <2>6. QED
    BY <2>1, <2>2, <2>5
<1>5. CASE ~(pc[t] \in InputsFirst /\ lock_inputs # t) /\ pre_lock[s] = t
  <2>1. u = lock[s] /\ ToGet(t) = 1
    BY <1>1, <1>5 DEF Awaits, ToGet
  <2>2. u \in Thread
    BY <1>2, <2>1 DEF IInv, TypeOK
  <2>3. pc[u] \in {"out_write_pcm", "in_read_started", "in_read_pcm"}
    <3>1. CASE s \in Outs
      BY <2>1, <2>2, <3>1, StreamsAssumption DEF IInv, TypeOK, LockHeld, Thread
    <3>2. CASE s = "in"
      BY <2>1, <2>2, <3>2, StreamsAssumption DEF IInv, TypeOK, LockHeld, Thread
    <3>3. QED
      BY <1>2, <3>1, <3>2 DEF Stream
  <2>4. pc[u] # "idle" /\ ToGet(u) = 0
    BY <2>3 DEF ToGet, OutCall, InCall
  <2>5. QED
    BY <2>1, <2>2, <2>4
<1>6. QED
  BY <1>3, <1>4, <1>5

(* From a waiting thread to the one it waits for there are three moves at  *)
(* most.                                                                   *)
LEMMA SomeoneMoves ==
    ASSUME WaitsForward
    PROVE  NobodyStuck
<1> SUFFICES ASSUME NEW t \in Thread, pc[t] # "idle"
             PROVE  \E u \in Thread : pc[u] # "idle" /\ Awaits(u) = Nobody
  BY DEF NobodyStuck
<1>1. \A u \in Thread : ToGet(u) \in 0..3 /\ (ToGet(u) = 0 => Awaits(u) = Nobody)
  BY DEF ToGet, Awaits
<1>2. \A u \in Thread : Awaits(u) # Nobody =>
         Awaits(u) \in Thread /\ pc[Awaits(u)] # "idle" /\ ToGet(Awaits(u)) < ToGet(u)
  BY DEF WaitsForward
<1> DEFINE first == Awaits(t)  second == Awaits(first)  third == Awaits(second)
<1>3. CASE Awaits(t) = Nobody
  BY <1>3
<1>4. CASE first # Nobody /\ Awaits(first) = Nobody
  BY <1>2, <1>4
<1>5. CASE first # Nobody /\ second # Nobody
  <2> HIDE DEF first, second
  <2>1. first \in Thread /\ ToGet(first) < ToGet(t)
    BY <1>2, <1>5 DEF first
  <2>2. second \in Thread /\ pc[second] # "idle" /\ ToGet(second) < ToGet(first)
    BY <1>2, <1>5, <2>1 DEF second
  <2>3. ToGet(second) \in {0, 1}
    BY <1>1, <2>1, <2>2
  <2>4. CASE third = Nobody
    BY <2>2, <2>4
  <2>5. CASE third # Nobody
    <3> HIDE DEF third
    <3>1. third \in Thread /\ pc[third] # "idle" /\ ToGet(third) < ToGet(second)
      BY <1>2, <2>2, <2>5 DEF third
    <3>2. ToGet(third) = 0
      BY <1>1, <2>3, <3>1
    <3>3. QED
      BY <1>1, <3>1, <3>2
  <2>6. QED
    BY <2>4, <2>5
<1>6. QED
  BY <1>3, <1>4, <1>5

(* The mutexes of the streams and of the inputs are taken in one order,    *)
(* whatever calls run on however many outputs: no cycle of waiting threads *)
(* can form, and as long as there is a call some call goes on.             *)
THEOREM NoDeadlock ==
    ASSUME Offload = {}
    PROVE  Spec => [](WaitsForward /\ NobodyStuck)
<1>1. IInv /\ NeverLeft => WaitsForward /\ NobodyStuck
  BY LockOrder, SomeoneMoves
<1>2. QED
  BY <1>1, NeverReturned, Invariance, PTL

(* The only one that resets a chosen input is the output that chose it, in *)
(* the last step of its call; until then it keeps lock_inputs, through the *)
(* transfer, a failed write and its standby.                               *)
ChoiceEndsInReset ==
    \A o \in Outs : in[o] =>
        \/ in'[o] /\ lock_inputs' = lock_inputs
        \/ /\ pc[o] = "out_reset_input" /\ pc'[o] = "idle"
           /\ standby'["in"] /\ ~active_input'

(* The reset an output has decided on is neither lost nor done by another. *)
THEOREM ChoicesEndInReset ==
    ASSUME Offload = {}
    PROVE  Spec => [][ChoiceEndsInReset]_vars
<1>1. ASSUME IInv, [Next]_vars PROVE ChoiceEndsInReset
  <2> SUFFICES ASSUME NEW o \in Outs, in[o]
               PROVE  \/ in'[o] /\ lock_inputs' = lock_inputs
                      \/ /\ pc[o] = "out_reset_input" /\ pc'[o] = "idle"
                         /\ standby'["in"] /\ ~active_input'
    BY DEF ChoiceEndsInReset
  <2>1. /\ lock_inputs = o /\ o # Nobody /\ o # "in" /\ o \notin InThread
        /\ \A s \in Stream, t \in Thread :
              t # o /\ pc[t] \in InputsFirst => pre_lock[s] # t
    BY <1>1, StreamsAssumption DEF IInv, Chosen, PreLockOrder, Thread
  <2>2. pc[o] \notin {"idle"} \union InputsFirst
    BY <1>1 DEF IInv, Chosen, InputsFirst
  <2>3. CASE UNCHANGED vars
    BY <2>3 DEF vars, mutexes, data
  <2>4. ASSUME NEW t \in Thread, TakeLockInputs(t) \/ EnterPreLock(t)
        PROVE  in'[o] /\ lock_inputs' = lock_inputs
    BY <2>1, <2>4 DEF TakeLockInputs, EnterPreLock, data
  <2>5. ASSUME NEW p \in Outs, CallOut(p) \/ OutStep(p), p # o
        PROVE  in'[o] /\ lock_inputs' = lock_inputs
    <3>1. pc[p] \in InputsFirst => pre_lock[p] # p
      BY <2>1, <2>5 DEF Thread, Stream
    <3>2. pc[p] # "out_reset_input"
      BY <1>1, <2>1, <2>5 DEF IInv, Chosen
    <3>3. QED
      BY <1>1, <2>5, <3>1, <3>2
         DEF CallOut, OutStep, OutWrite, OutWriteStart, OutWriteStartFails, OutWriteDone,
             OutWriteFails, OutStandby, OutSetParameters, OutResetInput, LockStream, PassStream,
             Admitted, InputsFirst, mutexes, data, IInv, TypeOK
  <2>6. ASSUME CallOut(o) \/ OutStep(o)
        PROVE  \/ in'[o] /\ lock_inputs' = lock_inputs
               \/ /\ pc[o] = "out_reset_input" /\ pc'[o] = "idle"
                  /\ standby'["in"] /\ ~active_input'
    <3>1. CASE OutResetInput(o)
      <4>1. pc["capture"] # "in_read_started"
        BY <1>1, <3>1, StreamsAssumption
           DEF OutResetInput, PassStream, Admitted, IInv, LockHeld, Thread, InThread, Stream
      <4>2. active_input <=> ~standby["in"]
        BY <1>1, <4>1 DEF IInv, InputLife
      <4>3. QED
        BY <1>1, <3>1, <4>2
           DEF OutResetInput, do_in_standby_l, Goto, IInv, TypeOK, Thread, Stream
    <3>2. CASE OutWriteDone(o) \/ OutWriteFails(o) \/ OutStandby(o)
      BY <3>2 DEF OutWriteDone, OutWriteFails, OutStandby, data
    <3>3. QED
      BY <2>2, <2>6, <3>1, <3>2
         DEF CallOut, OutStep, OutWrite, OutWriteStart, OutWriteStartFails, OutSetParameters,
             InputsFirst, data, mutexes
  <2>7. CASE CallIn \/ CallEffect \/ adev_open_input_stream
    BY <2>7 DEF CallIn, CallEffect, adev_open_input_stream, mutexes, data
  <2>8. ASSUME NEW t \in InThread, InStep(t) PROVE in'[o] /\ lock_inputs' = lock_inputs
    <3>1. pc[t] \in InputsFirst => pre_lock["in"] # t
      BY <2>1, <2>8 DEF Thread, Stream
    <3>2. QED
      BY <2>8, <3>1
         DEF InStep, InRead, InReadStart, InReadStartFails, InReadStarted, InReadDone, InStandby,
             InSetParameters, adev_close_input_stream, LockStream, PassStream, Admitted,
             InputsFirst, mutexes, data
  <2>9. QED
    BY <1>1, <2>3, <2>4, <2>5, <2>6, <2>7, <2>8 DEF Next
<1>2. QED
  BY <1>1, Invariance, PTL DEF Spec

(* The two calls that test standby twice, before and after lock_inputs,    *)
(* find it the second time as they left it: only an output's own thread    *)
(* and the capture thread start a stream.                                  *)
THEOREM StandbyTestedTwice == Spec => []StillInStandby
<1>1. Init => StillInStandby
  BY DEF Init, StillInStandby, Stream
<1>2. IInv /\ StillInStandby /\ [Next]_vars => StillInStandby'
  <2> SUFFICES ASSUME IInv, StillInStandby, [Next]_vars PROVE StillInStandby'
    OBVIOUS
  <2> USE StreamsAssumption DEF StillInStandby, Thread, Stream, InThread, IInv, TypeOK
  <2>1. CASE UNCHANGED vars
    BY <2>1 DEF vars, mutexes, data
  <2>2. ASSUME NEW t \in Thread, TakeLockInputs(t) \/ EnterPreLock(t) PROVE StillInStandby'
    BY <2>2 DEF TakeLockInputs, EnterPreLock, data
  <2>3. ASSUME NEW o \in Outs, CallOut(o) \/ OutStep(o) PROVE StillInStandby'
    <3>1. CASE OutWrite(o)
      BY <3>1 DEF OutWrite, Goto, data
    <3>2. CASE OutWriteStart(o)
      BY <3>2 DEF OutWriteStart, Goto
    <3>3. CASE OutStandby(o) \/ OutWriteDone(o)
      BY <3>3 DEF OutStandby, OutWriteDone, AfterWrite, Goto
    <3>4. CASE OutResetInput(o)
      BY <3>4 DEF OutResetInput, do_in_standby_l, Goto
    <3>5. QED
      BY <2>3, <3>1, <3>2, <3>3, <3>4
         DEF CallOut, OutStep, OutWriteStartFails, OutWriteFails, OutSetParameters, Goto,
             mutexes, data
  <2>4. CASE CallIn \/ CallEffect \/ adev_open_input_stream
    BY <2>4 DEF CallIn, CallEffect, adev_open_input_stream, mutexes, data, Goto
  <2>5. ASSUME NEW t \in InThread, InStep(t) PROVE StillInStandby'
    BY <2>5 DEF InStep, InRead, InReadStart, InReadStartFails, InReadStarted, InReadDone,
                InStandby, InSetParameters, adev_close_input_stream, do_in_standby_l, Goto,
                mutexes, data
  <2>6. QED
    BY <2>1, <2>2, <2>3, <2>4, <2>5 DEF Next
<1>3. QED
  BY <1>1, <1>2, Invariance, PTL DEF Spec

-----------------------------------------------------------------------------
(* What tfa_power leaves behind, whatever the playback PCM and the vendor  *)
(* library do.  tfa_device_open begins with a tfa_power(FALSE) before it   *)
(* initialises clock_enabled; what is said here of it rests on memory that *)
(* is zero by then (Garbage).  The parameters are those of any instance.   *)
CONSTANTS PcmOutcomes, EnableMayFail, Garbage, MaxUsers

VARIABLES amp, stage, place, on, ok, chip, writer, pcm, initializing, clock_enabled, writing

Clock == INSTANCE TfaClock WITH pc <- place

Opening == {"powerdown", "powerup", "last powerdown"}
Waiting == {"wait", "asleep"}
Around  == {"tfa_enable", "clock_off"}   \* tfa_enable, the clock running if asked for
After   == {"clock_off", "join", "return"}

(* The writer exists from clock_on to the join, and counts as the clock    *)
(* once its report has come.                                               *)
WriterLives ==
    /\ place \in {"idle", "return", "clock_on"} => writer = "none" /\ ~clock_enabled
    /\ place \in Waiting => writer # "none" /\ ~clock_enabled
    /\ place \in Around => (clock_enabled <=> writer # "none")
    /\ place = "join" => writer # "none" /\ clock_enabled

(* No report is lost: while the caller is to be told, the loop does not    *)
(* end, and a writer that has told it has set writing.                     *)
ReportKept ==
    place \in Waiting => /\ initializing /\ writer # "close"
                         /\ writer \in {"loop", "finished"} => writing

(* The PCM is open while the writer writes. *)
PcmFollowsWriter == pcm => writer \in {"write", "loop", "close"}

(* The device is opened by a powerdown, a powerup and a powerdown. *)
StageOrders ==
    /\ place \in Waiting \union {"clock_on"} => on
    /\ stage \in {"powerdown", "last powerdown"} => ~on
    /\ stage \in Opening => ~amp.powered /\ place # "idle"
    /\ stage \in {"closed", "failed"} => place = "idle"

(* The chip is as amp_state says until tfa_enable, and as asked for or as  *)
(* it was after it.                                                        *)
ChipKnown ==
    /\ stage \in {"ready", "last powerdown"} /\ place \in After /\ ok => (chip <=> on)
    /\ stage = "ready" /\ place \in After /\ ~ok => (chip <=> amp.powered)
    /\ stage = "ready" /\ place \notin After => (chip <=> amp.powered)

ClockInv == /\ Clock!TypeOK /\ WriterLives /\ ReportKept
            /\ PcmFollowsWriter /\ StageOrders /\ ChipKnown

-----------------------------------------------------------------------------
(* With zeroed memory the first powerdown finds no clock to switch off.    *)
LEMMA ClockInitHolds ==
    ASSUME Garbage = {FALSE}, MaxUsers \in Nat
    PROVE  Clock!Init => ClockInv
<1> SUFFICES ASSUME Clock!Init PROVE ClockInv
  OBVIOUS
<1>1. amp \in Clock!Amp /\ ~amp.powered /\ \A m \in Clock!TfaMode : amp.refcount[m] <= MaxUsers
  BY DEF Clock!Init, Clock!AmpClosed, Clock!Amp
<1>2. clock_enabled = FALSE
  BY DEF Clock!Init
<1>3. QED
  BY <1>1, <1>2
     DEF Clock!Init, ClockInv, Clock!TypeOK, WriterLives, ReportKept, PcmFollowsWriter,
         StageOrders, ChipKnown, Opening, Waiting, Around, After

(* A thread is made when the clock is off, with the caller waiting.        *)
LEMMA ClockOnKeeps ==
    ASSUME ClockInv, Clock!ClockOn
    PROVE  ClockInv'
BY DEF Clock!ClockOn, Clock!thread, Clock!clock,
       ClockInv, Clock!TypeOK, WriterLives, ReportKept, PcmFollowsWriter,
       StageOrders, ChipKnown, Opening, Waiting, Around, After

(* The report, or a writing flag left behind, lets the caller go on.       *)
LEMMA WaitKeeps ==
    ASSUME ClockInv, Clock!Wait
    PROVE  ClockInv'
BY DEF Clock!Wait, Clock!thread, Clock!clock,
       ClockInv, Clock!TypeOK, WriterLives, ReportKept, PcmFollowsWriter,
       StageOrders, ChipKnown, Opening, Waiting, Around, After

(* The chip is as asked for, or as before.                                 *)
LEMMA TfaEnableKeeps ==
    ASSUME ClockInv, Clock!TfaEnable
    PROVE  ClockInv'
BY DEF Clock!TfaEnable, Clock!thread, Clock!clock,
       ClockInv, Clock!TypeOK, WriterLives, ReportKept, PcmFollowsWriter,
       StageOrders, ChipKnown, Opening, Waiting, Around, After

(* The writer is told to stop only when there is one.                      *)
LEMMA ClockOffKeeps ==
    ASSUME ClockInv, Clock!ClockOff
    PROVE  ClockInv'
BY DEF Clock!ClockOff, Clock!thread, Clock!clock,
       ClockInv, Clock!TypeOK, WriterLives, ReportKept, PcmFollowsWriter,
       StageOrders, ChipKnown, Opening, Waiting, Around, After

(* The writer has closed the PCM when it is joined.                        *)
LEMMA JoinKeeps ==
    ASSUME ClockInv, Clock!Join
    PROVE  ClockInv'
BY DEF Clock!Join, Clock!thread, Clock!clock,
       ClockInv, Clock!TypeOK, WriterLives, ReportKept, PcmFollowsWriter,
       StageOrders, ChipKnown, Opening, Waiting, Around, After

(* The steps of tfa_device_open.                                           *)
LEMMA OpenGoesOnKeeps ==
    ASSUME ClockInv, Clock!OpenGoesOn
    PROVE  ClockInv'
<1> USE DEF ClockInv, Clock!TypeOK, WriterLives, ReportKept, PcmFollowsWriter,
            StageOrders, ChipKnown, Opening, Waiting, Around, After, Clock!thread
<1>1. /\ writer = "none" /\ ~clock_enabled /\ place = "return" /\ ok
      /\ UNCHANGED <<amp, ok, chip, Clock!thread, initializing>>
  BY DEF Clock!OpenGoesOn
<1>2. CASE stage = "powerdown"
  <2>1. /\ stage' = "powerup" /\ place' = "clock_on" /\ on' = TRUE
        /\ writing' = FALSE /\ clock_enabled' = FALSE
    BY <1>2 DEF Clock!OpenGoesOn, Clock!Power
  <2>2. QED
    BY <1>1, <1>2, <2>1
<1>3. CASE stage = "powerup"
  <2>1. /\ stage' = "last powerdown" /\ place' = "tfa_enable" /\ on' = FALSE
        /\ UNCHANGED <<writing, clock_enabled>>
    BY <1>3 DEF Clock!OpenGoesOn, Clock!Power
  <2>2. QED
    BY <1>1, <1>3, <2>1
<1>4. CASE stage = "last powerdown"
  <2>1. /\ stage' = "ready" /\ place' = "idle"
        /\ UNCHANGED <<on, writing, clock_enabled>>
    BY <1>4 DEF Clock!OpenGoesOn, Clock!Power
  <2>2. QED
    BY <1>1, <1>4, <2>1
<1>5. QED
  BY <1>2, <1>3, <1>4 DEF Clock!OpenGoesOn

(* An open that fails leaves the HAL without amplifier.                    *)
LEMMA OpenFailsKeeps ==
    ASSUME ClockInv, Clock!OpenFails
    PROVE  ClockInv'
BY DEF Clock!OpenFails, Clock!thread, Clock!clock,
       ClockInv, Clock!TypeOK, WriterLives, ReportKept, PcmFollowsWriter,
       StageOrders, ChipKnown, Opening, Waiting, Around, After

(* amp_dev_close powers down.                                              *)
LEMMA CloseDeviceKeeps ==
    ASSUME ClockInv, Clock!CloseDevice
    PROVE  ClockInv'
BY DEF Clock!CloseDevice, Clock!Power, Clock!thread, Clock!clock,
       ClockInv, Clock!TypeOK, WriterLives, ReportKept, PcmFollowsWriter,
       StageOrders, ChipKnown, Opening, Waiting, Around, After

(* The device is closed.                                                   *)
LEMMA DeviceClosedKeeps ==
    ASSUME ClockInv, Clock!DeviceClosed
    PROVE  ClockInv'
BY DEF Clock!DeviceClosed, Clock!thread, Clock!clock,
       ClockInv, Clock!TypeOK, WriterLives, ReportKept, PcmFollowsWriter,
       StageOrders, ChipKnown, Opening, Waiting, Around, After

(* amp_state follows what tfa_power did.                                   *)
LEMMA EnableReturnsKeeps ==
    ASSUME ClockInv, Clock!EnableReturns
    PROVE  ClockInv'
<1> DEFINE done == IF ok THEN on ELSE amp.powered
<1>1. done \in BOOLEAN /\ (chip <=> done)
  BY DEF Clock!EnableReturns, ClockInv, Clock!TypeOK, ChipKnown, After, Clock!Amp
<1>2. amp' = [amp EXCEPT !.powered = done]
  BY DEF Clock!EnableReturns
<1> HIDE DEF done
<1>3. QED
  BY <1>1, <1>2
     DEF Clock!EnableReturns, Clock!thread, Clock!clock, Clock!Amp, ClockInv, Clock!TypeOK,
         WriterLives, ReportKept, PcmFollowsWriter, StageOrders, ChipKnown,
         Opening, Waiting, Around, After

(* The PCM opens for the writer only.                                      *)
LEMMA OpenPcmKeeps ==
    ASSUME ClockInv, Clock!OpenPcm
    PROVE  ClockInv'
BY DEF Clock!OpenPcm, Clock!thread, Clock!clock,
       ClockInv, Clock!TypeOK, WriterLives, ReportKept, PcmFollowsWriter,
       StageOrders, ChipKnown, Opening, Waiting, Around, After

(* The first report.                                                       *)
LEMMA FirstWriteKeeps ==
    ASSUME ClockInv, Clock!FirstWrite
    PROVE  ClockInv'
BY DEF Clock!FirstWrite, Clock!Report, Clock!thread, Clock!clock,
       ClockInv, Clock!TypeOK, WriterLives, ReportKept, PcmFollowsWriter,
       StageOrders, ChipKnown, Opening, Waiting, Around, After

(* The loop ends after tfa_clock_off.                                      *)
LEMMA LoopEndsKeeps ==
    ASSUME ClockInv, Clock!LoopEnds
    PROVE  ClockInv'
BY DEF Clock!LoopEnds, Clock!thread, Clock!clock,
       ClockInv, Clock!TypeOK, WriterLives, ReportKept, PcmFollowsWriter,
       StageOrders, ChipKnown, Opening, Waiting, Around, After

(* The writer closes the PCM.                                              *)
LEMMA ClosePcmKeeps ==
    ASSUME ClockInv, Clock!ClosePcm
    PROVE  ClockInv'
BY DEF Clock!ClosePcm, Clock!thread, Clock!clock,
       ClockInv, Clock!TypeOK, WriterLives, ReportKept, PcmFollowsWriter,
       StageOrders, ChipKnown, Opening, Waiting, Around, After

(* The report that there will be no clock.                                 *)
LEMMA ExitKeeps ==
    ASSUME ClockInv, Clock!Exit
    PROVE  ClockInv'
BY DEF Clock!Exit, Clock!Report, Clock!thread, Clock!clock,
       ClockInv, Clock!TypeOK, WriterLives, ReportKept, PcmFollowsWriter,
       StageOrders, ChipKnown, Opening, Waiting, Around, After

(* A user comes or goes: the chip is switched by the first and the last.   *)
LEMMA EnableDeviceKeeps ==
    ASSUME ClockInv, NEW m \in Clock!TfaMode, NEW enable \in BOOLEAN, Clock!EnableDevice(m, enable)
    PROVE  ClockInv'
<1> DEFINE n == Clock!Count(m, enable)
<1>1. n \in Nat /\ n <= MaxUsers
  BY DEF Clock!EnableDevice, Clock!Count, ClockInv, Clock!TypeOK, Clock!Amp
<1>2. amp' = [amp EXCEPT !.refcount[m] = n]
  BY DEF Clock!EnableDevice
<1> HIDE DEF n
<1>3. /\ amp' \in Clock!Amp /\ amp'.powered = amp.powered
      /\ \A k \in Clock!TfaMode : amp'.refcount[k] <= MaxUsers
  BY <1>1, <1>2 DEF ClockInv, Clock!TypeOK, Clock!Amp
<1>4. \/ enable /\ place' = "clock_on" /\ on' = TRUE
      \/ ~enable /\ place' = "tfa_enable" /\ on' = FALSE
      \/ UNCHANGED <<place, on>>
  BY DEF Clock!EnableDevice, Clock!Power
<1>5. stage = "ready" /\ place = "idle" /\ UNCHANGED <<stage, ok, chip, Clock!thread, Clock!clock>>
  BY DEF Clock!EnableDevice
<1>6. QED
  BY <1>3, <1>4, <1>5
     DEF Clock!thread, Clock!clock, ClockInv, Clock!TypeOK, WriterLives, ReportKept,
         PcmFollowsWriter, StageOrders, ChipKnown, Opening, Waiting, Around, After

-----------------------------------------------------------------------------
(* The two threads of tfa.c and their caller keep the invariant.           *)
THEOREM ClockInvariance ==
    ASSUME Garbage = {FALSE}, MaxUsers \in Nat
    PROVE  Clock!Spec => []ClockInv
<1>1. Clock!Init => ClockInv
  BY ClockInitHolds
<1>2. ClockInv /\ [Clock!Next]_(Clock!vars) => ClockInv'
  <2> SUFFICES ASSUME ClockInv, [Clock!Next]_(Clock!vars) PROVE ClockInv'
    OBVIOUS
  <2>1. CASE Clock!Caller
    BY <2>1, ClockOnKeeps, WaitKeeps, TfaEnableKeeps, ClockOffKeeps, JoinKeeps, OpenGoesOnKeeps,
       OpenFailsKeeps, EnableReturnsKeeps, DeviceClosedKeeps DEF Clock!Caller
  <2>2. CASE Clock!Writer
    BY <2>2, OpenPcmKeeps, FirstWriteKeeps, LoopEndsKeeps, ClosePcmKeeps, ExitKeeps DEF Clock!Writer
  <2>3. CASE Clock!CloseDevice
    BY <2>3, CloseDeviceKeeps
  <2>4. ASSUME NEW m \in Clock!TfaMode, NEW enable \in BOOLEAN, Clock!EnableDevice(m, enable)
        PROVE  ClockInv'
    BY <2>4, EnableDeviceKeeps
  <2>5. CASE UNCHANGED Clock!vars
    <3> USE <2>5 DEF Clock!vars, Clock!thread, Clock!clock
    <3>1. Clock!TypeOK'
      BY DEF ClockInv, Clock!TypeOK
    <3>2. WriterLives' /\ ReportKept' /\ PcmFollowsWriter'
      BY DEF ClockInv, WriterLives, ReportKept, PcmFollowsWriter
    <3>3. StageOrders' /\ ChipKnown'
      BY DEF ClockInv, StageOrders, ChipKnown
    <3>4. QED
      BY <3>1, <3>2, <3>3 DEF ClockInv
  <2>6. QED
    BY <2>1, <2>2, <2>3, <2>4, <2>5 DEF Clock!Next, Clock!NoAmplifier
<1>3. QED
  BY <1>1, <1>2, PTL DEF Clock!Spec

(* Places, flags and counts of tfa.c and amplifier.c keep their ranges.    *)
THEOREM ClockTyped ==
    ASSUME Garbage = {FALSE}, MaxUsers \in Nat
    PROVE  Clock!Spec => []Clock!TypeOK
<1>1. ClockInv => Clock!TypeOK
  BY DEF ClockInv
<1>2. QED
  BY <1>1, ClockInvariance, PTL

(* tfa_power leaves no thread and no open PCM, also when the PCM was busy  *)
(* or the chip did not switch, and joins only a thread that it made.       *)
THEOREM PowerIsQuiet ==
    ASSUME Garbage = {FALSE}, MaxUsers \in Nat
    PROVE  Clock!Spec => []Clock!QuietAfterPower
<1>1. ClockInv => Clock!QuietAfterPower
  BY DEF ClockInv, WriterLives, PcmFollowsWriter, Clock!QuietAfterPower
<1>2. QED
  BY <1>1, ClockInvariance, PTL

(* amp_state is what the chip is, over any sequence of users and failures. *)
THEOREM ChipIsKnown ==
    ASSUME Garbage = {FALSE}, MaxUsers \in Nat
    PROVE  Clock!Spec => []Clock!StateMatchesChip
<1>1. ClockInv => Clock!StateMatchesChip
  BY DEF ClockInv, ChipKnown, After, Clock!StateMatchesChip
<1>2. QED
  BY <1>1, ClockInvariance, PTL
=============================================================================

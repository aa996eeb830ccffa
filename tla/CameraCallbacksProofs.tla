----------------------- MODULE CameraCallbacksProofs -----------------------
(***************************************************************************)
(* What the camera wrapper's callback thread guarantees, for any callbacks *)
(* of the client and any length of the queue: a closed camera is quiet, a  *)
(* close can join the thread, and a client never gets a buffer that the    *)
(* vendor has taken back.                                                  *)
(***************************************************************************)
EXTENDS CameraCallbacks, SequenceTheorems, TLAPS

(* What is queued before the bound is looked at, and after.                *)
QueueBounded ==
    Len(queue) <= MaxQueue + (IF at = "join" THEN 2 ELSE IF hal = "add" THEN 0 ELSE 1)

(* The exit message is sent by ExitThread, comes last, and is not lost     *)
(* before the thread has seen it.                                          *)
ExitComes ==
    /\ \A i \in DOMAIN queue : queue[i].id = "exit" => at = "join" /\ i = Len(queue)
    /\ worker = "check" /\ msg.id = "exit" => at = "join" /\ queue = <<>>
    /\ at = "join" => \/ worker = "none"
                      \/ worker = "check" /\ msg.id = "exit"
                      \/ queue # <<>> /\ queue[Len(queue)].id = "exit"

(* The thread lives from the first open to the end of a close; without it  *)
(* nothing is queued or remembered.                                        *)
ThreadLives ==
    /\ at \notin {"closed", "join"} => worker # "none"
    /\ worker = "none" => queue = <<>> /\ user = None

(* The vendor's thread does not call back unless callbacks were set, and   *)
(* close finds it idle.                                                    *)
VendorQuiet == at \in {"closed", "join"} => asked = None /\ hal = "idle"

(* A fresh data message means that the vendor's thread still sleeps in the *)
(* callback that sent it.                                                  *)
Lent(m) == IsFresh(m) /\ m.type = "data" => hal = "sleep" /\ type = "data"

FreshIsLent ==
    /\ \A i \in DOMAIN queue : Lent(queue[i])
    /\ worker = "check" => Lent(msg)

IInv == /\ TypeOK /\ QueueBounded /\ ExitComes /\ ThreadLives
        /\ VendorQuiet /\ FreshIsLent /\ ClosedIsQuiet

-----------------------------------------------------------------------------
(* What the invariant says of the queue, as facts about its elements.      *)
LEMMA QueueShape ==
    ASSUME IInv
    PROVE  /\ queue \in Seq(ThreadMsg) /\ Len(queue) \in Nat /\ DOMAIN queue = 1..Len(queue)
           /\ \A i \in 1..Len(queue) : queue[i] \in ThreadMsg
           /\ queue = <<>> <=> Len(queue) = 0
<1>1. queue \in Seq(ThreadMsg)
  BY DEF IInv, TypeOK
<1>2. QED
  BY <1>1, LenProperties, ElementOfSeq, EmptySeq

(* The camera is closed, without a thread.                                 *)
LEMMA InitHolds == Init => IInv
<1> SUFFICES ASSUME Init PROVE IInv
  OBVIOUS
<1>1. queue = <<>> /\ queue \in Seq(ThreadMsg) /\ Len(queue) = 0 /\ DOMAIN queue = {}
  <2>1. queue = <<>>
    BY DEF Init
  <2>2. QED
    BY <2>1, EmptySeq
<1>2. TypeOK
  <2>1. msg \in ThreadMsg
    BY DEF Init, ThreadMsg, Exit
  <2>2. Len(queue) <= MaxQueue + 2 /\ \A i \in 1 .. Len(queue) - 1 : queue[i].id # "exit"
    BY <1>1, CallbacksAssumption
  <2>3. at = "closed" /\ call \in Calls /\ asked = None /\ user = None
    BY DEF Init, Calls
  <2>4. QED
    BY <1>1, <2>1, <2>2, <2>3 DEF Init, TypeOK
<1>3. QueueBounded /\ ExitComes /\ ThreadLives
  BY <1>1, CallbacksAssumption DEF Init, QueueBounded, ExitComes, ThreadLives
<1>4. VendorQuiet /\ FreshIsLent /\ ClosedIsQuiet
  BY <1>1 DEF Init, VendorQuiet, FreshIsLent, ClosedIsQuiet
<1>5. QED
  BY <1>2, <1>3, <1>4 DEF IInv

(* A first open makes the thread, one that follows a failure finds it.     *)
LEMMA camera2_device_openKeeps ==
    ASSUME IInv, camera2_device_open
    PROVE  IInv'
<1>1. UNCHANGED queue
  BY DEF camera2_device_open
<1>2. TypeOK' /\ QueueBounded'
  <2>1. TypeOK'
    BY <1>1, CallbacksAssumption
       DEF camera2_device_open, CreateThread, client, process, vendor, IInv, TypeOK, Calls,
           Forwarded
  <2>2. QueueBounded'
    BY <1>1 DEF camera2_device_open, CreateThread, process, vendor, IInv, QueueBounded
  <2>3. QED
    BY <2>1, <2>2
<1>3. ExitComes' /\ ThreadLives' /\ ClosedIsQuiet'
  BY <1>1, QueueShape
     DEF camera2_device_open, CreateThread, client, process, vendor, IInv, ExitComes, ThreadLives,
         ClosedIsQuiet, VendorQuiet, Forwarded
<1>4. VendorQuiet' /\ FreshIsLent'
  BY <1>1, QueueShape
     DEF camera2_device_open, CreateThread, client, process, vendor, IInv, VendorQuiet,
         FreshIsLent, Lent, IsFresh, ExitComes, ThreadLives, ClosedIsQuiet, Forwarded
<1>5. QED
  BY <1>2, <1>3, <1>4 DEF IInv

(* A call blocks the callbacks.                                            *)
LEMMA BeginKeeps ==
    ASSUME IInv, Begin
    PROVE  IInv'
<1>1. UNCHANGED queue
  BY DEF Begin
<1>2. QED
  BY <1>1, QueueShape, CallbacksAssumption
     DEF Begin, client, process, vendor, IInv, TypeOK, QueueBounded,
         ExitComes, ThreadLives, VendorQuiet, FreshIsLent, Lent, IsFresh, ClosedIsQuiet, Calls,
         Forwarded, ThreadMsg

(* The vendor's function is done.                                          *)
LEMMA VendorReturnsKeeps ==
    ASSUME IInv, VendorReturns
    PROVE  IInv'
<1>1. UNCHANGED queue
  BY DEF VendorReturns
<1>2. QED
  BY <1>1, QueueShape, CallbacksAssumption
     DEF VendorReturns, client, process, vendor, IInv, TypeOK, QueueBounded,
         ExitComes, ThreadLives, VendorQuiet, FreshIsLent, Lent, IsFresh, ClosedIsQuiet, Calls,
         Forwarded, ThreadMsg

(* Callbacks are queued again.                                             *)
LEMMA UnblockKeeps ==
    ASSUME IInv, Unblock
    PROVE  IInv'
<1>1. UNCHANGED queue
  BY DEF Unblock
<1>2. TypeOK'
  BY <1>1, QueueShape DEF Unblock, client, process, vendor, IInv, TypeOK
<1>3. QueueBounded' /\ ExitComes' /\ ThreadLives'
  BY <1>1, QueueShape
     DEF Unblock, client, process, vendor, IInv, QueueBounded, ExitComes, ThreadLives
<1>4. VendorQuiet' /\ FreshIsLent' /\ ClosedIsQuiet'
  BY <1>1, QueueShape
     DEF Unblock, client, process, vendor, IInv, VendorQuiet, FreshIsLent, Lent, IsFresh,
         ClosedIsQuiet
<1>5. QED
  BY <1>2, <1>3, <1>4 DEF IInv

(* A joined thread has emptied the queue.                                  *)
LEMMA JoinKeeps ==
    ASSUME IInv, Join
    PROVE  IInv'
<1>1. UNCHANGED queue
  BY DEF Join
<1>2. QED
  BY <1>1, QueueShape, CallbacksAssumption
     DEF Join, client, process, vendor, IInv, TypeOK, QueueBounded,
         ExitComes, ThreadLives, VendorQuiet, FreshIsLent, Lent, IsFresh, ClosedIsQuiet, Calls,
         Forwarded, ThreadMsg

(* The vendor's thread calls back.                                         *)
LEMMA WrappedCbKeeps ==
    ASSUME IInv, WrappedCb
    PROVE  IInv'
<1>1. UNCHANGED queue
  BY DEF WrappedCb
<1>2. QED
  BY <1>1, QueueShape, CallbacksAssumption
     DEF WrappedCb, client, process, vendor, IInv, TypeOK, QueueBounded,
         ExitComes, ThreadLives, VendorQuiet, FreshIsLent, Lent, IsFresh, ClosedIsQuiet, Calls,
         Forwarded, ThreadMsg

(* It has slept: none of its messages is fresh.                            *)
LEMMA WrappedCbReturnsKeeps ==
    ASSUME IInv, WrappedCbReturns
    PROVE  IInv'
<1>1. UNCHANGED queue
  BY DEF WrappedCbReturns
<1>2. QED
  BY <1>1, QueueShape, CallbacksAssumption
     DEF WrappedCbReturns, Pending, client, process, vendor, IInv, TypeOK, QueueBounded,
         ExitComes, ThreadLives, VendorQuiet, FreshIsLent, Lent, IsFresh, ClosedIsQuiet, Calls,
         Forwarded, ThreadMsg

(* The worker calls the client or drops the message.                       *)
LEMMA CheckExecuteKeeps ==
    ASSUME IInv, CheckExecute
    PROVE  IInv'
<1>1. UNCHANGED queue
  BY DEF CheckExecute
<1>2. QED
  BY <1>1, QueueShape, CallbacksAssumption
     DEF CheckExecute, client, process, vendor, IInv, TypeOK, QueueBounded,
         ExitComes, ThreadLives, VendorQuiet, FreshIsLent, Lent, IsFresh, ClosedIsQuiet, Calls,
         Forwarded, ThreadMsg

(* The worker remembers the callbacks.                                     *)
LEMMA UpdateCallbacksKeeps ==
    ASSUME IInv, UpdateCallbacks
    PROVE  IInv'
<1>1. UNCHANGED queue
  BY DEF UpdateCallbacks
<1>2. QED
  BY <1>1, QueueShape, CallbacksAssumption
     DEF UpdateCallbacks, client, process, vendor, IInv, TypeOK, QueueBounded,
         ExitComes, ThreadLives, VendorQuiet, FreshIsLent, Lent, IsFresh, ClosedIsQuiet, Calls,
         Forwarded, ThreadMsg

(* The client is done.                                                     *)
LEMMA UserCallbackReturnsKeeps ==
    ASSUME IInv, UserCallbackReturns
    PROVE  IInv'
<1>1. UNCHANGED queue
  BY DEF UserCallbackReturns
<1>2. QED
  BY <1>1, QueueShape, CallbacksAssumption
     DEF UserCallbackReturns, client, process, vendor, IInv, TypeOK, QueueBounded,
         ExitComes, ThreadLives, VendorQuiet, FreshIsLent, Lent, IsFresh, ClosedIsQuiet, Calls,
         Forwarded, ThreadMsg

(* The guard of auto_focus expires.                                        *)
LEMMA AFGuardExpiresKeeps ==
    ASSUME IInv, AFGuardExpires
    PROVE  IInv'
<1>1. UNCHANGED queue
  BY DEF AFGuardExpires
<1>2. TypeOK'
  BY <1>1, QueueShape DEF AFGuardExpires, client, process, vendor, IInv, TypeOK
<1>3. QueueBounded' /\ ExitComes' /\ ThreadLives'
  BY <1>1, QueueShape
     DEF AFGuardExpires, client, process, vendor, IInv, QueueBounded, ExitComes, ThreadLives
<1>4. VendorQuiet' /\ FreshIsLent' /\ ClosedIsQuiet'
  BY <1>1, QueueShape
     DEF AFGuardExpires, client, process, vendor, IInv, VendorQuiet, FreshIsLent, Lent, IsFresh,
         ClosedIsQuiet
<1>5. QED
  BY <1>2, <1>3, <1>4 DEF IInv

(* An update is queued.                                                    *)
LEMMA camera2_set_callbacksKeeps ==
    ASSUME IInv, camera2_set_callbacks
    PROVE  IInv'
<1> DEFINE m == Update(asked')
<1>1. m \in ThreadMsg /\ queue' = Append(queue, m)
  BY DEF camera2_set_callbacks, ThreadMsg, Update, Exit, IInv, TypeOK
<1>2. /\ queue' \in Seq(ThreadMsg) /\ Len(queue') = Len(queue) + 1 /\ queue' # <<>>
      /\ DOMAIN queue' = 1..Len(queue')
      /\ \A i \in 1..Len(queue) : queue'[i] = queue[i]
      /\ queue'[Len(queue) + 1] = m
  BY <1>1, QueueShape, AppendProperties, LenProperties
<1>3. QED
  BY <1>2, QueueShape, CallbacksAssumption
     DEF camera2_set_callbacks, Update, Exit, client, process, vendor, IInv, TypeOK,
         QueueBounded,
         ExitComes, ThreadLives, VendorQuiet, FreshIsLent, Lent, IsFresh, ClosedIsQuiet, Calls,
         Forwarded, ThreadMsg

(* The exit message is queued behind everything.                           *)
LEMMA ExitThreadKeeps ==
    ASSUME IInv, ExitThread
    PROVE  IInv'
<1> DEFINE m == Exit
<1>1. m \in ThreadMsg /\ queue' = Append(queue, m)
  BY DEF ExitThread, ThreadMsg, Exit, IInv, TypeOK
<1>2. /\ queue' \in Seq(ThreadMsg) /\ Len(queue') = Len(queue) + 1 /\ queue' # <<>>
      /\ DOMAIN queue' = 1..Len(queue')
      /\ \A i \in 1..Len(queue) : queue'[i] = queue[i]
      /\ queue'[Len(queue) + 1] = m
  BY <1>1, QueueShape, AppendProperties, LenProperties
<1>3. QED
  BY <1>2, QueueShape, CallbacksAssumption
     DEF ExitThread, Exit, client, process, vendor, IInv, TypeOK, QueueBounded,
         ExitComes, ThreadLives, VendorQuiet, FreshIsLent, Lent, IsFresh, ClosedIsQuiet, Calls,
         Forwarded, ThreadMsg

(* A callback is queued while its buffer is lent.                          *)
LEMMA AddCallbackKeeps ==
    ASSUME IInv, AddCallback
    PROVE  IInv'
<1> DEFINE m == Execute(type)
<1>1. m \in ThreadMsg /\ queue' = Append(queue, m)
  BY DEF AddCallback, ThreadMsg, Execute, Exit, IInv, TypeOK
<1>2. /\ queue' \in Seq(ThreadMsg) /\ Len(queue') = Len(queue) + 1 /\ queue' # <<>>
      /\ DOMAIN queue' = 1..Len(queue')
      /\ \A i \in 1..Len(queue) : queue'[i] = queue[i]
      /\ queue'[Len(queue) + 1] = m
  BY <1>1, QueueShape, AppendProperties, LenProperties
<1>3. QED
  BY <1>2, QueueShape, CallbacksAssumption
     DEF AddCallback, Execute, Exit, client, process, vendor, IInv, TypeOK, QueueBounded,
         ExitComes, ThreadLives, VendorQuiet, FreshIsLent, Lent, IsFresh, ClosedIsQuiet, Calls,
         Forwarded, ThreadMsg

(* The queue is emptied, during a call that is not the close.              *)
LEMMA ClearCallbacksKeeps ==
    ASSUME IInv, ClearCallbacks
    PROVE  IInv'
<1>1. queue' = <<>> /\ queue' \in Seq(ThreadMsg) /\ Len(queue') = 0
  BY EmptySeq DEF ClearCallbacks
<1>2. QED
  BY <1>1, QueueShape, CallbacksAssumption
     DEF ClearCallbacks, client, process, vendor, IInv, TypeOK, QueueBounded,
         ExitComes, ThreadLives, VendorQuiet, FreshIsLent, Lent, IsFresh, ClosedIsQuiet, Calls,
         Forwarded, ThreadMsg

(* The thread ends and forgets.                                            *)
LEMMA ThreadExitsKeeps ==
    ASSUME IInv, ThreadExits
    PROVE  IInv'
<1>1. queue' = <<>> /\ queue' \in Seq(ThreadMsg) /\ Len(queue') = 0
  BY EmptySeq DEF ThreadExits
<1>2. QED
  BY <1>1, QueueShape, CallbacksAssumption
     DEF ThreadExits, client, process, vendor, IInv, TypeOK, QueueBounded,
         ExitComes, ThreadLives, VendorQuiet, FreshIsLent, Lent, IsFresh, ClosedIsQuiet, Calls,
         Forwarded, ThreadMsg

(* The first message is taken; the exit message leaves the queue empty.    *)
LEMMA TakeKeeps ==
    ASSUME IInv, Take
    PROVE  IInv'
<1>1. queue # <<>> /\ queue' = Tail(queue) /\ msg' = queue[1]
  BY QueueShape DEF Take
<1>2. /\ queue' \in Seq(ThreadMsg) /\ Len(queue') = Len(queue) - 1
      /\ DOMAIN queue' = 1..Len(queue')
      /\ \A i \in 1..Len(queue') : queue'[i] = queue[i + 1]
      /\ queue' = <<>> <=> Len(queue') = 0
  BY <1>1, QueueShape, HeadTailProperties, LenProperties, EmptySeq
<1>3. QED
  BY <1>1, <1>2, QueueShape, CallbacksAssumption
     DEF Take, client, process, vendor, IInv, TypeOK, QueueBounded,
         ExitComes, ThreadLives, VendorQuiet, FreshIsLent, Lent, IsFresh, ClosedIsQuiet

(* A message grows old where it is.                                        *)
LEMMA TimePassesKeeps ==
    ASSUME IInv, TimePasses
    PROVE  IInv'
<1>1. UNCHANGED <<client, BlockCbs, worker, user, vendor>>
  BY DEF TimePasses
<1>2. CASE worker = "check" /\ IsFresh(msg)
  <2>1. msg' = [msg EXCEPT !.fresh = FALSE] /\ UNCHANGED queue
    BY <1>2 DEF TimePasses
  <2>2. msg' \in ThreadMsg /\ msg'.id = "execute" /\ ~IsFresh(msg')
    BY <1>2, <2>1 DEF IInv, TypeOK, IsFresh, ThreadMsg
  <2>3. TypeOK'
    BY <1>1, <2>1, <2>2, QueueShape DEF client, vendor, IInv, TypeOK
  <2>4. QueueBounded' /\ ExitComes' /\ ThreadLives' /\ VendorQuiet' /\ ClosedIsQuiet'
    BY <1>1, <1>2, <2>1, <2>2, QueueShape
       DEF client, vendor, IInv, QueueBounded, ExitComes, ThreadLives, VendorQuiet,
           ClosedIsQuiet,
           IsFresh
  <2>5. FreshIsLent'
    BY <1>1, <2>1, <2>2, QueueShape DEF client, vendor, IInv, FreshIsLent, Lent, IsFresh
  <2>6. QED
    BY <2>3, <2>4, <2>5 DEF IInv
<1>3. CASE ~(worker = "check" /\ IsFresh(msg))
  <2>1. PICK i \in 1..Len(queue) :
           IsFresh(queue[i]) /\ queue' = [queue EXCEPT ![i].fresh = FALSE]
    BY <1>3, QueueShape DEF TimePasses
  <2> DEFINE old == [queue[i] EXCEPT !.fresh = FALSE]
  <2>2. old \in ThreadMsg /\ old.id = "execute" /\ ~IsFresh(old)
    BY <2>1, QueueShape DEF IsFresh, ThreadMsg
  <2>3. UNCHANGED msg
    BY <1>3 DEF TimePasses
  <2>4. queue' = [queue EXCEPT ![i] = old]
    BY <2>1
  <2> HIDE DEF old
  <2>5. /\ queue' \in Seq(ThreadMsg) /\ Len(queue') = Len(queue) /\ DOMAIN queue' = 1..Len(queue)
        /\ \A j \in 1..Len(queue) : queue'[j] = IF j = i THEN old ELSE queue[j]
        /\ queue' # <<>> /\ queue # <<>>
    BY <2>2, <2>4, QueueShape, ExceptSeq, LenProperties, EmptySeq
  <2>6. TypeOK'
    BY <1>1, <2>1, <2>2, <2>3, <2>5, QueueShape DEF client, vendor, IInv, TypeOK
  <2>7. QueueBounded' /\ ExitComes' /\ ThreadLives' /\ VendorQuiet' /\ ClosedIsQuiet'
    BY <1>1, <2>1, <2>2, <2>3, <2>5, QueueShape
       DEF client, vendor, IInv, QueueBounded, ExitComes, ThreadLives, VendorQuiet,
           ClosedIsQuiet,
           IsFresh
  <2>8. FreshIsLent'
    BY <1>1, <2>1, <2>2, <2>3, <2>5, QueueShape
       DEF client, vendor, IInv, FreshIsLent, Lent, IsFresh
  <2>9. QED
    BY <2>6, <2>7, <2>8 DEF IInv
<1>4. QED
  BY <1>2, <1>3

-----------------------------------------------------------------------------
(* Client, worker and vendor's thread keep the invariant.                  *)
THEOREM Invariance == Spec => []IInv
<1>1. Init => IInv
  BY InitHolds
<1>2. IInv /\ [Next]_vars => IInv'
  <2> SUFFICES ASSUME IInv, [Next]_vars PROVE IInv'
    OBVIOUS
  <2>1. CASE camera2_device_open \/ camera2_set_callbacks \/ Begin \/ WrappedCb
             \/ TimePasses \/ AFGuardExpires
    BY <2>1, camera2_device_openKeeps, camera2_set_callbacksKeeps, BeginKeeps, WrappedCbKeeps,
       TimePassesKeeps, AFGuardExpiresKeeps
  <2>2. CASE InCall
    BY <2>2, ClearCallbacksKeeps, VendorReturnsKeeps, UnblockKeeps, ExitThreadKeeps, JoinKeeps
       DEF InCall
  <2>3. CASE Vendor
    BY <2>3, AddCallbackKeeps, WrappedCbReturnsKeeps DEF Vendor
  <2>4. CASE Worker
    BY <2>4, TakeKeeps, CheckExecuteKeeps, UpdateCallbacksKeeps, ThreadExitsKeeps,
       UserCallbackReturnsKeeps DEF Worker
  <2>5. CASE UNCHANGED vars
    <3> USE <2>5 DEF vars, client, process, vendor
    <3>1. TypeOK' /\ QueueBounded'
      BY DEF IInv, TypeOK, QueueBounded
    <3>2. ExitComes' /\ ThreadLives' /\ VendorQuiet'
      BY DEF IInv, ExitComes, ThreadLives, VendorQuiet
    <3>3. FreshIsLent' /\ ClosedIsQuiet'
      BY DEF IInv, FreshIsLent, Lent, IsFresh, ClosedIsQuiet
    <3>4. QED
      BY <3>1, <3>2, <3>3 DEF IInv
  <2>6. QED
    BY <2>1, <2>2, <2>3, <2>4, <2>5 DEF Next
<1>3. QED
  BY <1>1, <1>2, PTL DEF Spec

(* Messages, places and callbacks keep their ranges, and the queue grows   *)
(* past the bound by one message on its way and the exit only.             *)
THEOREM TypeCorrect == Spec => []TypeOK
<1>1. IInv => TypeOK
  BY DEF IInv
<1>2. QED
  BY <1>1, Invariance, PTL

(* After ExitThread nothing of the last client is queued, remembered or on *)
(* its way, whatever was queued, blocked or being called when it closed.   *)
THEOREM ClosedCameraIsQuiet == Spec => []ClosedIsQuiet
<1>1. IInv => ClosedIsQuiet
  BY DEF IInv
<1>2. QED
  BY <1>1, Invariance, PTL

(* The worker calls the client with a data buffer only while the vendor's  *)
(* callback that lent it has not returned.                                 *)
THEOREM BuffersAreLent == Spec => DataStillLent
<1>1. ASSUME IInv, Next, worker = "check", worker' = "callback", msg.type = "data"
      PROVE  hal = "sleep" /\ type = "data"
  <2>1. CheckExecute
    BY <1>1 DEF Next, camera2_device_open, CreateThread, camera2_set_callbacks, Begin, InCall,
                ClearCallbacks, VendorReturns, Unblock, ExitThread, Join, WrappedCb, Vendor,
                AddCallback, WrappedCbReturns, Worker, Take, UpdateCallbacks, ThreadExits,
                UserCallbackReturns, TimePasses, AFGuardExpires, process
  <2>2. QED
    BY <1>1, <2>1 DEF CheckExecute, IInv, FreshIsLent, Lent, IsFresh
<1>2. IInv /\ [Next]_vars =>
        [worker = "check" /\ worker' = "callback" /\ msg.type = "data"
           => hal = "sleep" /\ type = "data"]_vars
  BY <1>1
<1>3. QED
  BY <1>2, Invariance, PTL DEF Spec, DataStillLent

-----------------------------------------------------------------------------
(* Who waits for whom: a client in a call for the vendor's thread, that    *)
(* one for time only, the worker in a callback for the client, unless the  *)
(* client closes the camera: then the client waits for the worker.  The    *)
(* two never wait for each other: whoever is joined is not waiting for the *)
(* client, and has the exit message in hand or before it, or has ended.    *)
JoinComes ==
    at = "join" =>
        /\ ~Busy
        /\ \/ worker = "none"
           \/ worker = "check" /\ msg.id = "exit"
           \/ queue # <<>> /\ queue[Len(queue)].id = "exit"

(* "Avoid the deadlock scenario": whenever ExitThread joins the worker,    *)
(* that is not blocked in a callback and the exit message is still to be   *)
(* seen or has been.                                                       *)
THEOREM JoinNeverStuck == Spec => []JoinComes
<1> DEFINE JoinIsClose == at = "join" => call = "close"
<1>1. Init => JoinIsClose
  BY DEF Init
<1>2. JoinIsClose /\ [Next]_vars => JoinIsClose'
  <2> SUFFICES ASSUME JoinIsClose, [Next]_vars PROVE JoinIsClose'
    OBVIOUS
  <2>1. CASE UNCHANGED vars \/ camera2_device_open \/ camera2_set_callbacks \/ Begin \/ WrappedCb
             \/ TimePasses \/ AFGuardExpires
    BY <2>1 DEF vars, client, camera2_device_open, camera2_set_callbacks, Begin, WrappedCb,
                TimePasses, AFGuardExpires
  <2>2. CASE InCall
    BY <2>2 DEF InCall, ClearCallbacks, VendorReturns, Unblock, ExitThread, Join
  <2>3. CASE Vendor \/ Worker
    BY <2>3 DEF Vendor, AddCallback, WrappedCbReturns, Worker, Take, CheckExecute,
                UpdateCallbacks, ThreadExits, UserCallbackReturns, client
  <2>4. QED
    BY <2>1, <2>2, <2>3 DEF Next
<1>3. IInv /\ JoinIsClose => JoinComes
  BY DEF IInv, ExitComes, JoinComes, Busy
<1>4. QED
  BY <1>1, <1>2, <1>3, Invariance, PTL DEF Spec
=============================================================================

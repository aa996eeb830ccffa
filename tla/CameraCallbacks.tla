-------------------------- MODULE CameraCallbacks --------------------------
(***************************************************************************)
(* The camera wrapper's callback thread (hardware/camera/Camera2Wrapper    *)
(* and CallbackWorkerThread).  The vendor HAL calls back from a thread of  *)
(* its own and lets a client's call wait for it, and a client processes no *)
(* callback during a call; so the wrapper queues the callbacks for a       *)
(* worker thread, which calls the client.                                  *)
(*                                                                         *)
(* Time: a message is fresh until the 5 ms of Process have passed.  The    *)
(* HAL's thread sleeps for 20 ms after it has queued a data callback, so   *)
(* that message is not fresh any more when WrappedDataCb returns.          *)
(***************************************************************************)
EXTENDS Naturals, Sequences

CONSTANTS
    Callbacks,   \* what a client may give to set_callbacks
    None,        \* a NULL callback pointer
    MaxQueue     \* bound: no message is added to a queue of that length,
                 \* but for the exit message and one already on its way

ASSUME CallbacksAssumption == None \notin Callbacks /\ MaxQueue \in Nat \ {0}

VARIABLES
    at,          \* where the client is in its call
    call,        \* which call that is
    BlockCbs,    \* no callback is queued
    CancelAFTimeGuard,  \* it is less than 500 ms since auto_focus
    asked,       \* the callbacks last given to set_callbacks
    queue,       \* m_queue
    worker,      \* where Process is, "none" without a thread
    msg,         \* the message it has taken
    user,        \* its UserNotifyCb and UserDataCb
    hal,         \* where the vendor's thread is in WrappedNotifyCb, WrappedDataCb
    type         \* which of them
client == <<at, call, CancelAFTimeGuard, asked>>
process == <<worker, msg, user>>
vendor == <<hal, type>>
vars == <<client, BlockCbs, queue, process, vendor>>

Execute(t)  == [id |-> "execute", type |-> t, fresh |-> TRUE]
Update(cbs) == [id |-> "update", callbacks |-> cbs]
Exit        == [id |-> "exit"]
ThreadMsg   == [id : {"execute"}, type : {"notify", "data"}, fresh : BOOLEAN]
               \union [id : {"update"}, callbacks : Callbacks] \union [id : {"exit"}]

-----------------------------------------------------------------------------
(* The client. *)

CreateThread == /\ worker' = IF worker = "none" THEN "wait" ELSE worker
                /\ UNCHANGED <<msg, user>>

camera2_device_open ==
    /\ at = "closed"
    /\ CreateThread
    /\ BlockCbs' = FALSE
    /\ at' \in {"idle", "closed"}   \* the vendor's open may fail
    /\ UNCHANGED <<call, CancelAFTimeGuard, asked, queue, vendor>>

camera2_set_callbacks ==
    /\ at = "idle" /\ Len(queue) < MaxQueue
    /\ asked' \in Callbacks
    /\ queue' = Append(queue, Update(asked'))
    /\ UNCHANGED <<at, call, CancelAFTimeGuard, BlockCbs, process, vendor>>

(* Everything else that the wrapper only passes on to the vendor: messages *)
(* and previews, recordings, pictures, parameters, commands.               *)
Forwarded == "forward"
Calls == {"stop_preview", "auto_focus", "cancel_auto_focus", "close", Forwarded}

(* A call, up to its first step that concerns another thread.              *)
Begin ==
    /\ at = "idle"
    /\ call' \in Calls
    /\ BlockCbs' = (BlockCbs \/ call' \in {"stop_preview", "cancel_auto_focus"})
    /\ at' = IF call' \in {"close", Forwarded} THEN "vendor" ELSE "clear"
    /\ UNCHANGED <<CancelAFTimeGuard, asked, queue, process, vendor>>

(* A cancel soon after an auto_focus is skipped. *)
ClearCallbacks ==
    /\ at = "clear"
    /\ queue' = <<>>
    /\ at' = IF call = "cancel_auto_focus" /\ CancelAFTimeGuard THEN "idle" ELSE "vendor"
    /\ UNCHANGED <<call, CancelAFTimeGuard, asked, BlockCbs, process, vendor>>

(* The vendor's function returns once its thread is in no callback. *)
VendorReturns ==
    /\ at = "vendor" /\ hal = "idle" /\ call # "close"
    /\ at' = IF call \in {"auto_focus", Forwarded} THEN "idle" ELSE "unblock"
    /\ CancelAFTimeGuard' = (CancelAFTimeGuard \/ call = "auto_focus")
    /\ UNCHANGED <<call, asked, BlockCbs, queue, process, vendor>>

Unblock ==
    /\ at = "unblock"
    /\ BlockCbs' = FALSE
    /\ at' = "idle"
    /\ UNCHANGED <<call, CancelAFTimeGuard, asked, queue, process, vendor>>

(* MUTANT: the thread is told to exit and not joined. *)
ExitThread_NoJoin ==
    /\ at = "vendor" /\ hal = "idle" /\ call = "close"
    /\ queue' = Append(queue, Exit)
    /\ at' = "closed" /\ asked' = None
    /\ UNCHANGED <<call, CancelAFTimeGuard, BlockCbs, process, vendor>>

ExitThread ==
    /\ at = "vendor" /\ hal = "idle" /\ call = "close"
    /\ queue' = Append(queue, Exit)
    /\ at' = "join" /\ asked' = None
    /\ UNCHANGED <<call, CancelAFTimeGuard, BlockCbs, process, vendor>>

Join ==
    /\ at = "join" /\ worker = "none"
    /\ at' = "closed"
    /\ UNCHANGED <<call, CancelAFTimeGuard, asked, BlockCbs, queue, process, vendor>>

AFGuardExpires ==
    /\ CancelAFTimeGuard
    /\ CancelAFTimeGuard' = FALSE
    /\ UNCHANGED <<at, call, asked, BlockCbs, queue, process, vendor>>

(* The client processes no callback during a call; before it closes the    *)
(* camera it disables all messages, and returns from a callback at once.   *)
Busy == at \notin {"idle", "closed"} /\ call # "close"

-----------------------------------------------------------------------------
(* The vendor's thread. *)

(* BlockCbs is read. *)
WrappedCb ==
    /\ hal = "idle" /\ asked # None /\ at # "join"
    /\ ~BlockCbs /\ Len(queue) < MaxQueue
    /\ hal' = "add" /\ type' \in {"notify", "data"}
    /\ UNCHANGED <<client, BlockCbs, queue, process>>

(* MUTANT: the client's callback is called from the vendor's thread. *)
AddCallback_Direct ==
    /\ hal = "add"
    /\ hal' = IF Busy THEN "add" ELSE "sleep"
    /\ UNCHANGED <<client, BlockCbs, queue, process, type>>

AddCallback ==
    /\ hal = "add"
    /\ queue' = Append(queue, Execute(type))
    /\ hal' = "sleep"
    /\ UNCHANGED <<client, BlockCbs, process, type>>

IsFresh(m) == m.id = "execute" /\ m.fresh
Pending == {queue[i] : i \in DOMAIN queue} \union (IF worker = "check" THEN {msg} ELSE {})

WrappedCbReturns ==
    /\ hal = "sleep"
    /\ type = "data" => \A m \in Pending : IsFresh(m) => m.type # "data"
    /\ hal' = "idle"
    /\ UNCHANGED <<client, BlockCbs, queue, process, type>>

(* 5 ms have passed since the oldest fresh message was queued. *)
TimePasses ==
    /\ IF worker = "check" /\ IsFresh(msg)
       THEN msg' = [msg EXCEPT !.fresh = FALSE] /\ UNCHANGED queue
       ELSE \E i \in DOMAIN queue :
               /\ IsFresh(queue[i]) /\ \A j \in 1 .. i - 1 : ~IsFresh(queue[j])
               /\ queue' = [queue EXCEPT ![i].fresh = FALSE]
               /\ UNCHANGED msg
    /\ UNCHANGED <<client, BlockCbs, worker, user, vendor>>

-----------------------------------------------------------------------------
(* The worker. *)

Take ==
    /\ worker = "wait" /\ queue # <<>>
    /\ msg' = Head(queue) /\ queue' = Tail(queue)
    /\ worker' = "check"
    /\ UNCHANGED <<client, BlockCbs, user, vendor>>

(* MUTANT: the age of the message is not looked at. *)
CheckExecute_AnyAge ==
    /\ worker = "check" /\ msg.id = "execute"
    /\ worker' = IF user # None THEN "callback" ELSE "wait"
    /\ UNCHANGED <<client, BlockCbs, queue, msg, user, vendor>>

CheckExecute ==
    /\ worker = "check" /\ msg.id = "execute"
    /\ worker' = IF msg.fresh /\ user # None THEN "callback" ELSE "wait"
    /\ UNCHANGED <<client, BlockCbs, queue, msg, user, vendor>>

UpdateCallbacks ==
    /\ worker = "check" /\ msg.id = "update"
    /\ user' = msg.callbacks
    /\ worker' = "wait"
    /\ UNCHANGED <<client, BlockCbs, queue, msg, vendor>>

ThreadExits ==
    /\ worker = "check" /\ msg.id = "exit"
    /\ queue' = <<>>
    /\ user' = None
    /\ worker' = "none"
    /\ UNCHANGED <<client, BlockCbs, msg, vendor>>

UserCallbackReturns ==
    /\ worker = "callback" /\ ~Busy
    /\ worker' = "wait"
    /\ UNCHANGED <<client, BlockCbs, queue, msg, user, vendor>>

-----------------------------------------------------------------------------
Init ==
    /\ at = "closed" /\ call = "close" /\ CancelAFTimeGuard = FALSE /\ asked = None
    /\ BlockCbs = FALSE /\ queue = <<>>
    /\ worker = "none" /\ msg = Exit /\ user = None
    /\ hal = "idle" /\ type = "notify"

InCall == ClearCallbacks \/ VendorReturns \/ Unblock \/ ExitThread \/ Join
Vendor == AddCallback \/ WrappedCbReturns
Worker == Take \/ CheckExecute \/ UpdateCallbacks \/ ThreadExits \/ UserCallbackReturns

Next ==
    \/ camera2_device_open \/ camera2_set_callbacks \/ Begin \/ InCall
    \/ WrappedCb \/ Vendor \/ Worker \/ TimePasses \/ AFGuardExpires

Spec == Init /\ [][Next]_vars

(* Every thread runs, time passes, and the vendor's functions return when  *)
(* they see their thread free, even if it is called back again and again.  *)
FairSpec == Spec /\ SF_vars(InCall) /\ WF_vars(Vendor) /\ WF_vars(Worker) /\ WF_vars(TimePasses)

-----------------------------------------------------------------------------
(* Properties. *)

(* What the variables range over; the exit message is the last one. *)
TypeOK ==
    /\ at \in {"closed", "idle", "clear", "vendor", "unblock", "join"}
    /\ call \in Calls
    /\ BlockCbs \in BOOLEAN /\ CancelAFTimeGuard \in BOOLEAN
    /\ {asked, user} \subseteq Callbacks \union {None}
    /\ queue \in Seq(ThreadMsg) /\ Len(queue) <= MaxQueue + 2
    /\ \A i \in 1 .. Len(queue) - 1 : queue[i].id # "exit"
    /\ worker \in {"none", "wait", "check", "callback"} /\ msg \in ThreadMsg
    /\ hal \in {"idle", "add", "sleep"} /\ type \in {"notify", "data"}

(* A data callback gets a buffer of the vendor's: the client is called     *)
(* only while WrappedDataCb has not returned and the buffer is still lent. *)
DataStillLent ==
    [][worker = "check" /\ worker' = "callback" /\ msg.type = "data"
         => hal = "sleep" /\ type = "data"]_vars

(* ExitThread: a closed camera leaves no callback behind, in the queue or  *)
(* on the way to a client, that the next one would get.                    *)
ClosedIsQuiet ==
    at = "closed" => /\ queue = <<>> /\ hal = "idle" /\ user = None
                     /\ worker \in {"none", "wait"}

(* "avoid the deadlock scenario": every call of the client returns, and so *)
(* does every callback of the vendor's thread.                             *)
CallsReturn ==
    /\ at \in {"clear", "vendor", "unblock", "join"} ~> at \in {"idle", "closed"}
    /\ hal # "idle" ~> hal = "idle"

(* "Unblock queueing more callbacks": no call leaves them blocked. *)
CallbacksUnblocked == at = "idle" => ~BlockCbs
=============================================================================

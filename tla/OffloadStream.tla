--------------------------- MODULE OffloadStream ---------------------------
(***************************************************************************)
(* A compressed output stream and its callback thread (compress_offload.c, *)
(* and the parts of audio_hw.c that call it).  The framework's playback    *)
(* thread is the only client; it has set a callback and asked for          *)
(* non-blocking writes, as it does for every such stream.                  *)
(*                                                                         *)
(* A critical section of out->lock in which nothing waits is one step.     *)
(* Waiting on out->cond or out->offload_cond gives the lock up: a waiter   *)
(* is first signalled and then, when it has the lock again, looks.         *)
(***************************************************************************)
EXTENDS Naturals, Sequences

CONSTANTS
    MaxCmds,     \* bound: the commands in the list
    FxLibrary,   \* the offload effect library could be loaded
    OpenFails    \* the compress device may fail to open

ASSUME OffloadAssumption ==
    MaxCmds \in Nat \ {0} /\ FxLibrary \in BOOLEAN /\ OpenFails \in BOOLEAN

VARIABLES
    client,      \* where the framework's thread is
    call,        \* the call in which it waits
    standby,
    state,       \* offload_state
    compr,       \* the device: none (NULL), setup, running, paused
    listed,      \* how many usecases of the stream are in the list
    cmds,        \* offload_cmd_list
    blocked,     \* offload_thread_blocked
    worker,      \* where the callback thread is
    cmd,         \* the command it processes
    awaited,     \* the answers the framework waits for
    mdata,       \* gapless_mdata
    send_new_metadata,
    devdata      \* the metadata that the device has
stream == <<standby, state, compr, listed>>
thread == <<blocked, worker, cmd>>
metadata == <<mdata, send_new_metadata, devdata>>
vars == <<client, call, stream, cmds, thread, awaited, metadata>>

Drains  == {"drain", "partial"}
Answers == [c \in Drains \union {"wait"} |-> IF c = "wait" THEN "write" ELSE "drain"]

-----------------------------------------------------------------------------
(* Helpers, called with out->lock held. *)

send_offload_cmd_l(c) ==
    /\ cmds' = Append(cmds, c)
    /\ worker' = IF worker = "sleep" THEN "ready" ELSE worker

(* What signalling out->cond does. *)
Signalled == IF client = "wait" THEN "woken" ELSE client

enable_output_path_l(n) == n + 1
disable_output_path_l(n) == IF n = 0 THEN 0 ELSE n - 1   \* not in the list: an error

(* MUTANT: the play state survives the stop. *)
stop_output_stream_KeepsState(n) ==
    /\ listed' = IF FxLibrary /\ state \in {"PAUSED", "PAUSED_FLUSHED"}
                 THEN n ELSE disable_output_path_l(n)
    /\ UNCHANGED state

(* stop_output_stream and stop_output_offload_stream. *)
stop_output_stream(n) ==
    /\ listed' = IF FxLibrary /\ state \in {"PAUSED", "PAUSED_FLUSHED"}
                 THEN n ELSE disable_output_path_l(n)
    /\ state' = IF FxLibrary THEN "IDLE" ELSE state

-----------------------------------------------------------------------------
(* The client's calls. *)

adev_open_output_stream ==
    /\ client = "closed" /\ client' = "idle"
    /\ standby' = TRUE /\ state' = "IDLE" /\ compr' = "none" /\ listed' = 0
    /\ cmds' = <<>> /\ blocked' = FALSE /\ worker' = "ready"
    /\ awaited' = {} /\ mdata' = "zero" /\ send_new_metadata' = TRUE
    /\ UNCHANGED <<call, cmd, devdata>>

(* start_output_stream fails: out_write says that all was written. *)
out_write_Fails ==
    /\ client = "idle" /\ awaited = {} /\ standby /\ OpenFails
    /\ stop_output_stream(enable_output_path_l(listed))
    /\ compr' = "none"
    /\ UNCHANGED <<client, call, standby, cmds, thread, awaited, metadata>>

(* out_write and out_write_offload; the device takes all or a part. *)
out_write ==
    /\ client = "idle" /\ awaited = {}
    /\ standby \/ state # "PAUSED"   \* a paused stream is not written to
    /\ standby' = FALSE
    /\ LET started == IF standby THEN enable_output_path_l(listed) ELSE listed
       IN  listed' = IF state = "PAUSED_FLUSHED" THEN enable_output_path_l(started)
                                                 ELSE started
    /\ IF send_new_metadata THEN devdata' = mdata /\ send_new_metadata' = FALSE
                            ELSE UNCHANGED <<devdata, send_new_metadata>>
    /\ \/ UNCHANGED <<cmds, worker, awaited>>
       \/ /\ Len(cmds) < MaxCmds /\ send_offload_cmd_l("wait")
          /\ awaited' = {"write"}
    /\ state' = "PLAYING"
    /\ compr' = IF state # "PLAYING" THEN "running"
                ELSE IF standby THEN "setup" ELSE compr
    /\ UNCHANGED <<client, call, blocked, cmd, mdata>>

out_drain_offload ==
    /\ client = "idle" /\ awaited = {} /\ Len(cmds) < MaxCmds
    /\ \E c \in Drains : send_offload_cmd_l(c)
    /\ awaited' = {"drain"}
    /\ UNCHANGED <<client, call, stream, blocked, cmd, metadata>>

(* The kernel refuses to pause a stream that it drains. *)
out_pause_offload ==
    /\ client = "idle" /\ compr # "none" /\ state = "PLAYING"
    /\ compr' = IF worker = "call" /\ cmd \in Drains THEN compr ELSE "paused"
    /\ state' = "PAUSED" /\ listed' = disable_output_path_l(listed)
    /\ UNCHANGED <<client, call, standby, cmds, thread, awaited, metadata>>

out_resume_offload ==
    /\ client = "idle" /\ compr # "none" /\ state = "PAUSED"
    /\ compr' = "running"
    /\ state' = "PLAYING" /\ listed' = enable_output_path_l(listed)
    /\ UNCHANGED <<client, call, standby, cmds, thread, awaited, metadata>>

(* The end of out_set_parameters, which takes no lock. *)
parse_compress_metadata ==
    /\ client = "idle"
    /\ mdata' = "new" /\ send_new_metadata' = TRUE
    /\ UNCHANGED <<client, call, stream, cmds, thread, awaited, devdata>>

(* What follows when a call has stopped the device.  The framework gives   *)
(* up the answers it waits for when a flush or a standby has returned.     *)
Finish(c) ==
    \/ /\ c = "flush"
       /\ state' = "PAUSED_FLUSHED" /\ client' = "idle" /\ awaited' = {}
       /\ UNCHANGED <<listed, mdata, cmds, worker>>
    \/ /\ c \in {"standby", "close"}
       /\ mdata' = "zero"
       /\ stop_output_stream(listed)
       /\ awaited' = {}
       /\ IF c = "close" THEN client' = "join" /\ send_offload_cmd_l("exit")
                         ELSE client' = "idle" /\ UNCHANGED <<cmds, worker>>

Standby(c) == IF c = "flush" THEN standby ELSE TRUE
Stopped(c) == IF c = "flush" THEN "setup" ELSE "none"

(* MUTANT: the call does not wait for the thread. *)
stop_compressed_output_l_NoWait(c) ==
    /\ call' = c /\ standby' = Standby(c) /\ send_new_metadata' = TRUE
    /\ compr' = Stopped(c) /\ Finish(c)

(* MUTANT: stopping does not ask for the metadata to be sent again. *)
stop_compressed_output_l_KeepsMetadata(c) ==
    /\ call' = c /\ standby' = Standby(c) /\ UNCHANGED send_new_metadata
    /\ \/ /\ ~blocked /\ compr' = Stopped(c) /\ Finish(c)
       \/ /\ blocked /\ compr' = "setup" /\ client' = "wait"
          /\ UNCHANGED <<state, listed, cmds, worker, awaited, mdata>>

stop_compressed_output_l(c) ==
    /\ call' = c /\ standby' = Standby(c) /\ send_new_metadata' = TRUE
    /\ \/ /\ ~blocked /\ compr' = Stopped(c) /\ Finish(c)
       \/ /\ blocked /\ compr' = "setup" /\ client' = "wait"
          /\ UNCHANGED <<state, listed, cmds, worker, awaited, mdata>>

out_flush_offload ==
    /\ client = "idle"
    /\ \/ /\ state = "PAUSED" /\ compr # "none" /\ stop_compressed_output_l("flush")
       \/ /\ state # "PAUSED" /\ awaited # {} /\ awaited' = {}
          /\ UNCHANGED <<client, call, stream, cmds, worker, mdata, send_new_metadata>>
    /\ UNCHANGED <<blocked, cmd, devdata>>

(* out_standby, do_out_standby_l. *)
out_standby ==
    /\ client = "idle" /\ ~standby
    /\ stop_compressed_output_l("standby")
    /\ UNCHANGED <<blocked, cmd, devdata>>

adev_close_output_stream ==
    /\ client = "idle"
    /\ \/ ~standby /\ stop_compressed_output_l("close")
       \/ /\ standby /\ client' = "join" /\ call' = "close" /\ awaited' = {}
          /\ send_offload_cmd_l("exit")
          /\ UNCHANGED <<stream, mdata, send_new_metadata>>
    /\ UNCHANGED <<blocked, cmd, devdata>>

(* out->cond was signalled. *)
Woken ==
    /\ client = "woken"
    /\ \/ blocked /\ client' = "wait"
          /\ UNCHANGED <<state, compr, listed, cmds, worker, awaited, mdata>>
       \/ ~blocked /\ compr' = Stopped(call) /\ Finish(call)
    /\ UNCHANGED <<call, standby, blocked, cmd, send_new_metadata, devdata>>

destroy_offload_callback_thread ==
    /\ client = "join" /\ worker = "done"
    /\ client' = "closed" /\ worker' = "none" /\ call' = "none"
    /\ UNCHANGED <<stream, cmds, blocked, cmd, awaited, metadata>>

-----------------------------------------------------------------------------
(* The callback thread (offload_thread_loop). *)

Sleeps ==
    /\ worker = "ready" /\ cmds = <<>>
    /\ worker' = "sleep"
    /\ UNCHANGED <<client, call, stream, cmds, blocked, cmd, awaited, metadata>>

Exits ==
    /\ worker = "ready" /\ cmds # <<>> /\ Head(cmds) = "exit"
    /\ worker' = "done" /\ cmds' = <<>> /\ client' = Signalled
    /\ UNCHANGED <<call, stream, blocked, cmd, awaited, metadata>>

(* MUTANT: the command is taken off the list only when there is a device. *)
Drops_Keeps ==
    /\ worker = "ready" /\ cmds # <<>> /\ Head(cmds) # "exit" /\ compr = "none"
    /\ client' = Signalled
    /\ UNCHANGED <<call, stream, cmds, thread, awaited, metadata>>

(* Without a device the command is dropped, unanswered. *)
Drops ==
    /\ worker = "ready" /\ cmds # <<>> /\ Head(cmds) # "exit" /\ compr = "none"
    /\ cmds' = Tail(cmds) /\ client' = Signalled
    /\ UNCHANGED <<call, stream, thread, awaited, metadata>>

Takes ==
    /\ worker = "ready" /\ cmds # <<>> /\ Head(cmds) # "exit" /\ compr # "none"
    /\ cmd' = Head(cmds) /\ cmds' = Tail(cmds)
    /\ blocked' = TRUE /\ worker' = "call"
    /\ UNCHANGED <<client, call, stream, awaited, metadata>>

(* compress_wait, compress_partial_drain, compress_drain: a running device *)
(* gets there in the end, a stopped one is an error at once.               *)
DeviceReturns ==
    /\ worker = "call" /\ compr # "paused"
    /\ worker' = "back"
    /\ UNCHANGED <<client, call, stream, cmds, blocked, cmd, awaited, metadata>>

(* MUTANT: a partial drain is not answered. *)
CallsBack_NotPartial ==
    /\ worker = "back" /\ worker' = "ready"
    /\ blocked' = FALSE /\ client' = Signalled
    /\ awaited' = IF cmd = "partial" THEN awaited ELSE awaited \ {Answers[cmd]}
    /\ UNCHANGED <<call, stream, cmds, cmd, metadata>>

CallsBack ==
    /\ worker = "back" /\ worker' = "ready"
    /\ blocked' = FALSE /\ client' = Signalled
    /\ awaited' = awaited \ {Answers[cmd]}
    /\ UNCHANGED <<call, stream, cmds, cmd, metadata>>

-----------------------------------------------------------------------------
Init ==
    /\ client = "closed" /\ call = "none"
    /\ standby = TRUE /\ state = "IDLE" /\ compr = "none" /\ listed = 0
    /\ cmds = <<>> /\ blocked = FALSE /\ worker = "none" /\ cmd = "wait"
    /\ awaited = {} /\ mdata = "zero" /\ send_new_metadata = FALSE /\ devdata = "zero"

Calls == \/ adev_open_output_stream \/ out_write \/ out_write_Fails
         \/ out_drain_offload \/ out_pause_offload \/ out_resume_offload
         \/ parse_compress_metadata \/ out_flush_offload \/ out_standby
         \/ adev_close_output_stream
Client == Woken \/ destroy_offload_callback_thread
Worker == Sleeps \/ Exits \/ Drops \/ Takes \/ DeviceReturns \/ CallsBack

Next == Calls \/ Client \/ Worker

Spec == Init /\ [][Next]_vars

(* A call in progress and the thread go on, and a device that is not       *)
(* paused plays; the framework need not call.                              *)
FairSpec == Spec /\ WF_vars(Client) /\ WF_vars(Worker)

-----------------------------------------------------------------------------
(* Every variable in its range; no usecase is listed twice. *)
TypeOK ==
    /\ client \in {"closed", "idle", "wait", "woken", "join"}
    /\ call \in {"none", "flush", "standby", "close"}
    /\ standby \in BOOLEAN /\ blocked \in BOOLEAN /\ send_new_metadata \in BOOLEAN
    /\ state \in {"IDLE", "PLAYING", "PAUSED", "PAUSED_FLUSHED"}
    /\ compr \in {"none", "setup", "running", "paused"} /\ listed \in {0, 1}
    /\ cmds \in Seq(Drains \union {"wait", "exit"})
    /\ worker \in {"none", "sleep", "ready", "call", "back", "done"}
    /\ cmd \in Drains \union {"wait"} /\ awaited \subseteq {"write", "drain"}
    /\ {mdata, devdata} \subseteq {"zero", "new"}

(* The thread uses the device without the lock: it is not closed, nor the  *)
(* stream freed, before the thread is back (offload_thread_loop against    *)
(* stop_compressed_output_l, destroy_offload_callback_thread).             *)
DeviceOutlivesCall ==
    /\ worker = "call" => compr # "none"
    /\ client = "closed" => worker = "none"

(* Between two calls the stream is in the usecase list once if it plays    *)
(* and not at all if it pauses or stands by, and a playing stream's device *)
(* was started, over any sequence of calls (out_write_offload's start,     *)
(* stop_output_offload_stream).                                            *)
DeviceFollowsState ==
    client \in {"idle", "closed"} =>
        /\ listed = IF standby \/ state \in {"PAUSED", "PAUSED_FLUSHED"} THEN 0 ELSE 1
        /\ ~standby /\ state = "PLAYING" => compr = "running"

(* The device plays with the metadata that the stream has, unless they are *)
(* to be sent with the next write: a stop, a flush or a close of the       *)
(* device does not leave those of another track in force.                  *)
MetadataInForce ==
    client = "idle" /\ compr # "none" /\ ~send_new_metadata => devdata = mdata

(* A flush, standby or close that waits for the thread returns, and with   *)
(* it adev->lock is given up, which a standby holds while it waits.        *)
CallsReturn == (client \in {"wait", "woken", "join"}) ~> (client \in {"idle", "closed"})

(* A write or drain is answered, unless the device is not open, the stream *)
(* is paused, or the framework stops waiting: no wake-up of the thread is  *)
(* lost, and no command stays behind in the list.                          *)
AnswersCome ==
    \A a \in {"write", "drain"} :
        (a \in awaited) ~> (a \notin awaited \/ compr = "none" \/ state = "PAUSED")
=============================================================================

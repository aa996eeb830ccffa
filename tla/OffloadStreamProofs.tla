------------------------ MODULE OffloadStreamProofs ------------------------
(***************************************************************************)
(* What a compressed output and its callback thread guarantee, for any     *)
(* number of commands in the list, with the offload effect library and     *)
(* without, and whether the device opens or not: a device lives as long    *)
(* as its calls, and no wake-up between call and thread is lost.           *)
(***************************************************************************)
EXTENDS OffloadStream, SequenceTheorems, TLAPS

Commands == Drains \union {"wait", "exit"}
Paused   == {"PAUSED", "PAUSED_FLUSHED"}
Stopping == {"wait", "woken"}

(* The ranges of all variables but listed, which has none without the      *)
(* effect library.                                                         *)
Ranges ==
    /\ client \in {"closed", "idle", "wait", "woken", "join"}
    /\ call \in {"none", "flush", "standby", "close"}
    /\ standby \in BOOLEAN /\ blocked \in BOOLEAN /\ send_new_metadata \in BOOLEAN
    /\ state \in {"IDLE", "PLAYING", "PAUSED", "PAUSED_FLUSHED"}
    /\ compr \in {"none", "setup", "running", "paused"} /\ listed \in Nat
    /\ cmds \in Seq(Commands)
    /\ worker \in {"none", "sleep", "ready", "call", "back", "done"}
    /\ cmd \in Drains \union {"wait"} /\ awaited \subseteq {"write", "drain"}
    /\ mdata \in {"zero", "new"} /\ devdata \in {"zero", "new"}

(* The thread says truly that it is away with the device, and the device   *)
(* is there until it is back; only a stream that is closed has no thread.  *)
ThreadLives ==
    /\ blocked <=> worker \in {"call", "back"}
    /\ blocked => compr # "none"
    /\ client = "closed" <=> worker = "none"

(* A call waits for the thread with the device stopped and still there;    *)
(* which call it is shows in what it has changed.                          *)
WaitsForThread ==
    /\ client \in Stopping => compr # "none" /\ send_new_metadata /\ call # "none"
    /\ client \in Stopping => IF call = "flush" THEN ~standby /\ state = "PAUSED" ELSE standby

(* A stream in standby, or on its way to be freed, has no device.          *)
StandbyIsClosed ==
    /\ client \in {"closed", "join"} => standby
    /\ client \notin Stopping /\ standby => compr = "none"
    /\ client = "idle" /\ ~standby => compr # "none"

(* Metadata have to be sent to a device that is opened anew.               *)
MetadataKept ==
    client = "idle" =>
        /\ compr = "none" => send_new_metadata
        /\ compr # "none" /\ ~send_new_metadata => devdata = mdata

(* The usecase list and the play state; a call that waits has not left the *)
(* list yet.                                                               *)
ListFollowsState ==
    /\ client \notin Stopping /\ standby => state = "IDLE" /\ listed = 0
    /\ ~standby \/ client \in Stopping => listed = IF state \in Paused THEN 0 ELSE 1
    /\ client = "idle" /\ ~standby /\ state = "PLAYING" => compr = "running"

IInv == /\ Ranges /\ ThreadLives /\ WaitsForThread /\ StandbyIsClosed /\ MetadataKept
        /\ (FxLibrary => ListFollowsState)

-----------------------------------------------------------------------------
(* Adding a command keeps the list's type, and wakes a thread that sleeps. *)
LEMMA SendIsTyped ==
    ASSUME IInv, NEW c \in Commands, send_offload_cmd_l(c)
    PROVE  /\ cmds' \in Seq(Commands)
           /\ worker' \in {"none", "ready", "call", "back", "done"}
           /\ (worker' = "none" <=> worker = "none")
           /\ (worker' \in {"call", "back"} <=> worker \in {"call", "back"})
<1>1. cmds' \in Seq(Commands)
  BY AppendProperties DEF send_offload_cmd_l, IInv, Ranges
<1>2. QED
  BY <1>1 DEF send_offload_cmd_l, IInv, Ranges

(* Taking the first command keeps the list's type.                         *)
LEMMA TailIsTyped ==
    ASSUME IInv, cmds # <<>>
    PROVE  Head(cmds) \in Commands /\ Tail(cmds) \in Seq(Commands)
BY HeadTailProperties DEF IInv, Ranges

(* The stream is closed and there is no thread.                            *)
LEMMA InitHolds == Init => IInv
<1> SUFFICES ASSUME Init PROVE IInv
  OBVIOUS
<1>1. cmds \in Seq(Commands)
  BY EmptySeq DEF Init
<1>2. QED
  BY <1>1 DEF Init, IInv, Ranges, ThreadLives, WaitsForThread, StandbyIsClosed, MetadataKept,
              ListFollowsState, Stopping, Paused, Drains

(* The thread is made with the stream.                                     *)
LEMMA adev_open_output_streamKeeps ==
    ASSUME IInv, adev_open_output_stream
    PROVE  IInv'
<1>1. cmds' \in Seq(Commands)
  BY EmptySeq DEF adev_open_output_stream
<1>2. Ranges'
  BY <1>1 DEF adev_open_output_stream, thread, stream, metadata, IInv, Ranges
<1>3. ThreadLives' /\ WaitsForThread' /\ StandbyIsClosed' /\ MetadataKept'
  BY <1>1
     DEF adev_open_output_stream, thread, stream, metadata, IInv, Ranges, ThreadLives,
         WaitsForThread, StandbyIsClosed, MetadataKept, Stopping
<1>4. FxLibrary => ListFollowsState'
  BY <1>1
     DEF adev_open_output_stream, thread, stream, metadata, IInv, Ranges, ThreadLives,
         WaitsForThread, StandbyIsClosed, ListFollowsState, Stopping, Paused
<1>5. QED
  BY <1>2, <1>3, <1>4 DEF IInv

(* A device that does not open leaves the stream in standby.               *)
LEMMA out_write_FailsKeeps ==
    ASSUME IInv, out_write_Fails
    PROVE  IInv'
<1>2. Ranges'
  BY DEF out_write_Fails, stop_output_stream, enable_output_path_l, disable_output_path_l,
     thread, stream, metadata, IInv, Ranges
<1>3. ThreadLives' /\ WaitsForThread' /\ StandbyIsClosed' /\ MetadataKept'
  BY DEF out_write_Fails, stop_output_stream, enable_output_path_l, disable_output_path_l,
     thread, stream, metadata, IInv, Ranges, ThreadLives, WaitsForThread, StandbyIsClosed,
         MetadataKept, Stopping
<1>4. FxLibrary => ListFollowsState'
  BY DEF out_write_Fails, stop_output_stream, enable_output_path_l, disable_output_path_l,
     thread, stream, metadata, IInv, Ranges, ThreadLives, WaitsForThread, StandbyIsClosed,
         ListFollowsState, Stopping, Paused
<1>5. QED
  BY <1>2, <1>3, <1>4 DEF IInv

(* Pausing takes the usecase off the list.                                 *)
LEMMA out_pause_offloadKeeps ==
    ASSUME IInv, out_pause_offload
    PROVE  IInv'
<1>2. Ranges'
  BY DEF out_pause_offload, disable_output_path_l, thread, stream, metadata, IInv, Ranges
<1>3. ThreadLives' /\ WaitsForThread' /\ StandbyIsClosed' /\ MetadataKept'
  BY DEF out_pause_offload, disable_output_path_l, thread, stream, metadata, IInv, Ranges,
     ThreadLives, WaitsForThread, StandbyIsClosed, MetadataKept, Stopping
<1>4. FxLibrary => ListFollowsState'
  BY DEF out_pause_offload, disable_output_path_l, thread, stream, metadata, IInv, Ranges,
     ThreadLives, WaitsForThread, StandbyIsClosed, ListFollowsState, Stopping, Paused
<1>5. QED
  BY <1>2, <1>3, <1>4 DEF IInv

(* Resuming puts it back.                                                  *)
LEMMA out_resume_offloadKeeps ==
    ASSUME IInv, out_resume_offload
    PROVE  IInv'
<1>2. Ranges'
  BY DEF out_resume_offload, enable_output_path_l, thread, stream, metadata, IInv, Ranges
<1>3. ThreadLives' /\ WaitsForThread' /\ StandbyIsClosed' /\ MetadataKept'
  BY DEF out_resume_offload, enable_output_path_l, thread, stream, metadata, IInv, Ranges,
     ThreadLives, WaitsForThread, StandbyIsClosed, MetadataKept, Stopping
<1>4. FxLibrary => ListFollowsState'
  BY DEF out_resume_offload, enable_output_path_l, thread, stream, metadata, IInv, Ranges,
     ThreadLives, WaitsForThread, StandbyIsClosed, ListFollowsState, Stopping, Paused
<1>5. QED
  BY <1>2, <1>3, <1>4 DEF IInv

(* New metadata are to be sent.                                            *)
LEMMA parse_compress_metadataKeeps ==
    ASSUME IInv, parse_compress_metadata
    PROVE  IInv'
<1>2. Ranges'
  BY DEF parse_compress_metadata, thread, stream, metadata, IInv, Ranges
<1>3. ThreadLives' /\ WaitsForThread' /\ StandbyIsClosed' /\ MetadataKept'
  BY DEF parse_compress_metadata, thread, stream, metadata, IInv, Ranges, ThreadLives,
     WaitsForThread, StandbyIsClosed, MetadataKept, Stopping
<1>4. FxLibrary => ListFollowsState'
  BY DEF parse_compress_metadata, thread, stream, metadata, IInv, Ranges, ThreadLives,
     WaitsForThread, StandbyIsClosed, ListFollowsState, Stopping, Paused
<1>5. QED
  BY <1>2, <1>3, <1>4 DEF IInv

(* The thread has gone before the stream is freed.                         *)
LEMMA destroy_offload_callback_threadKeeps ==
    ASSUME IInv, destroy_offload_callback_thread
    PROVE  IInv'
<1>2. Ranges'
  BY DEF destroy_offload_callback_thread, thread, stream, metadata, IInv, Ranges
<1>3. ThreadLives' /\ WaitsForThread' /\ StandbyIsClosed' /\ MetadataKept'
  BY DEF destroy_offload_callback_thread, thread, stream, metadata, IInv, Ranges,
     ThreadLives, WaitsForThread, StandbyIsClosed, MetadataKept, Stopping
<1>4. FxLibrary => ListFollowsState'
  BY DEF destroy_offload_callback_thread, thread, stream, metadata, IInv, Ranges,
     ThreadLives, WaitsForThread, StandbyIsClosed, ListFollowsState, Stopping, Paused
<1>5. QED
  BY <1>2, <1>3, <1>4 DEF IInv

(* The thread waits for a command.                                         *)
LEMMA SleepsKeeps ==
    ASSUME IInv, Sleeps
    PROVE  IInv'
<1>2. Ranges'
  BY DEF Sleeps, thread, stream, metadata, IInv, Ranges
<1>3. ThreadLives' /\ WaitsForThread' /\ StandbyIsClosed' /\ MetadataKept'
  BY DEF Sleeps, thread, stream, metadata, IInv, Ranges, ThreadLives, WaitsForThread,
     StandbyIsClosed, MetadataKept, Stopping
<1>4. FxLibrary => ListFollowsState'
  BY DEF Sleeps, thread, stream, metadata, IInv, Ranges, ThreadLives, WaitsForThread,
     StandbyIsClosed, ListFollowsState, Stopping, Paused
<1>5. QED
  BY <1>2, <1>3, <1>4 DEF IInv

(* The thread ends after a close.                                          *)
LEMMA ExitsKeeps ==
    ASSUME IInv, Exits
    PROVE  IInv'
<1>1. cmds' \in Seq(Commands)
  BY EmptySeq DEF Exits
<1>2. Ranges'
  BY <1>1 DEF Exits, Signalled, thread, stream, metadata, IInv, Ranges
<1>3. ThreadLives' /\ WaitsForThread' /\ StandbyIsClosed' /\ MetadataKept'
  BY <1>1
     DEF Exits, Signalled, thread, stream, metadata, IInv, Ranges, ThreadLives,
         WaitsForThread, StandbyIsClosed, MetadataKept, Stopping
<1>4. FxLibrary => ListFollowsState'
  BY <1>1
     DEF Exits, Signalled, thread, stream, metadata, IInv, Ranges, ThreadLives,
         WaitsForThread, StandbyIsClosed, ListFollowsState, Stopping, Paused
<1>5. QED
  BY <1>2, <1>3, <1>4 DEF IInv

(* Without a device a command is dropped.                                  *)
LEMMA DropsKeeps ==
    ASSUME IInv, Drops
    PROVE  IInv'
<1>1. cmds' \in Seq(Commands)
  BY TailIsTyped DEF Drops
<1>2. Ranges'
  BY <1>1 DEF Drops, Signalled, thread, stream, metadata, IInv, Ranges
<1>3. ThreadLives' /\ WaitsForThread' /\ StandbyIsClosed' /\ MetadataKept'
  BY <1>1
     DEF Drops, Signalled, thread, stream, metadata, IInv, Ranges, ThreadLives,
         WaitsForThread, StandbyIsClosed, MetadataKept, Stopping
<1>4. FxLibrary => ListFollowsState'
  BY <1>1
     DEF Drops, Signalled, thread, stream, metadata, IInv, Ranges, ThreadLives,
         WaitsForThread, StandbyIsClosed, ListFollowsState, Stopping, Paused
<1>5. QED
  BY <1>2, <1>3, <1>4 DEF IInv

(* The thread goes to the device that is there.                            *)
LEMMA TakesKeeps ==
    ASSUME IInv, Takes
    PROVE  IInv'
<1>1. cmds' \in Seq(Commands) /\ cmd' \in Drains \union {"wait"}
  BY TailIsTyped DEF Takes, Commands
<1>2. Ranges'
  BY <1>1 DEF Takes, thread, stream, metadata, IInv, Ranges
<1>3. ThreadLives' /\ WaitsForThread' /\ StandbyIsClosed' /\ MetadataKept'
  BY <1>1
     DEF Takes, thread, stream, metadata, IInv, Ranges, ThreadLives, WaitsForThread,
         StandbyIsClosed, MetadataKept, Stopping
<1>4. FxLibrary => ListFollowsState'
  BY <1>1
     DEF Takes, thread, stream, metadata, IInv, Ranges, ThreadLives, WaitsForThread,
         StandbyIsClosed, ListFollowsState, Stopping, Paused
<1>5. QED
  BY <1>2, <1>3, <1>4 DEF IInv

(* The device lets the thread go.                                          *)
LEMMA DeviceReturnsKeeps ==
    ASSUME IInv, DeviceReturns
    PROVE  IInv'
<1>2. Ranges'
  BY DEF DeviceReturns, thread, stream, metadata, IInv, Ranges
<1>3. ThreadLives' /\ StandbyIsClosed'
  BY DEF DeviceReturns, thread, stream, metadata, IInv, Ranges, ThreadLives, WaitsForThread,
     StandbyIsClosed, Stopping
<1>4. WaitsForThread' /\ MetadataKept'
  BY DEF DeviceReturns, thread, stream, metadata, IInv, Ranges, ThreadLives, WaitsForThread,
     StandbyIsClosed, MetadataKept, Stopping
<1>5. FxLibrary => ListFollowsState'
  BY DEF DeviceReturns, thread, stream, metadata, IInv, Ranges, ThreadLives, WaitsForThread,
     StandbyIsClosed, ListFollowsState, Stopping, Paused
<1>6. QED
  BY <1>2, <1>3, <1>4, <1>5 DEF IInv

(* The thread is back and signals.                                         *)
LEMMA CallsBackKeeps ==
    ASSUME IInv, CallsBack
    PROVE  IInv'
<1>2. Ranges'
  <2>1. client' \in {"closed", "idle", "wait", "woken", "join"} /\ awaited' \subseteq awaited
    BY DEF CallsBack, Signalled, IInv, Ranges
  <2>2. QED
    BY <2>1 DEF CallsBack, stream, metadata, IInv, Ranges
<1>3. ThreadLives' /\ StandbyIsClosed'
  <2>1. ThreadLives'
    BY DEF CallsBack, Signalled, thread, stream, metadata, IInv, Ranges, ThreadLives,
       WaitsForThread, Stopping
  <2>2. StandbyIsClosed'
    BY DEF CallsBack, Signalled, stream, metadata, IInv, Ranges, ThreadLives, WaitsForThread,
       StandbyIsClosed, Stopping
  <2>3. QED
    BY <2>1, <2>2
<1>4. WaitsForThread' /\ MetadataKept'
  BY DEF CallsBack, Signalled, thread, stream, metadata, IInv, Ranges, ThreadLives, WaitsForThread,
     StandbyIsClosed, MetadataKept, Stopping
<1>5. FxLibrary => ListFollowsState'
  BY DEF CallsBack, Signalled, thread, stream, metadata, IInv, Ranges, ThreadLives, WaitsForThread,
     StandbyIsClosed, ListFollowsState, Stopping, Paused
<1>6. QED
  BY <1>2, <1>3, <1>4, <1>5 DEF IInv

(* A write starts what is in standby or was flushed, and leaves the stream *)
(* playing, in the list once.                                              *)
LEMMA out_writeKeeps ==
    ASSUME IInv, out_write
    PROVE  IInv'
<1>1. /\ cmds' \in Seq(Commands) /\ awaited' \subseteq {"write", "drain"}
      /\ worker' \in {"none", "sleep", "ready", "call", "back", "done"}
      /\ (worker' = "none" <=> worker = "none")
      /\ (worker' \in {"call", "back"} <=> worker \in {"call", "back"})
  <2>1. CASE UNCHANGED <<cmds, worker, awaited>>
    BY <2>1 DEF IInv, Ranges
  <2>2. CASE send_offload_cmd_l("wait") /\ awaited' = {"write"}
    BY <2>2, SendIsTyped DEF Commands
  <2>3. QED
    BY <2>1, <2>2 DEF out_write
<1>2. /\ client = "idle" /\ (standby \/ state # "PAUSED")
      /\ standby' = FALSE /\ state' = "PLAYING" /\ UNCHANGED <<client, call, blocked, cmd, mdata>>
      /\ compr' = IF state # "PLAYING" THEN "running" ELSE IF standby THEN "setup" ELSE compr
      /\ send_new_metadata' = FALSE
      /\ devdata' = IF send_new_metadata THEN mdata ELSE devdata
  BY DEF out_write, IInv, Ranges
<1>3. listed' = listed + (IF standby THEN 1 ELSE 0) + (IF state = "PAUSED_FLUSHED" THEN 1 ELSE 0)
  BY DEF out_write, enable_output_path_l, IInv, Ranges
<1>4. Ranges'
  <2>1. listed' \in Nat
    BY <1>3 DEF IInv, Ranges
  <2>2. compr' \in {"none", "setup", "running", "paused"} /\ devdata' \in {"zero", "new"}
    BY <1>2 DEF IInv, Ranges
  <2>3. QED
    BY <1>1, <1>2, <2>1, <2>2 DEF IInv, Ranges
<1>5. ThreadLives' /\ WaitsForThread' /\ StandbyIsClosed' /\ MetadataKept'
  BY <1>1, <1>2 DEF IInv, Ranges, ThreadLives, WaitsForThread, StandbyIsClosed, MetadataKept,
     Stopping
<1>6. FxLibrary => ListFollowsState'
  BY <1>2, <1>3
     DEF IInv, Ranges, StandbyIsClosed, ListFollowsState, Stopping, Paused
<1>7. QED
  BY <1>4, <1>5, <1>6 DEF IInv

(* A drain is a command like the others.                                   *)
LEMMA out_drain_offloadKeeps ==
    ASSUME IInv, out_drain_offload
    PROVE  IInv'
<1>1. PICK c \in Drains : send_offload_cmd_l(c)
  BY DEF out_drain_offload
<1>2. /\ cmds' \in Seq(Commands)
      /\ worker' \in {"none", "ready", "call", "back", "done"}
      /\ (worker' = "none" <=> worker = "none")
      /\ (worker' \in {"call", "back"} <=> worker \in {"call", "back"})
  BY <1>1, SendIsTyped DEF Commands
<1>3. QED
  BY <1>2
     DEF out_drain_offload, stream, metadata, IInv, Ranges, ThreadLives, WaitsForThread,
         StandbyIsClosed, MetadataKept, ListFollowsState, Stopping, Paused

(* A call that need not wait, or has waited, stops the device.             *)
LEMMA FinishKeeps ==
    ASSUME IInv, NEW c \in {"flush", "standby", "close"}, client \in {"idle", "woken"}, ~blocked,
           call' = c, standby' = Standby(c), send_new_metadata' = TRUE, compr' = Stopped(c),
           Finish(c), UNCHANGED <<blocked, cmd, devdata>>,
           c = "flush" => ~standby /\ state = "PAUSED",
           client = "idle" => ~standby
    PROVE  IInv'
<1>1. CASE c = "flush"
  <2>1. /\ standby' = FALSE /\ compr' = "setup" /\ state' = "PAUSED_FLUSHED" /\ client' = "idle"
        /\ awaited' = {} /\ UNCHANGED <<listed, mdata, cmds, worker>>
    BY <1>1 DEF Standby, Stopped, Finish, IInv, Ranges
  <2>2. QED
    BY <1>1, <2>1
       DEF IInv, Ranges, ThreadLives, WaitsForThread, StandbyIsClosed, MetadataKept,
           ListFollowsState, Stopping, Paused
<1>2. CASE c # "flush"
  <2>1. /\ standby' = TRUE /\ compr' = "none" /\ mdata' = "zero" /\ awaited' = {}
        /\ client' = IF c = "close" THEN "join" ELSE "idle"
        /\ stop_output_stream(listed)
    BY <1>2 DEF Standby, Stopped, Finish
  <2>2. /\ cmds' \in Seq(Commands)
        /\ worker' \in {"none", "sleep", "ready", "call", "back", "done"}
        /\ (worker' = "none" <=> worker = "none")
        /\ (worker' \in {"call", "back"} <=> worker \in {"call", "back"})
    <3>1. CASE c = "close"
      BY <3>1, SendIsTyped DEF Finish, Commands
    <3>2. CASE c # "close"
      BY <1>2, <3>2 DEF Finish, IInv, Ranges
    <3>3. QED
      BY <3>1, <3>2
  <2>3. listed' \in Nat /\ state' \in {"IDLE", "PLAYING", "PAUSED", "PAUSED_FLUSHED"}
    BY <2>1 DEF stop_output_stream, disable_output_path_l, IInv, Ranges
  <2>4. FxLibrary => state' = "IDLE" /\ listed' = 0
    BY <2>1, <1>2
       DEF stop_output_stream, disable_output_path_l, IInv, Ranges, ListFollowsState,
           Stopping, Paused
  <2>5. Ranges'
    BY <2>1, <2>2, <2>3 DEF IInv, Ranges
  <2>6. ThreadLives' /\ WaitsForThread' /\ StandbyIsClosed' /\ MetadataKept'
    BY <2>1, <2>2
       DEF IInv, Ranges, ThreadLives, WaitsForThread, StandbyIsClosed, MetadataKept, Stopping
  <2>7. FxLibrary => ListFollowsState'
    BY <2>1, <2>4 DEF ListFollowsState, Stopping, Paused
  <2>8. QED
    BY <2>5, <2>6, <2>7 DEF IInv
<1>3. QED
  BY <1>1, <1>2

(* A call that stops the device at once, or waits for the thread.          *)
LEMMA StopKeeps ==
    ASSUME IInv, NEW c \in {"flush", "standby", "close"}, client = "idle", ~standby,
           c = "flush" => state = "PAUSED",
           stop_compressed_output_l(c), UNCHANGED <<blocked, cmd, devdata>>
    PROVE  IInv'
<1>1. call' = c /\ standby' = Standby(c) /\ send_new_metadata' = TRUE
  BY DEF stop_compressed_output_l
<1>2. CASE ~blocked /\ compr' = Stopped(c) /\ Finish(c)
  BY <1>1, <1>2, FinishKeeps
<1>3. CASE /\ blocked /\ compr' = "setup" /\ client' = "wait"
           /\ UNCHANGED <<state, listed, cmds, worker, awaited, mdata>>
  <2>1. standby' = IF c = "flush" THEN FALSE ELSE TRUE
    BY <1>1 DEF Standby, IInv, Ranges
  <2>2. QED
    BY <1>1, <1>3, <2>1
       DEF IInv, Ranges, ThreadLives, WaitsForThread, StandbyIsClosed, MetadataKept,
           ListFollowsState, Stopping, Paused
<1>4. QED
  BY <1>2, <1>3 DEF stop_compressed_output_l

(* The calls that stop the device.                                         *)
LEMMA StoppingCallsKeep ==
    ASSUME IInv, out_flush_offload \/ out_standby \/ adev_close_output_stream
    PROVE  IInv'
<1>1. CASE out_flush_offload
  <2>1. CASE state = "PAUSED" /\ compr # "none" /\ stop_compressed_output_l("flush")
    BY <1>1, <2>1, StopKeeps DEF out_flush_offload, IInv, StandbyIsClosed, Stopping
  <2>2. CASE /\ awaited' = {}
             /\ UNCHANGED <<client, call, stream, cmds, worker, mdata, send_new_metadata>>
    BY <1>1, <2>2
       DEF out_flush_offload, stream, IInv, Ranges, ThreadLives, WaitsForThread,
           StandbyIsClosed, MetadataKept, ListFollowsState, Stopping, Paused
  <2>3. QED
    BY <1>1, <2>1, <2>2 DEF out_flush_offload
<1>2. CASE out_standby
  BY <1>2, StopKeeps DEF out_standby
<1>3. CASE adev_close_output_stream
  <2>1. CASE ~standby /\ stop_compressed_output_l("close")
    BY <1>3, <2>1, StopKeeps DEF adev_close_output_stream
  <2>2. CASE /\ standby /\ client' = "join" /\ call' = "close" /\ awaited' = {}
             /\ send_offload_cmd_l("exit")
             /\ UNCHANGED <<stream, mdata, send_new_metadata>>
    <3>1. /\ cmds' \in Seq(Commands)
          /\ worker' \in {"none", "ready", "call", "back", "done"}
          /\ (worker' = "none" <=> worker = "none")
          /\ (worker' \in {"call", "back"} <=> worker \in {"call", "back"})
      BY <2>2, SendIsTyped DEF Commands
    <3>2. QED
      BY <1>3, <2>2, <3>1
         DEF adev_close_output_stream, stream, IInv, Ranges, ThreadLives, WaitsForThread,
             StandbyIsClosed, MetadataKept, ListFollowsState, Stopping, Paused
  <2>3. QED
    BY <1>3, <2>1, <2>2 DEF adev_close_output_stream
<1>4. QED
  BY <1>1, <1>2, <1>3

(* A signalled call looks for the thread, and goes on or waits again.      *)
LEMMA WokenKeeps ==
    ASSUME IInv, Woken
    PROVE  IInv'
<1>1. /\ client = "woken" /\ call \in {"flush", "standby", "close"} /\ send_new_metadata = TRUE
      /\ standby = Standby(call) /\ (call = "flush" => ~standby /\ state = "PAUSED")
  BY DEF Woken, IInv, Ranges, WaitsForThread, Standby, Stopping
<1>2. UNCHANGED <<call, standby, blocked, cmd, send_new_metadata, devdata>>
  BY DEF Woken
<1>3. CASE ~blocked /\ compr' = Stopped(call) /\ Finish(call)
  BY <1>1, <1>2, <1>3, FinishKeeps
<1>4. CASE /\ blocked /\ client' = "wait"
           /\ UNCHANGED <<state, compr, listed, cmds, worker, awaited, mdata>>
  BY <1>1, <1>2, <1>4
     DEF IInv, Ranges, ThreadLives, WaitsForThread, StandbyIsClosed, MetadataKept,
         ListFollowsState, Stopping, Paused
<1>5. QED
  BY <1>3, <1>4 DEF Woken

-----------------------------------------------------------------------------
(* The framework's thread and the callback thread keep the invariant.      *)
THEOREM Invariance == Spec => []IInv
<1>1. Init => IInv
  BY InitHolds
<1>2. IInv /\ [Next]_vars => IInv'
  <2> SUFFICES ASSUME IInv, [Next]_vars PROVE IInv'
    OBVIOUS
  <2>1. CASE Calls
    BY <2>1, adev_open_output_streamKeeps, out_writeKeeps, out_write_FailsKeeps,
       out_drain_offloadKeeps, out_pause_offloadKeeps, out_resume_offloadKeeps,
       parse_compress_metadataKeeps, StoppingCallsKeep DEF Calls
  <2>2. CASE Client
    BY <2>2, WokenKeeps, destroy_offload_callback_threadKeeps DEF Client
  <2>3. CASE Worker
    BY <2>3, SleepsKeeps, ExitsKeeps, DropsKeeps, TakesKeeps, DeviceReturnsKeeps, CallsBackKeeps
       DEF Worker
  <2>4. CASE UNCHANGED vars
    BY <2>4 DEF vars, stream, thread, metadata, IInv, Ranges, ThreadLives, WaitsForThread,
                StandbyIsClosed, MetadataKept, ListFollowsState, Stopping, Paused
  <2>5. QED
    BY <2>1, <2>2, <2>3, <2>4 DEF Next
<1>3. QED
  BY <1>1, <1>2, PTL DEF Spec

(* With the effect library no usecase is listed twice, and everything      *)
(* else keeps its range.                                                   *)
THEOREM TypeCorrect ==
    ASSUME FxLibrary
    PROVE  Spec => []TypeOK
<1>1. IInv => TypeOK
  <2> SUFFICES ASSUME IInv PROVE TypeOK
    OBVIOUS
  <2>1. listed \in {0, 1}
    BY DEF IInv, Ranges, ListFollowsState, Stopping
  <2>2. QED
    BY <2>1 DEF IInv, Ranges, TypeOK, Commands
<1>2. QED
  BY <1>1, Invariance, PTL

(* A thread that uses the device without the lock finds it there until it  *)
(* is back, and no thread outlives its stream.                             *)
THEOREM DeviceOutlives == Spec => []DeviceOutlivesCall
<1>1. IInv => DeviceOutlivesCall
  BY DEF IInv, ThreadLives, DeviceOutlivesCall
<1>2. QED
  BY <1>1, Invariance, PTL

(* With the effect library, the list and the device follow the play state  *)
(* between any two calls.                                                  *)
THEOREM DeviceFollows ==
    ASSUME FxLibrary
    PROVE  Spec => []DeviceFollowsState
<1>1. IInv => DeviceFollowsState
  BY DEF IInv, Ranges, StandbyIsClosed, ListFollowsState, Stopping, Paused, DeviceFollowsState
<1>2. QED
  BY <1>1, Invariance, PTL

(* No device plays with another track's metadata, but until a write.       *)
THEOREM MetadataFollows == Spec => []MetadataInForce
<1>1. IInv => MetadataInForce
  BY DEF IInv, MetadataKept, MetadataInForce
<1>2. QED
  BY <1>1, Invariance, PTL

-----------------------------------------------------------------------------
(* Nobody waits in vain: what CallsReturn and AnswersCome rest on.         *)

Queued(s, c) == \E i \in DOMAIN s : s[i] = c

(* A command that the thread has in hand, or will find, answers with a.    *)
ToAnswer(a) ==
    \/ worker \in {"call", "back"} /\ Answers[cmd] = a
    \/ \E c \in Drains \union {"wait"} : Queued(cmds, c) /\ Answers[c] = a

(* The thread does not sleep on a command.  A call that waits for it waits *)
(* while it is away, with a device that was stopped, so that it comes      *)
(* back; one that joins it has told it to end.  An answer that the         *)
(* framework waits for is being worked on, unless the device is closed.    *)
NobodyWaitsInVain ==
    /\ worker = "sleep" => cmds = <<>>
    /\ client = "wait" => worker \in {"call", "back"}
    /\ client \in Stopping => compr = "setup"
    /\ client = "join" => worker = "done" \/ (worker = "ready" /\ Queued(cmds, "exit"))
    /\ \A a \in awaited : compr = "none" \/ ToAnswer(a)

(* The exit command comes with the close, and the thread ends with it.     *)
ExitsOnce ==
    /\ Queued(cmds, "exit") => client = "join"
    /\ worker = "done" => client = "join" /\ cmds = <<>>

Wakers == NobodyWaitsInVain /\ ExitsOnce

(* Sending puts a command in the list and wakes the thread.                *)
LEMMA SendWakes ==
    ASSUME IInv, NEW c \in Commands, send_offload_cmd_l(c)
    PROVE  /\ Queued(cmds', c)
           /\ \A d : Queued(cmds, d) => Queued(cmds', d)
           /\ \A d : Queued(cmds', d) => d = c \/ Queued(cmds, d)
           /\ worker' = IF worker = "sleep" THEN "ready" ELSE worker
<1>1. cmds' = Append(cmds, c) /\ cmds \in Seq(Commands)
  BY DEF send_offload_cmd_l, IInv, Ranges
<1>2. /\ DOMAIN cmds = 1..Len(cmds) /\ DOMAIN cmds' = 1..(Len(cmds) + 1) /\ Len(cmds) \in Nat
      /\ cmds'[Len(cmds) + 1] = c /\ \A i \in 1..Len(cmds) : cmds'[i] = cmds[i]
  BY <1>1, AppendProperties, LenProperties
<1>3. Queued(cmds', c)
  BY <1>2 DEF Queued
<1>4. \A d : Queued(cmds, d) => Queued(cmds', d)
  BY <1>2 DEF Queued
<1>5. \A d : Queued(cmds', d) => d = c \/ Queued(cmds, d)
  BY <1>2 DEF Queued
<1>6. QED
  BY <1>3, <1>4, <1>5 DEF send_offload_cmd_l

(* The thread takes the first command and no other.                        *)
LEMMA TailLeaves ==
    ASSUME IInv, cmds # <<>>
    PROVE  /\ Queued(cmds, Head(cmds))
           /\ \A d : Queued(cmds, d) => d = Head(cmds) \/ Queued(Tail(cmds), d)
           /\ \A d : Queued(Tail(cmds), d) => Queued(cmds, d)
<1>1. cmds \in Seq(Commands) /\ Len(cmds) \in Nat \ {0} /\ DOMAIN cmds = 1..Len(cmds)
  BY LenProperties, EmptySeq DEF IInv, Ranges
<1>2. /\ Head(cmds) = cmds[1] /\ DOMAIN Tail(cmds) = 1..(Len(cmds) - 1)
      /\ \A i \in 1..(Len(cmds) - 1) : Tail(cmds)[i] = cmds[i + 1]
  BY <1>1, HeadTailProperties, LenProperties
<1>3. Queued(cmds, Head(cmds))
  BY <1>1, <1>2 DEF Queued
<1>4. ASSUME NEW d, Queued(cmds, d), d # Head(cmds) PROVE Queued(Tail(cmds), d)
  <2>1. PICK i \in 1..Len(cmds) : cmds[i] = d
    BY <1>1, <1>4 DEF Queued
  <2>2. i - 1 \in 1..(Len(cmds) - 1) /\ Tail(cmds)[i - 1] = cmds[(i - 1) + 1] /\ (i - 1) + 1 = i
    BY <1>1, <1>2, <1>4, <2>1
  <2>3. QED
    BY <1>2, <2>1, <2>2 DEF Queued
<1>5. ASSUME NEW d, Queued(Tail(cmds), d) PROVE Queued(cmds, d)
  <2>1. PICK i \in 1..(Len(cmds) - 1) : Tail(cmds)[i] = d
    BY <1>2, <1>5 DEF Queued
  <2>2. i + 1 \in 1..Len(cmds) /\ cmds[i + 1] = d
    BY <1>1, <1>2, <2>1
  <2>3. QED
    BY <1>1, <2>2 DEF Queued
<1>6. QED
  BY <1>3, <1>4, <1>5

(* A step that leaves the list, the thread and the answers alone, and      *)
(* neither begins a wait nor opens or closes the device, leaves the rest.  *)
LEMMA SameWakers ==
    ASSUME Wakers, UNCHANGED <<client, cmds, worker, cmd, awaited>>,
           client \notin {"idle", "closed"} => compr' = compr,
           compr' = "none" \/ compr # "none"
    PROVE  Wakers'
BY DEF Wakers, NobodyWaitsInVain, ExitsOnce, ToAnswer, Stopping

(* A command the framework sends is one the thread will see.               *)
LEMMA SendKeepsWakers ==
    ASSUME IInv, Wakers, client = "idle", UNCHANGED <<client, cmd>>,
           NEW c \in Drains \union {"wait"}, send_offload_cmd_l(c), awaited' = {Answers[c]}
    PROVE  Wakers'
<1>1. /\ Queued(cmds', c) /\ \A d : Queued(cmds', d) => d = c \/ Queued(cmds, d)
      /\ worker' = IF worker = "sleep" THEN "ready" ELSE worker
  BY SendWakes DEF Commands
<1>2. worker \notin {"none", "done"} /\ c # "exit"
  BY DEF Wakers, ExitsOnce, IInv, ThreadLives, Drains
<1>3. ExitsOnce'
  BY <1>1, <1>2 DEF Wakers, ExitsOnce, Stopping
<1>4. NobodyWaitsInVain'
  BY <1>1, <1>2 DEF NobodyWaitsInVain, ToAnswer, Stopping
<1>5. QED
  BY <1>3, <1>4 DEF Wakers

(* A call that has stopped the device ends, or tells the thread to.        *)
LEMMA FinishKeepsWakers ==
    ASSUME IInv, Wakers, client \in {"idle", "woken"}, ~blocked,
           NEW c \in {"flush", "standby", "close"}, c # "flush" => compr' = "none",
           Finish(c), UNCHANGED cmd
    PROVE  Wakers'
<1>1. awaited' = {} /\ worker \in {"sleep", "ready"} /\ ~Queued(cmds, "exit")
  BY DEF Finish, IInv, Ranges, ThreadLives, Wakers, ExitsOnce, Stopping
<1>2. CASE client' = "idle" /\ UNCHANGED <<cmds, worker>>
  BY <1>1, <1>2 DEF Wakers, NobodyWaitsInVain, ExitsOnce, Stopping
<1>3. CASE client' = "join" /\ send_offload_cmd_l("exit")
  <2>1. Queued(cmds', "exit") /\ worker' = "ready"
    BY <1>1, <1>3, SendWakes DEF Commands
  <2>2. QED
    BY <1>1, <1>3, <2>1 DEF Wakers, NobodyWaitsInVain, ExitsOnce, Stopping
<1>4. QED
  BY <1>2, <1>3 DEF Finish

(* A call that stops the device waits only for a thread that is away.      *)
LEMMA StopKeepsWakers ==
    ASSUME IInv, Wakers, client = "idle", NEW c \in {"flush", "standby", "close"},
           stop_compressed_output_l(c), UNCHANGED <<blocked, cmd, devdata>>
    PROVE  Wakers'
<1>1. CASE ~blocked /\ compr' = Stopped(c) /\ Finish(c)
  BY <1>1, FinishKeepsWakers DEF Stopped
<1>2. CASE /\ blocked /\ compr' = "setup" /\ client' = "wait"
           /\ UNCHANGED <<state, listed, cmds, worker, awaited, mdata>>
  <2>1. worker \in {"call", "back"} /\ compr # "none"
    BY <1>2 DEF IInv, ThreadLives
  <2>2. QED
    BY <1>2, <2>1 DEF Wakers, NobodyWaitsInVain, ExitsOnce, ToAnswer, Stopping
<1>3. QED
  BY <1>1, <1>2 DEF stop_compressed_output_l

(* The framework's calls.                                                  *)
LEMMA CallsKeepWakers ==
    ASSUME IInv, Wakers, Calls
    PROVE  Wakers'
<1>1. CASE adev_open_output_stream
  <2>1. ~Queued(cmds', "exit")
    BY <1>1, EmptySeq DEF adev_open_output_stream, Queued
  <2>2. QED
    BY <1>1, <2>1 DEF adev_open_output_stream, Wakers, NobodyWaitsInVain, ExitsOnce, Stopping
<1>2. CASE out_write
  <2>1. CASE UNCHANGED <<cmds, worker, awaited>>
    <3>1. awaited = {} /\ client = "idle" /\ UNCHANGED <<client, cmd>>
      BY <1>2 DEF out_write
    <3>2. QED
      BY <2>1, <3>1 DEF Wakers, NobodyWaitsInVain, ExitsOnce, Stopping
  <2>2. CASE send_offload_cmd_l("wait") /\ awaited' = {"write"}
    BY <1>2, <2>2, SendKeepsWakers DEF out_write, Answers
  <2>3. QED
    BY <1>2, <2>1, <2>2 DEF out_write
<1>3. CASE out_drain_offload
  <2>1. PICK c \in Drains : send_offload_cmd_l(c)
    BY <1>3 DEF out_drain_offload
  <2>2. Answers[c] = "drain"
    BY DEF Answers, Drains
  <2>3. QED
    BY <1>3, <2>1, <2>2, SendKeepsWakers DEF out_drain_offload
<1>4. CASE out_write_Fails
  BY <1>4, SameWakers DEF out_write_Fails, thread
<1>5. CASE out_pause_offload \/ out_resume_offload \/ parse_compress_metadata
  BY <1>5, SameWakers
     DEF out_pause_offload, out_resume_offload, parse_compress_metadata, thread, stream
<1>6. CASE out_flush_offload
  <2>1. CASE stop_compressed_output_l("flush")
    BY <1>6, <2>1, StopKeepsWakers DEF out_flush_offload
  <2>2. CASE awaited' = {} /\ UNCHANGED <<client, call, stream, cmds, worker>>
    BY <1>6, <2>2
       DEF out_flush_offload, stream, Wakers, NobodyWaitsInVain, ExitsOnce, Stopping
  <2>3. QED
    BY <1>6, <2>1, <2>2 DEF out_flush_offload
<1>7. CASE out_standby
  BY <1>7, StopKeepsWakers DEF out_standby
<1>8. CASE adev_close_output_stream
  <2>1. CASE stop_compressed_output_l("close")
    BY <1>8, <2>1, StopKeepsWakers DEF adev_close_output_stream
  <2>2. CASE standby /\ client' = "join" /\ awaited' = {} /\ send_offload_cmd_l("exit")
    <3>1. client = "idle" /\ worker \in {"sleep", "ready"}
      BY <1>8, <2>2
         DEF adev_close_output_stream, IInv, Ranges, ThreadLives, StandbyIsClosed, Stopping,
             Wakers, ExitsOnce, Stopping
    <3>2. Queued(cmds', "exit") /\ worker' = "ready"
      BY <2>2, <3>1, SendWakes DEF Commands
    <3>3. QED
      BY <2>2, <3>2 DEF Wakers, NobodyWaitsInVain, ExitsOnce, Stopping
  <2>3. QED
    BY <1>8, <2>1, <2>2 DEF adev_close_output_stream
<1>9. QED
  BY <1>1, <1>2, <1>3, <1>4, <1>5, <1>6, <1>7, <1>8 DEF Calls

(* A call that waits looks again, and a closed stream loses its thread.    *)
LEMMA ClientKeepsWakers ==
    ASSUME IInv, Wakers, Client
    PROVE  Wakers'
<1>1. CASE Woken
  <2>1. CASE /\ blocked /\ client' = "wait"
             /\ UNCHANGED <<state, compr, listed, cmds, worker, awaited, mdata>>
    <3>1. worker \in {"call", "back"} /\ client = "woken" /\ cmd' = cmd
      BY <1>1, <2>1 DEF Woken, IInv, ThreadLives
    <3>2. compr = "setup"
      BY <3>1 DEF Wakers, NobodyWaitsInVain, Stopping
    <3>3. QED
      BY <2>1, <3>1, <3>2 DEF Wakers, NobodyWaitsInVain, ExitsOnce, ToAnswer, Stopping
  <2>2. CASE ~blocked /\ compr' = Stopped(call) /\ Finish(call)
    BY <1>1, <2>2, FinishKeepsWakers DEF Woken, Stopped, IInv, WaitsForThread, Ranges, Stopping
  <2>3. QED
    BY <1>1, <2>1, <2>2 DEF Woken
<1>2. CASE destroy_offload_callback_thread
  <2>1. /\ client' = "closed" /\ worker' = "none" /\ worker = "done" /\ client = "join"
        /\ UNCHANGED <<compr, cmds, cmd, awaited>>
    BY <1>2 DEF destroy_offload_callback_thread, stream
  <2>2. ~Queued(cmds, "exit")
    BY <2>1, EmptySeq DEF Wakers, ExitsOnce, Queued
  <2>3. compr = "none"
    BY <2>1 DEF IInv, StandbyIsClosed, Stopping
  <2>4. QED
    BY <2>1, <2>2, <2>3 DEF Wakers, NobodyWaitsInVain, ExitsOnce, Stopping
<1>3. QED
  BY <1>1, <1>2 DEF Client

(* The callback thread.                                                    *)
LEMMA WorkerKeepsWakers ==
    ASSUME IInv, Wakers, Worker
    PROVE  Wakers'
<1> DEFINE h == Head(cmds)
<1>1. CASE Sleeps
  <2>1. /\ worker = "ready" /\ cmds = <<>> /\ worker' = "sleep"
        /\ UNCHANGED <<client, compr, cmds, cmd, awaited>>
    BY <1>1 DEF Sleeps, stream
  <2>2. ~Queued(cmds, "exit")
    BY <2>1, EmptySeq DEF Queued
  <2>3. QED
    BY <2>1, <2>2 DEF Wakers, NobodyWaitsInVain, ExitsOnce, ToAnswer, Stopping
<1>2. CASE Exits
  <2>1. Queued(cmds, "exit") /\ worker' = "done" /\ cmds' = <<>> /\ UNCHANGED <<compr, awaited>>
    BY <1>2, TailLeaves DEF Exits, stream
  <2>2. client = "join" /\ client' = "join"
    BY <1>2, <2>1 DEF Exits, Signalled, Wakers, ExitsOnce
  <2>3. compr = "none" /\ ~Queued(cmds', "exit")
    BY <2>1, <2>2, EmptySeq DEF IInv, StandbyIsClosed, Stopping, Queued
  <2>4. QED
    BY <2>1, <2>2, <2>3 DEF Wakers, NobodyWaitsInVain, ExitsOnce, Stopping
<1>3. CASE Drops
  <2>1. /\ worker = "ready" /\ worker' = "ready" /\ compr = "none" /\ h # "exit" /\ cmds # <<>>
        /\ cmds' = Tail(cmds) /\ UNCHANGED <<compr, awaited>>
    BY <1>3 DEF Drops, stream, thread
  <2>2. client \notin Stopping /\ client' = client
    BY <1>3, <2>1 DEF Drops, Signalled, IInv, WaitsForThread, Stopping
  <2>3. Queued(cmds', "exit") <=> Queued(cmds, "exit")
    BY <2>1, TailLeaves
  <2>4. QED
    BY <2>1, <2>2, <2>3 DEF Wakers, NobodyWaitsInVain, ExitsOnce, Stopping
<1>4. CASE Takes
  <2>1. /\ worker = "ready" /\ worker' = "call" /\ compr # "none" /\ h # "exit" /\ cmds # <<>>
        /\ cmds' = Tail(cmds) /\ cmd' = h /\ UNCHANGED <<client, compr, awaited>>
    BY <1>4 DEF Takes, stream
  <2>2. client # "join"
    BY <2>1 DEF IInv, StandbyIsClosed, Stopping
  <2>3. \A d : Queued(cmds, d) <=> d = h \/ Queued(cmds', d)
    BY <2>1, TailLeaves
  <2>4. NobodyWaitsInVain'
    <3>1. \A a \in awaited : ToAnswer(a)'
      BY <2>1, <2>3 DEF Wakers, NobodyWaitsInVain, ToAnswer
    <3>2. QED
      BY <2>1, <2>2, <3>1 DEF Wakers, NobodyWaitsInVain, Stopping
  <2>5. ExitsOnce'
    BY <2>1, <2>2, <2>3 DEF Wakers, ExitsOnce
  <2>6. QED
    BY <2>4, <2>5 DEF Wakers
<1>5. CASE DeviceReturns
  BY <1>5 DEF DeviceReturns, stream, Wakers, NobodyWaitsInVain, ExitsOnce, ToAnswer, Stopping
<1>6. CASE CallsBack
  <2>1. /\ worker = "back" /\ worker' = "ready" /\ awaited' = awaited \ {Answers[cmd]}
        /\ UNCHANGED <<compr, cmds, cmd>>
        /\ client' = IF client = "wait" THEN "woken" ELSE client
    BY <1>6 DEF CallsBack, Signalled, stream
  <2>2. client # "join"
    BY <2>1 DEF Wakers, NobodyWaitsInVain
  <2>3. \A a \in awaited' : compr' = "none" \/ ToAnswer(a)'
    BY <2>1 DEF Wakers, NobodyWaitsInVain, ToAnswer
  <2>4. QED
    BY <2>1, <2>2, <2>3 DEF Wakers, NobodyWaitsInVain, ExitsOnce, Stopping
<1>7. QED
  BY <1>1, <1>2, <1>3, <1>4, <1>5, <1>6 DEF Worker

(* No wake-up is lost, however the framework's calls and the steps of      *)
(* offload_thread_loop interleave, with any number of commands in the      *)
(* list: a thread that sleeps has no command, and what a call waits for    *)
(* (stop_compressed_output_l, destroy_offload_callback_thread) and what    *)
(* the framework was promised is still to come.                            *)
THEOREM WakersThere == Spec => []NobodyWaitsInVain
<1>1. Init => Wakers
  <2>1. ASSUME Init PROVE ~Queued(cmds, "exit")
    BY <2>1, EmptySeq DEF Init, Queued
  <2>2. QED
    BY <2>1 DEF Init, Wakers, NobodyWaitsInVain, ExitsOnce, Stopping
<1>2. IInv /\ Wakers /\ [Next]_vars => Wakers'
  <2>1. CASE UNCHANGED vars
    BY <2>1 DEF vars, stream, thread, metadata, Wakers, NobodyWaitsInVain, ExitsOnce, ToAnswer,
                Stopping
  <2>2. QED
    BY <2>1, CallsKeepWakers, ClientKeepsWakers, WorkerKeepsWakers DEF Next
<1>3. Wakers => NobodyWaitsInVain
  BY DEF Wakers
<1>4. QED
  BY <1>1, <1>2, <1>3, Invariance, PTL DEF Spec
=============================================================================

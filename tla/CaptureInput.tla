---------------------------- MODULE CaptureInput ----------------------------
(***************************************************************************)
(* The capture stream of audio_hw.c: the table of its effects, the         *)
(* auxiliary channels they agree on, and the buffers between the PCM, the  *)
(* effects and the client.                                                 *)
(*                                                                         *)
(* Every operation holds in->lock from end to end and is one step.  A      *)
(* buffer is the number of frames it has room for, none for no buffer.     *)
(***************************************************************************)
EXTENDS Naturals, Sequences

CONSTANTS
    Mains,     \* main channels an input is opened with: FRONT, STEREO
    Resampled, \* whether the input asks for another rate than the PCM's
    Supports,  \* the auxiliary channels each effect works with
    Frames     \* frames that the client reads at a time

VARIABLES
    standby,   \* in->standby
    aec,       \* in->enable_aec
    attached,  \* the effects the framework has attached
    table,     \* in->num_preprocessors, and in->preprocessors with a place
               \* past its end
    channel,   \* main_channels, aux_channels, aux_channels_changed, devices,
               \* config.channels, channels of the resampler
    buf        \* in->read_buf with its size and the frames left in it, proc_buf_in,
               \* proc_buf_out and ref_buf
vars == <<standby, aec, attached, table, channel, buf>>

Effects == DOMAIN Supports
None    == 0
Null    == [effect |-> "none", configs |-> {}]

MAX_PREPROCESSORS == 3
Slots   == 1..(MAX_PREPROCESSORS + 1)

(* The HW captures two channels. *)
PcmChannels       == 2
Channels(main, x) == IF main = "FRONT" /\ x = "none" THEN 1 ELSE 2

NoBuffers == [read |-> None, read_size |-> 0, left |-> 0, in |-> None, out |-> None,
              size |-> 0, frames |-> 0, ref |-> 0, ref_frames |-> 0]

-----------------------------------------------------------------------------
(* MUTANT: one effect that supports the channels is enough. *)
in_get_aux_channels_Any(t, c) ==
    LET x == IF c.main = "FRONT" THEN "BACK" ELSE "RIGHT"
    IN  IF c.device = "MIC" /\ \E i \in 1..t.num : x \in t.slot[i].configs
        THEN x ELSE "none"

(* in_aux_cnl_configs has one configuration for each main channel mask. *)
in_get_aux_channels(t, c) ==
    LET x == IF c.main = "FRONT" THEN "BACK" ELSE "RIGHT"
    IN  IF /\ c.device = "MIC" /\ t.num > 0
           /\ \A i \in 1..t.num : x \in t.slot[i].configs
        THEN x ELSE "none"

(* in_update_aux_channels, when the effects accept their configuration and *)
(* when one does not.  Effects are told only of a change or of channels.   *)
in_update_aux_channels(t, c, accepted) ==
    LET x == in_get_aux_channels(t, c)
    IN  IF accepted \/ (x = c.aux /\ x = "none") THEN x ELSE "none"

(* MUTANT: the sizes of the buffers outlive a restart. *)
Start_KeepsSize(opens) ==
    /\ standby
    /\ LET n == IF channel.changed THEN Channels(channel.main, channel.aux) ELSE PcmChannels
       IN  channel' = [channel EXCEPT !.config = n,
                                      !.resampler = IF ~opens THEN None
                                                    ELSE IF channel.changed \/ Resampled THEN n
                                                    ELSE @]
    /\ buf' = IF opens THEN [buf EXCEPT !.frames = 0] ELSE buf
    /\ standby' = ~opens
    /\ UNCHANGED <<aec, attached, table>>

(* start_input_stream: the resampler is made anew for a changed            *)
(* configuration, and dropped with a PCM that does not open.               *)
Start(opens) ==
    /\ standby
    /\ LET n == IF channel.changed THEN Channels(channel.main, channel.aux) ELSE PcmChannels
       IN  channel' = [channel EXCEPT !.config = n,
                                      !.resampler = IF ~opens THEN None
                                                    ELSE IF channel.changed \/ Resampled THEN n
                                                    ELSE @]
    /\ buf' = IF opens THEN [buf EXCEPT !.size = 0, !.frames = 0,
                                    !.read_size = 0, !.left = 0] ELSE buf
    /\ standby' = ~opens
    /\ UNCHANGED <<aec, attached, table>>

(* do_in_standby_l *)
FreeRead(b) == IF standby THEN b ELSE [b EXCEPT !.read = None]

Standby ==
    /\ ~standby /\ standby' = TRUE
    /\ buf' = FreeRead(buf)
    /\ UNCHANGED <<aec, attached, table, channel>>

(* in_set_parameters, to another microphone of the same PCM. *)
SetDevice(d) ==
    /\ channel.device # d
    /\ channel' = [channel EXCEPT !.device = d]
    /\ UNCHANGED <<standby, aec, attached, table, buf>>

-----------------------------------------------------------------------------
(* add_remove_audio_effect.  An effect that does not answer which channels *)
(* it supports counts as one that supports none.                           *)
AddEffect(e) ==
    /\ e \notin attached /\ table.num <= MAX_PREPROCESSORS
    /\ \E accepted \in BOOLEAN :
          LET n == table.num + 1
              t == [num |-> n,
                    slot |-> [table.slot EXCEPT ![n] = [effect |-> e, configs |-> Supports[e]]]]
              x == in_update_aux_channels(t, channel, accepted)
              stops == x # channel.aux \/ e = "AEC"
          IN  /\ table' = t
              /\ channel' = [channel EXCEPT !.aux = x, !.changed = TRUE]
              /\ standby' = (standby \/ stops)
              /\ buf' = IF stops THEN FreeRead(buf) ELSE buf
    /\ attached' = attached \union {e}
    /\ aec' = (aec \/ e = "AEC")

(* MUTANT: the last place keeps what was moved out of it. *)
Removed_KeepsLast(t, e) ==
    LET k == CHOOSE i \in 1..t.num : t.slot[i].effect = e
    IN  [num |-> t.num - 1,
         slot |-> [i \in Slots |-> IF i < k \/ i >= t.num THEN t.slot[i] ELSE t.slot[i + 1]]]

(* The later effects move down, and the last place is cleared. *)
Removed(t, e) ==
    LET k == CHOOSE i \in 1..t.num : t.slot[i].effect = e
    IN  [num |-> t.num - 1,
         slot |-> [i \in Slots |-> IF i < k THEN t.slot[i]
                                   ELSE IF i >= t.num THEN Null ELSE t.slot[i + 1]]]

RemoveEffect(e) ==
    /\ e \in attached
    /\ table' = Removed(table, e)
    /\ attached' = attached \ {e}
    /\ channel' = [channel EXCEPT !.changed = FALSE]
    /\ aec' = (aec /\ e # "AEC")
    /\ standby' = (standby \/ e = "AEC")
    /\ buf' = IF e = "AEC" THEN FreeRead(buf) ELSE buf

-----------------------------------------------------------------------------
(* in_read of a running input: read_and_process_frames.                    *)

Additional == channel.config # Channels(channel.main, "none")
Processing == table.num > 0

(* push_echo_reference, for so many frames at the effects' input: the      *)
(* buffer grows, the reference fills it, and the effects use some of it.   *)
PushReference(b, n) ==
    LET grown == [b EXCEPT !.ref = IF b.ref_frames < n /\ b.ref < n THEN n ELSE @]
    IN  {[grown EXCEPT !.ref_frames = k] :
            k \in {l \in 0..Frames : \E filled \in {b.ref_frames, n} : l \in filled - n..filled}}

(* The buffers of the effects, grown where the size is too small. *)
Grown(b) ==
    IF Processing
    THEN IF b.frames < Frames /\ b.size < Frames
         THEN [b EXCEPT !.size = Frames, !.in = Frames, !.out = IF Additional THEN Frames ELSE @]
         ELSE b
    ELSE IF Additional /\ b.size < Frames THEN [b EXCEPT !.size = Frames, !.out = Frames]
    ELSE b

(* The buffer between the PCM and the resampler, freed in standby; it is   *)
(* not made or filled while frames are left in it.                         *)
get_next_buffer(b) ==
    IF b.left = 0 /\ b.read_size < Frames
    THEN [b EXCEPT !.read_size = Frames, !.read = Frames] ELSE b

(* The resampler takes any number of the last period's frames; none are    *)
(* left when the PCM fails.                                                *)
read_frames(b) == {[get_next_buffer(b) EXCEPT !.left = left] : left \in 0..Frames}

(* Frames the effects have not consumed stay at their input. *)
Processed(b, reference) ==
    IF ~Processing THEN {b}
    ELSE {[p EXCEPT !.frames = left] :
             p \in IF reference THEN PushReference(b, Frames) ELSE {b}, left \in 0..Frames}

(* A read that fails ends before the effects see anything of it. *)
Read(reference) ==
    /\ ~standby
    /\ \E b \in IF Processing /\ buf.frames = Frames THEN {buf} ELSE read_frames(Grown(buf)) :
          buf' \in {b} \union Processed(b, reference)
    /\ UNCHANGED <<standby, aec, attached, table, channel>>

(* adev_open_input_stream *)
NewChannel(main) == [main |-> main, aux |-> "none", changed |-> FALSE, device |-> "MIC",
                     config |-> PcmChannels, resampler |-> None]
NewTable         == [num |-> 0, slot |-> [i \in Slots |-> Null]]

(* adev_close_input_stream, and another input is opened. *)
Close ==
    /\ \E main \in Mains : channel' = NewChannel(main)
    /\ attached' = {} /\ table' = NewTable /\ buf' = NoBuffers
    /\ standby' = TRUE /\ aec' = FALSE

Init ==
    /\ \E main \in Mains : channel = NewChannel(main)
    /\ attached = {} /\ table = NewTable /\ buf = NoBuffers
    /\ standby = TRUE /\ aec = FALSE

-----------------------------------------------------------------------------
(* Every variable in its range. *)
TypeOK ==
    /\ standby \in BOOLEAN /\ aec \in BOOLEAN /\ attached \subseteq Effects
    /\ table.num \in 0..(MAX_PREPROCESSORS + 1) /\ DOMAIN table.slot = Slots
    /\ channel \in [main : Mains, aux : {"none", "BACK", "RIGHT"}, changed : BOOLEAN,
                    device : {"MIC", "HEADSET"}, config : {1, 2}, resampler : {None, 1, 2}]
    /\ buf \in [read : {None, Frames}, read_size : 0..Frames, left : 0..Frames, in : {None, Frames},
                out : {None, Frames}, size : 0..Frames, frames : 0..Frames,
                ref : 0..Frames, ref_frames : 0..Frames]

(* The table holds the attached effects, each in one place, and what       *)
(* in_read_audio_effect_channel_configs asserts of the next place holds of *)
(* every free one: it is cleared.  So no list of configurations is freed   *)
(* twice or lost, in whatever order effects come and go.                   *)
TableHoldsAttached ==
    /\ {table.slot[i].effect : i \in 1..table.num} = attached
    /\ \A i, j \in 1..table.num : i # j => table.slot[i].effect # table.slot[j].effect
    /\ \A i \in (table.num + 1)..(MAX_PREPROCESSORS + 1) : table.slot[i] = Null

(* "supported by audio driver and all pre processors" (in_get_aux_channels)*)
(* holds of the auxiliary channels in use after effects were added, moved  *)
(* and removed, and after one refused its configuration.                   *)
AuxIsSupported ==
    channel.aux # "none" => \A i \in 1..table.num : channel.aux \in table.slot[i].configs

(* A size that counts as large enough belongs to the buffers that the next *)
(* read uses, over restarts that change the number of channels and effects *)
(* that come and go while the input runs; frames left over from the PCM    *)
(* are in a buffer that is still there; and the reference waiting for the  *)
(* effects fits its buffer.                                                *)
BuffersServe ==
    /\ ~standby /\ (buf.read_size >= Frames \/ buf.left > 0) => buf.read = Frames
    /\ ~standby /\ buf.size >= Frames =>
          /\ Additional => buf.out = Frames
          /\ Processing /\ ~Additional => buf.in = Frames
    /\ buf.ref_frames <= buf.ref

(* read_and_process_frames asserts that proc_buf_in is there when frames   *)
(* are read into it.                                                       *)
(* False: a mono input without effects has sized the buffers but made only *)
(* proc_buf_out, and an effect without auxiliary channels is then added.   *)
ProcBufInServes == ~standby /\ Processing /\ buf.size >= Frames => buf.in = Frames
=============================================================================

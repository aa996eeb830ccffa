---------------------------- MODULE CaptureProofs ----------------------------
(***************************************************************************)
(* What capture guarantees with any effects, main channels and period, and *)
(* for any number of references, with the primary output as the only PCM   *)
(* output that plays: with a second one HeldIsAlive is false.  No          *)
(* reference is used after its release, and none is lost.                  *)
(***************************************************************************)
EXTENDS Capture, TLAPS

-----------------------------------------------------------------------------
(* The echo reference. *)

EchoTyped ==
    /\ generation \in Nat /\ alive \subseteq 1 .. generation
    /\ current \in alive \union {0}
    /\ input \in [standby : BOOLEAN, aec : BOOLEAN, ref : Nat]
    /\ out \in [Outputs -> [standby : BOOLEAN, generation : 0 .. generation,
                            ref : 0 .. generation, at : {"out", "update", "feed"}]]

(* The input holds the device's reference or none.  An output that has     *)
(* missed a generation does not hold the device's: it may release its own. *)
Shared ==
    /\ input.ref \in {0, current}
    /\ Primary \notin LowLatency => current = 0
    /\ \A o \in Outputs :
          /\ out[o].standby => out[o].ref = 0
          /\ out[o].generation # generation => out[o].ref = 0 \/ out[o].ref # current
          /\ out[o].at = "update" => out[o].generation # generation

(* A playing output that has missed a generation, and will notice.         *)
Stale(o) == ~out[o].standby /\ out[o].generation # generation

(* What the device gave up and nobody released yet is such an output's.    *)
LeftIsHeld ==
    \A r \in alive : r = current \/ \E o \in Outputs : Stale(o) /\ out[o].ref = r

(* An output that has missed nothing holds the device's reference.         *)
UpToDate ==
    \A o \in Outputs : ~out[o].standby /\ ~Stale(o) => out[o].ref = current

EchoInv == EchoTyped /\ Shared /\ HeldIsAlive /\ UpToDate /\ LeftIsHeld

(* What the capture side may make of the reference, whatever the outputs   *)
(* hold.                                                                   *)
Fine(r) ==
    /\ r.generation \in Nat /\ r.alive \subseteq 1 .. r.generation
    /\ r.current \in r.alive \union {0}
    /\ Primary \notin LowLatency => r.current = 0
    /\ \A o \in Outputs : out[o].ref \in r.alive \union {0}
    /\ \/ r.generation = generation /\ r.current = current
       \/ /\ r.generation > generation
          /\ \A o \in Outputs : out[o].ref = 0 \/ out[o].ref # r.current
    /\ \A ref \in r.alive :
          \/ ref = r.current
          \/ \E o \in Outputs : /\ ~out[o].standby /\ out[o].generation # r.generation
                               /\ out[o].ref = ref

(* Nothing done is fine.                                                   *)
LEMMA RefsFine == EchoInv => Fine(Echo!Refs)
BY DEF EchoInv, EchoTyped, Shared, HeldIsAlive, LeftIsHeld, Stale, Echo!HeldIsAlive, Echo!None,
   Echo!Refs, Fine

(* put_echo_reference releases the reference unless the primary output     *)
(* holds it, and then leaves it to that output.                            *)
LEMMA PutFine ==
    ASSUME EchoInv, Outputs = {Primary}, NEW ref \in {0, current}
    PROVE  Fine(Echo!put_echo_reference(Echo!Refs, ref))
<1> DEFINE r    == Echo!put_echo_reference(Echo!Refs, ref)
           kept == /\ Primary \in LowLatency
                   /\ out[Primary].generation = generation /\ ~out[Primary].standby
<1> SUFFICES Fine(r)
  OBVIOUS
<1>1. CASE current = 0 \/ ref # current
  <2>1. r = Echo!Refs
    BY <1>1 DEF Echo!put_echo_reference, Echo!Refs, Echo!None
  <2>2. QED
    BY <2>1, RefsFine
<1>2. CASE current # 0 /\ ref = current /\ kept
  <2>1. r = [generation |-> generation + 1, current |-> 0, alive |-> alive]
    BY <1>2 DEF Echo!put_echo_reference, Echo!Refs, Echo!None
  <2> HIDE DEF r
  <2>2. /\ out[Primary].ref = current /\ ~out[Primary].standby
        /\ out[Primary].generation # generation + 1
    BY <1>2 DEF EchoInv, EchoTyped, UpToDate, Stale
  <2>3. alive = {current}
    BY <1>2 DEF EchoInv, EchoTyped, LeftIsHeld, Stale
  <2>4. QED
    BY <1>2, <2>1, <2>2, <2>3 DEF EchoInv, EchoTyped, HeldIsAlive, Echo!HeldIsAlive, Echo!None, Fine
<1>3. CASE current # 0 /\ ref = current /\ ~kept
  <2>1. r = [generation |-> generation + 1, current |-> 0, alive |-> alive \ {current}]
    BY <1>3 DEF Echo!put_echo_reference, Echo!Release, Echo!Refs, Echo!None
  <2>2. out[Primary].ref = 0 \/ out[Primary].ref # current
    BY <1>3 DEF EchoInv, EchoTyped, Shared
  <2> HIDE DEF r
  <2>3. \A left \in r.alive : /\ out[Primary].ref = left /\ ~out[Primary].standby
                              /\ out[Primary].generation # r.generation
    BY <1>3, <2>1 DEF EchoInv, EchoTyped, LeftIsHeld, Stale
  <2>4. QED
    BY <1>3, <2>1, <2>2, <2>3 DEF EchoInv, EchoTyped, HeldIsAlive, Echo!HeldIsAlive, Echo!None, Fine
<1>4. QED
  BY <1>1, <1>2, <1>3

(* A reference that is made replaces the one there was.                    *)
LEMMA GetFine ==
    ASSUME EchoInv, Outputs = {Primary}, NEW made \in BOOLEAN
    PROVE  Fine(Echo!get_echo_reference(Echo!Refs, made))
<1> DEFINE r   == Echo!get_echo_reference(Echo!Refs, made)
           old == Echo!put_echo_reference(Echo!Refs, current)
           g   == old.generation + 1
<1> SUFFICES Fine(r)
  OBVIOUS
<1>1. Fine(old)
  BY PutFine
<1>2. CASE Primary \in LowLatency /\ ~out[Primary].standby /\ made
  <2>1. r = [generation |-> g, current |-> g, alive |-> old.alive \union {g}]
    BY <1>2 DEF Echo!get_echo_reference, Echo!Refs
  <2>2. old.current = 0
    BY DEF Echo!put_echo_reference, Echo!Release, Echo!Refs, Echo!None
  <2> HIDE DEF r, old
  <2>3. g \in Nat /\ g > generation
    BY <1>1 DEF Fine, EchoInv, EchoTyped
  <2>4. \A o \in Outputs : out[o].ref # g /\ out[o].generation # g
    BY <2>3 DEF EchoInv, EchoTyped
  <2>5. \A ref \in old.alive : \E o \in Outputs : ~out[o].standby /\ out[o].ref = ref
    BY <1>1, <2>2 DEF Fine
  <2>6. QED
    BY <1>1, <1>2, <2>1, <2>3, <2>4, <2>5 DEF Fine
<1>3. CASE ~(Primary \in LowLatency /\ ~out[Primary].standby /\ made)
  <2>1. r = old
    BY <1>3 DEF Echo!get_echo_reference, Echo!Refs
  <2>2. QED
    BY <1>1, <2>1
<1>4. QED
  BY <1>2, <1>3

(* An operation of the capture side, with what it may make of the          *)
(* reference.                                                              *)
LEMMA CaptureKeeps ==
    ASSUME EchoInv, NEW r, Fine(r), Echo!Becomes(r), UNCHANGED out,
           input' \in [standby : BOOLEAN, aec : BOOLEAN, ref : Nat],
           input'.ref \in {0, r.current}
    PROVE  EchoInv'
<1>1. EchoTyped'
  BY DEF EchoInv, EchoTyped, Fine, Echo!Becomes
<1>2. Shared'
  BY DEF EchoInv, EchoTyped, Shared, Fine, Echo!Becomes
<1>3. HeldIsAlive'
  BY DEF EchoInv, Fine, HeldIsAlive, Echo!HeldIsAlive, Echo!None, Echo!Becomes
<1>4. UpToDate'
  BY DEF EchoInv, EchoTyped, UpToDate, Stale, Fine, Echo!Becomes
<1>5. LeftIsHeld'
  BY DEF LeftIsHeld, Stale, Fine, Echo!Becomes
<1>6. QED
  BY <1>1, <1>2, <1>3, <1>4, <1>5 DEF EchoInv

(* A start takes a reference for an input that cancels echos and has none. *)
LEMMA InStartKeeps ==
    ASSUME EchoInv, Outputs = {Primary}, NEW opens \in BOOLEAN, Echo!InStart(opens)
    PROVE  EchoInv'
<1> DEFINE got == input.aec /\ input.ref = 0
<1>1. PICK made \in BOOLEAN :
        LET r == IF got THEN Echo!get_echo_reference(Echo!Refs, made) ELSE Echo!Refs
        IN  /\ Echo!Becomes(r)
            /\ input' = [input EXCEPT !.ref = IF got THEN r.current ELSE @, !.standby = ~opens]
  BY DEF Echo!InStart, Echo!None
<1>2. UNCHANGED out
  BY DEF Echo!InStart
<1>3. CASE got
  <2> DEFINE r == Echo!get_echo_reference(Echo!Refs, made)
  <2>1. Echo!Becomes(r) /\ input' = [input EXCEPT !.ref = r.current, !.standby = ~opens]
    BY <1>1, <1>3
  <2>2. Fine(r)
    BY GetFine
  <2> HIDE DEF r
  <2>3. r.current \in Nat
    BY <2>2 DEF Fine
  <2>4. /\ input' \in [standby : BOOLEAN, aec : BOOLEAN, ref : Nat]
        /\ input'.ref = r.current
    BY <2>1, <2>3 DEF EchoInv, EchoTyped
  <2>5. QED
    BY <1>2, <2>1, <2>2, <2>4, CaptureKeeps
<1>4. CASE ~got
  <2>1. Echo!Becomes(Echo!Refs) /\ input' = [input EXCEPT !.standby = ~opens]
    BY <1>1, <1>4 DEF EchoInv, EchoTyped
  <2>2. /\ input' \in [standby : BOOLEAN, aec : BOOLEAN, ref : Nat]
        /\ input'.ref \in {0, Echo!Refs.current}
    BY <2>1 DEF EchoInv, EchoTyped, Shared, Echo!Refs
  <2>3. QED
    BY <1>2, <2>1, <2>2, RefsFine, CaptureKeeps
<1>5. QED
  BY <1>3, <1>4

(* A running input gives its reference back when it stops.                 *)
LEMMA InStandbyKeeps ==
    ASSUME EchoInv, Outputs = {Primary}, NEW aec \in BOOLEAN, Echo!do_in_standby_l(aec)
    PROVE  EchoInv'
<1>1. CASE input.standby
  <2>1. /\ Echo!Becomes(Echo!Refs) /\ UNCHANGED out
        /\ input' = [standby |-> TRUE, aec |-> aec, ref |-> input.ref]
    BY <1>1 DEF Echo!do_in_standby_l
  <2>2. /\ input' \in [standby : BOOLEAN, aec : BOOLEAN, ref : Nat]
        /\ input'.ref \in {0, Echo!Refs.current}
    BY <2>1 DEF EchoInv, EchoTyped, Shared, Echo!Refs
  <2>3. QED
    BY <2>1, <2>2, RefsFine, CaptureKeeps
<1>2. CASE ~input.standby
  <2> DEFINE r == Echo!put_echo_reference(Echo!Refs, input.ref)
  <2>1. /\ Echo!Becomes(r) /\ UNCHANGED out
        /\ input' = [standby |-> TRUE, aec |-> aec, ref |-> 0]
    BY <1>2 DEF Echo!do_in_standby_l, Echo!None
  <2>2. Fine(r)
    BY PutFine DEF EchoInv, Shared
  <2> HIDE DEF r
  <2>3. QED
    BY <2>1, <2>2, CaptureKeeps
<1>3. QED
  BY <1>1, <1>2

(* So does one that is closed.                                             *)
LEMMA InCloseKeeps ==
    ASSUME EchoInv, Outputs = {Primary}, Echo!InClose
    PROVE  EchoInv'
<1> DEFINE r == IF input.standby THEN Echo!Refs
                ELSE Echo!put_echo_reference(Echo!Refs, input.ref)
<1>1. /\ Echo!Becomes(r) /\ UNCHANGED out
      /\ input' = [standby |-> TRUE, aec |-> FALSE, ref |-> 0]
  BY DEF Echo!InClose, Echo!None
<1>2. Fine(r)
  BY PutFine, RefsFine DEF EchoInv, Shared
<1> HIDE DEF r
<1>3. QED
  BY <1>1, <1>2, CaptureKeeps

(* An output starts with the reference that is there.                      *)
LEMMA OutStartKeeps ==
    ASSUME EchoInv, Outputs = {Primary}, NEW o \in Outputs, Echo!OutStart(o)
    PROVE  EchoInv'
<1>1. EchoTyped'
  BY DEF Echo!OutStart, Echo!Becomes, Echo!Release, Echo!Refs, Echo!None, EchoInv, EchoTyped,
     Shared
<1>2. Shared'
  BY DEF Echo!OutStart, Echo!Becomes, Echo!Release, Echo!Refs, Echo!None, EchoInv, EchoTyped,
     Shared
<1>3. HeldIsAlive'
  BY DEF Echo!OutStart, Echo!Becomes, Echo!Release, Echo!Refs, Echo!None, EchoInv, EchoTyped,
     Shared,
         HeldIsAlive, Echo!HeldIsAlive
<1>4. UpToDate' /\ LeftIsHeld'
  BY DEF Echo!OutStart, Echo!Becomes, Echo!Release, Echo!Refs, EchoInv, EchoTyped, Shared,
     UpToDate, LeftIsHeld, Stale
<1>5. QED
  BY <1>1, <1>2, <1>3, <1>4 DEF EchoInv

(* A playback thread compares the generations.                             *)
LEMMA OutWriteKeeps ==
    ASSUME EchoInv, Outputs = {Primary}, NEW o \in Outputs, Echo!OutWrite(o)
    PROVE  EchoInv'
<1>1. EchoTyped'
  BY DEF Echo!OutWrite, Echo!Becomes, Echo!Release, Echo!Refs, Echo!None, EchoInv, EchoTyped,
     Shared
<1>2. Shared'
  BY DEF Echo!OutWrite, Echo!Becomes, Echo!Release, Echo!Refs, Echo!None, EchoInv, EchoTyped,
     Shared
<1>3. HeldIsAlive'
  BY DEF Echo!OutWrite, Echo!Becomes, Echo!Release, Echo!Refs, Echo!None, EchoInv, EchoTyped,
     Shared,
         HeldIsAlive, Echo!HeldIsAlive
<1>4. UpToDate' /\ LeftIsHeld'
  BY DEF Echo!OutWrite, Echo!Becomes, Echo!Release, Echo!Refs, EchoInv, EchoTyped, Shared,
     UpToDate, LeftIsHeld, Stale
<1>5. QED
  BY <1>1, <1>2, <1>3, <1>4 DEF EchoInv

(* It releases a reference that was left to it, and takes the new one.     *)
LEMMA OutUpdateKeeps ==
    ASSUME EchoInv, Outputs = {Primary}, NEW o \in Outputs, Echo!OutUpdate(o)
    PROVE  EchoInv'
<1>1. EchoTyped'
  BY DEF Echo!OutUpdate, Echo!Becomes, Echo!Release, Echo!Refs, Echo!None, EchoInv,
     EchoTyped, Shared
<1>2. Shared'
  BY DEF Echo!OutUpdate, Echo!Becomes, Echo!Release, Echo!Refs, Echo!None, EchoInv,
     EchoTyped, Shared
<1>3. HeldIsAlive'
  BY DEF Echo!OutUpdate, Echo!Becomes, Echo!Release, Echo!Refs, Echo!None, EchoInv,
     EchoTyped, Shared,
         HeldIsAlive, Echo!HeldIsAlive
<1>4. UpToDate' /\ LeftIsHeld'
  BY DEF Echo!OutUpdate, Echo!Becomes, Echo!Release, Echo!Refs, EchoInv, EchoTyped, Shared,
     UpToDate, LeftIsHeld, Stale
<1>5. QED
  BY <1>1, <1>2, <1>3, <1>4 DEF EchoInv

(* It writes.                                                              *)
LEMMA OutFeedKeeps ==
    ASSUME EchoInv, Outputs = {Primary}, NEW o \in Outputs, Echo!OutFeed(o)
    PROVE  EchoInv'
<1>1. EchoTyped'
  BY DEF Echo!OutFeed, Echo!Becomes, Echo!Release, Echo!Refs, Echo!None, EchoInv, EchoTyped,
     Shared
<1>2. Shared'
  BY DEF Echo!OutFeed, Echo!Becomes, Echo!Release, Echo!Refs, Echo!None, EchoInv, EchoTyped,
     Shared
<1>3. HeldIsAlive'
  BY DEF Echo!OutFeed, Echo!Becomes, Echo!Release, Echo!Refs, Echo!None, EchoInv, EchoTyped,
     Shared,
         HeldIsAlive, Echo!HeldIsAlive
<1>4. UpToDate' /\ LeftIsHeld'
  BY DEF Echo!OutFeed, Echo!Becomes, Echo!Release, Echo!Refs, EchoInv, EchoTyped, Shared,
     UpToDate, LeftIsHeld, Stale
<1>5. QED
  BY <1>1, <1>2, <1>3, <1>4 DEF EchoInv

(* An output that stops releases what was left to it.                      *)
LEMMA OutStandbyKeeps ==
    ASSUME EchoInv, Outputs = {Primary}, NEW o \in Outputs, Echo!OutStandby(o)
    PROVE  EchoInv'
<1> DEFINE left == out[o].ref # 0 /\ out[o].generation # generation
           r    == IF left THEN Echo!Release(Echo!Refs, out[o].ref) ELSE Echo!Refs
           g    == IF left THEN generation ELSE out[o].generation
<1>1. /\ Echo!Becomes(r) /\ UNCHANGED input
      /\ out' = [out EXCEPT ![o] = [standby |-> TRUE, generation |-> g, ref |-> 0, at |-> "out"]]
  BY DEF Echo!OutStandby, Echo!None
<1>2. g \in 0 .. generation
  BY DEF EchoInv, EchoTyped
<1>3. /\ generation' = generation /\ current' = current
      /\ alive' \in {alive, alive \ {out[o].ref}}
  BY <1>1 DEF Echo!Becomes, Echo!Release, Echo!Refs
<1>4. left => out[o].ref # current
  BY DEF EchoInv, Shared
<1>5. alive' # alive => left
  BY <1>1 DEF Echo!Becomes, Echo!Refs
<1> HIDE DEF left, r, g
<1>6. EchoTyped'
  <2>1. out' \in [Outputs -> [standby : BOOLEAN, generation : 0 .. generation,
                              ref : 0 .. generation, at : {"out", "update", "feed"}]]
    <3>1. 0 \in 0 .. generation
      BY DEF EchoInv, EchoTyped
    <3>2. QED
      BY <1>1, <1>2, <3>1 DEF EchoInv, EchoTyped
  <2>2. alive' \subseteq 1 .. generation /\ current \in alive' \union {0}
    BY <1>3, <1>4, <1>5 DEF EchoInv, EchoTyped
  <2>3. QED
    BY <1>1, <1>3, <2>1, <2>2 DEF EchoInv, EchoTyped
<1>7. Shared' /\ HeldIsAlive'
  BY <1>1, <1>3, <1>4, <1>5
     DEF EchoInv, EchoTyped, Shared, HeldIsAlive, Echo!HeldIsAlive, Echo!None
<1>8. UpToDate'
  BY <1>1, <1>3 DEF EchoInv, EchoTyped, UpToDate, Stale
<1>9. LeftIsHeld'
  <2>1. \A ref \in alive : ref = current \/ (left /\ out[o].ref = ref)
    BY DEF EchoInv, EchoTyped, LeftIsHeld, Stale, left
  <2>2. left => alive' = alive \ {out[o].ref}
    BY <1>1 DEF Echo!Becomes, Echo!Release, Echo!Refs, r
  <2>3. QED
    BY <1>3, <2>1, <2>2 DEF LeftIsHeld
<1>10. QED
  BY <1>6, <1>7, <1>8, <1>9 DEF EchoInv

-----------------------------------------------------------------------------
(* The stream: its effects and buffers. *)

(* What a place of the table may hold.                                     *)
Place == {Stream!Null} \union {[effect |-> e, configs |-> Supports[e]] : e \in DOMAIN Supports}

TableTyped == table \in [num : 0 .. 4, slot : [1 .. 4 -> Place]]

(* BuffersServe must not depend on the effects there are now: a buffer     *)
(* that was sized without effects serves those that come later, but for    *)
(* proc_buf_in of a mono input.                                            *)
Sized ==
    /\ ~input.standby /\ (buf.read_size >= Frames \/ buf.left > 0) => buf.read = Frames
    /\ ~input.standby /\ buf.size >= Frames =>
          IF Stream!Additional THEN buf.out = Frames ELSE buf.in = Frames
    /\ buf.ref_frames <= buf.ref

StreamInv ==
    Stream!TypeOK /\ TableTyped /\ TableHoldsAttached /\ AuxIsSupported /\ Sized

(* A new input has no effects and no buffers.                              *)
LEMMA FreshInput ==
    ASSUME Stream!Close
    PROVE  StreamInv'
<1>1. input.standby' \in BOOLEAN /\ input.aec' \in BOOLEAN
  BY DEF Stream!Close
<1>2. PICK main \in Mains : channel' = Stream!NewChannel(main)
  BY DEF Stream!Close
<1>3. Stream!TypeOK'
  BY <1>1, <1>2, CaptureAssumption
     DEF Stream!Close, Stream!NewChannel, Stream!PcmChannels, Stream!None, Stream!NewTable,
         Stream!NoBuffers, Stream!TypeOK, Stream!Slots, Stream!MAX_PREPROCESSORS, Stream!Effects
<1>4. TableTyped'
  BY DEF Stream!Close, Stream!NewTable, Stream!Slots, Stream!MAX_PREPROCESSORS, TableTyped,
     Place
<1>5. TableHoldsAttached' /\ AuxIsSupported' /\ Sized'
  BY <1>2, CaptureAssumption
     DEF Stream!Close, Stream!NewChannel, Stream!NewTable, Stream!NoBuffers, Stream!Slots,
         Stream!MAX_PREPROCESSORS, TableHoldsAttached, Stream!TableHoldsAttached,
         AuxIsSupported, Stream!AuxIsSupported, Sized
<1>6. QED
  BY <1>3, <1>4, <1>5 DEF StreamInv

(* A start sizes everything anew; a PCM that does not open leaves the      *)
(* input in standby.                                                       *)
LEMMA StartKeeps ==
    ASSUME StreamInv, NEW opens \in BOOLEAN, Stream!Start(opens)
    PROVE  StreamInv'
<1> DEFINE n == IF channel.changed THEN Stream!Channels(channel.main, channel.aux)
                ELSE Stream!PcmChannels
           resampler == IF ~opens THEN 0
                        ELSE IF channel.changed \/ Resampled THEN n ELSE channel.resampler
<1>1. n \in {1, 2}
  BY DEF Stream!Channels, Stream!PcmChannels
<1>2. /\ channel' = [channel EXCEPT !.config = n, !.resampler = resampler]
      /\ buf' = IF opens THEN [buf EXCEPT !.size = 0, !.frames = 0, !.read_size = 0, !.left = 0]
                ELSE buf
      /\ input.standby' = ~opens
      /\ UNCHANGED <<input.aec, attached, table>>
  BY DEF Stream!Start, Stream!None
<1>3. resampler \in {0, 1, 2}
  BY <1>1 DEF StreamInv, Stream!TypeOK, Stream!None
<1> HIDE DEF n, resampler
<1>4. Stream!TypeOK'
  <2>1. buf' \in {buf, [buf EXCEPT !.size = 0, !.frames = 0, !.read_size = 0, !.left = 0]}
    BY <1>2
  <2>2. channel'.config = n /\ channel' = [channel EXCEPT !.config = n, !.resampler = resampler]
    BY <1>2 DEF StreamInv, Stream!TypeOK
  <2>3. input'.standby \in BOOLEAN /\ input'.aec \in BOOLEAN /\ attached' \subseteq Stream!Effects
    BY <1>2 DEF StreamInv, Stream!TypeOK
  <2>4. table'.num \in 0 .. Stream!MAX_PREPROCESSORS + 1 /\ DOMAIN table'.slot = Stream!Slots
    BY <1>2 DEF StreamInv, Stream!TypeOK
  <2>5. channel' \in [main : Mains, aux : {"none", "BACK", "RIGHT"}, changed : BOOLEAN,
                      device : {"MIC", "HEADSET"}, config : {1, 2}, resampler : {0, 1, 2}]
    BY <1>1, <1>3, <2>2 DEF StreamInv, Stream!TypeOK, Stream!None
  <2>6. buf' \in [read : {0, Frames}, read_size : 0 .. Frames, left : 0 .. Frames,
                  in : {0, Frames}, out : {0, Frames}, size : 0 .. Frames, frames : 0 .. Frames,
                  ref : 0 .. Frames, ref_frames : 0 .. Frames]
    <3>1. 0 \in 0 .. Frames
      BY CaptureAssumption
    <3>2. QED
      BY <2>1, <3>1 DEF StreamInv, Stream!TypeOK, Stream!None
  <2>7. QED
    BY <2>3, <2>4, <2>5, <2>6 DEF Stream!TypeOK, Stream!None
<1>5. TableTyped' /\ TableHoldsAttached' /\ AuxIsSupported'
  BY <1>2 DEF StreamInv, Stream!TypeOK, TableTyped, TableHoldsAttached,
     Stream!TableHoldsAttached, AuxIsSupported,
         Stream!AuxIsSupported
<1>6. Sized'
  <2>1. CASE opens
    <3>1. buf' = [buf EXCEPT !.size = 0, !.frames = 0, !.read_size = 0, !.left = 0]
      BY <1>2, <2>1
    <3>2. QED
      BY <3>1, CaptureAssumption DEF StreamInv, Stream!TypeOK, Stream!None, Sized
  <2>2. CASE ~opens
    <3>1. buf' = buf /\ input'.standby
      BY <1>2, <2>2
    <3>2. QED
      BY <3>1 DEF StreamInv, Sized
  <2>3. QED
    BY <2>1, <2>2
<1>7. QED
  BY <1>4, <1>5, <1>6 DEF StreamInv

(* The buffer of a stopped PCM is freed.                                   *)
LEMMA StandbyKeeps ==
    ASSUME StreamInv, Stream!Standby
    PROVE  StreamInv'
<1>1. Stream!TypeOK'
  BY DEF Stream!Standby, Stream!FreeRead, StreamInv, Stream!TypeOK, Stream!None
<1>2. TableTyped' /\ TableHoldsAttached' /\ AuxIsSupported'
  BY DEF Stream!Standby, StreamInv, TableTyped, TableHoldsAttached,
     Stream!TableHoldsAttached, AuxIsSupported,
         Stream!AuxIsSupported
<1>3. Sized'
  BY DEF Stream!Standby, Stream!FreeRead, StreamInv, Stream!TypeOK, Sized
<1>4. QED
  BY <1>1, <1>2, <1>3 DEF StreamInv

(* Another microphone.                                                     *)
LEMMA SetDeviceKeeps ==
    ASSUME StreamInv, NEW d \in {"MIC", "HEADSET"}, Stream!SetDevice(d)
    PROVE  StreamInv'
<1>1. Stream!TypeOK'
  BY DEF Stream!SetDevice, StreamInv, Stream!TypeOK
<1>2. TableTyped' /\ TableHoldsAttached' /\ AuxIsSupported'
  BY DEF Stream!SetDevice, StreamInv, Stream!TypeOK, TableTyped, TableHoldsAttached,
     Stream!TableHoldsAttached, AuxIsSupported,
         Stream!AuxIsSupported
<1>3. Sized'
  BY DEF Stream!SetDevice, StreamInv, Stream!TypeOK, Sized, Stream!Additional
<1>4. QED
  BY <1>1, <1>2, <1>3 DEF StreamInv

(* Every place up to the last is a place of the table.                     *)
LEMMA TableFacts ==
    ASSUME StreamInv
    PROVE  /\ table.num \in 0 .. 4 /\ table.slot \in [1 .. 4 -> Place]
           /\ \A i \in 1 .. table.num : i \in 1 .. 4 /\ table.slot[i].effect \in attached
           /\ \A e \in attached : \E i \in 1 .. table.num : table.slot[i].effect = e
           /\ table = [num |-> table.num, slot |-> table.slot]
BY DEF StreamInv, TableTyped, TableHoldsAttached, Stream!TableHoldsAttached

(* The new effect takes the first free place, and the channels are those   *)
(* that it supports as well, or none.                                      *)
LEMMA AddEffectKeeps ==
    ASSUME StreamInv, NEW e \in DOMAIN Supports, Stream!AddEffect(e)
    PROVE  StreamInv'
<1> DEFINE n     == table.num + 1
           place == [effect |-> e, configs |-> Supports[e]]
           t     == [num |-> n, slot |-> [table.slot EXCEPT ![n] = place]]
<1>1. PICK accepted \in BOOLEAN :
        LET x     == Stream!in_update_aux_channels(t, channel, accepted)
            stops == x # channel.aux \/ e = "AEC"
        IN  /\ table' = t
            /\ channel' = [channel EXCEPT !.aux = x, !.changed = TRUE]
            /\ input.standby' = (input.standby \/ stops)
            /\ buf' = IF stops THEN Stream!FreeRead(buf) ELSE buf
  BY DEF Stream!AddEffect
<1>2. /\ e \notin attached /\ attached' = attached \union {e}
      /\ input.aec' = (input.aec \/ e = "AEC") /\ n \in 1 .. 4
  BY TableFacts DEF Stream!AddEffect, Stream!MAX_PREPROCESSORS
<1> DEFINE x     == Stream!in_update_aux_channels(t, channel, accepted)
           stops == x # channel.aux \/ e = "AEC"
<1>3. x \in {"none", "BACK", "RIGHT"} /\ (x # "none" => \A i \in 1 .. t.num : x \in t.slot[i].configs)
  BY DEF Stream!in_update_aux_channels, Stream!in_get_aux_channels
<1>4. /\ table' = t /\ channel' = [channel EXCEPT !.aux = x, !.changed = TRUE]
      /\ input.standby' = (input.standby \/ stops)
      /\ buf' \in {buf, Stream!FreeRead(buf)} /\ (~stops => buf' = buf)
  BY <1>1
<1> HIDE DEF x, stops
<1>5. place \in Place /\ t.slot \in [1 .. 4 -> Place] /\ t.num = n
  BY <1>2, TableFacts DEF Place
<1>6. \A i \in 1 .. 4 : t.slot[i] = IF i = n THEN place ELSE table.slot[i]
  BY <1>2, TableFacts
<1> HIDE DEF t
<1>7. TableTyped'
  BY <1>2, <1>4, <1>5, TableFacts DEF TableTyped, t
<1>8. TableHoldsAttached'
  <2>1. \A i \in 1 .. n : i \in 1 .. 4 /\ t.slot[i].effect = IF i = n THEN e ELSE table.slot[i].effect
    BY <1>2, <1>6
  <2>2. \A i \in 1 .. n : i # n => i \in 1 .. table.num
    BY TableFacts
  <2>3. {t.slot[i].effect : i \in 1 .. n} = attached \union {e}
    <3>1. \A i \in 1 .. n : t.slot[i].effect \in attached \union {e}
      BY <2>1, <2>2, TableFacts
    <3>2. \A f \in attached : \E i \in 1 .. n : t.slot[i].effect = f
      BY <2>1, TableFacts
    <3>3. n \in 1 .. n /\ t.slot[n].effect = e
      BY <1>2, <2>1
    <3>4. QED
      BY <3>1, <3>2, <3>3
  <2>4. \A i, j \in 1 .. n : i # j => t.slot[i].effect # t.slot[j].effect
    BY <1>2, <2>1, <2>2, TableFacts DEF StreamInv, TableHoldsAttached, Stream!TableHoldsAttached
  <2>5. \A i \in n + 1 .. 4 : t.slot[i] = Stream!Null
    BY <1>2, <1>6, TableFacts
       DEF StreamInv, TableHoldsAttached, Stream!TableHoldsAttached, Stream!MAX_PREPROCESSORS
  <2>6. QED
    BY <1>2, <1>4, <1>5, <2>3, <2>4, <2>5
       DEF TableHoldsAttached, Stream!TableHoldsAttached, Stream!MAX_PREPROCESSORS
<1>9. channel'.aux = x /\ channel'.config = channel.config /\ channel'.main = channel.main
  BY <1>4 DEF StreamInv, Stream!TypeOK
<1>10. AuxIsSupported'
  BY <1>3, <1>4, <1>9 DEF AuxIsSupported, Stream!AuxIsSupported
<1>11. Stream!TypeOK'
  <2>1. /\ input.standby' \in BOOLEAN /\ input.aec' \in BOOLEAN
        /\ attached' \subseteq Stream!Effects
    BY <1>2, <1>4 DEF StreamInv, Stream!TypeOK, Stream!Effects
  <2>2. table'.num \in 0 .. Stream!MAX_PREPROCESSORS + 1 /\ DOMAIN table'.slot = Stream!Slots
    BY <1>2, <1>4, <1>5 DEF Stream!MAX_PREPROCESSORS, Stream!Slots
  <2>3. channel' \in [main : Mains, aux : {"none", "BACK", "RIGHT"}, changed : BOOLEAN,
                      device : {"MIC", "HEADSET"}, config : {1, 2}, resampler : {0, 1, 2}]
    BY <1>3, <1>4 DEF StreamInv, Stream!TypeOK, Stream!None
  <2>4. buf' \in {buf, [buf EXCEPT !.read = 0]}
    BY <1>4 DEF Stream!FreeRead, Stream!None
  <2>5. QED
    BY <2>1, <2>2, <2>3, <2>4 DEF StreamInv, Stream!TypeOK, Stream!None
<1>12. Sized'
  <2>1. CASE stops
    BY <1>4, <2>1 DEF StreamInv, Stream!TypeOK, Stream!FreeRead, Sized
  <2>2. CASE ~stops
    BY <1>4, <1>9, <2>2 DEF StreamInv, Stream!TypeOK, Sized, Stream!Additional
  <2>3. QED
    BY <2>1, <2>2
<1>13. QED
  BY <1>7, <1>8, <1>10, <1>11, <1>12 DEF StreamInv

(* The later effects move down; the channels stay, and all that remain     *)
(* support them.                                                           *)
LEMMA RemoveEffectKeeps ==
    ASSUME StreamInv, NEW e \in DOMAIN Supports, Stream!RemoveEffect(e)
    PROVE  StreamInv'
<1> DEFINE t == Stream!Removed(table, e)
           k == CHOOSE i \in 1 .. table.num : table.slot[i].effect = e
<1>1. k \in 1 .. table.num /\ table.slot[k].effect = e
  BY TableFacts DEF Stream!RemoveEffect
<1>2. t = [num |-> table.num - 1,
           slot |-> [i \in 1 .. 4 |-> IF i < k THEN table.slot[i]
                                      ELSE IF i >= table.num THEN Stream!Null
                                      ELSE table.slot[i + 1]]]
  BY DEF Stream!Removed, Stream!Slots, Stream!MAX_PREPROCESSORS
<1>3. /\ table' = t /\ attached' = attached \ {e}
      /\ channel' = [channel EXCEPT !.changed = FALSE]
      /\ input.aec' = (input.aec /\ e # "AEC") /\ input.standby' = (input.standby \/ e = "AEC")
      /\ buf' = IF e = "AEC" THEN Stream!FreeRead(buf) ELSE buf
  BY DEF Stream!RemoveEffect
<1> HIDE DEF t, k
<1>4. table.num \in 1 .. 4 /\ table.num - 1 \in 0 .. 3
  BY <1>1, TableFacts
<1>5. \A i \in 1 .. table.num - 1 :
        /\ i \in 1 .. 4 /\ i \in 1 .. table.num /\ i + 1 \in 1 .. table.num
        /\ t.slot[i] = IF i < k THEN table.slot[i] ELSE table.slot[i + 1]
  BY <1>1, <1>2, <1>4
<1>6. \A i \in table.num .. 4 : t.slot[i] = Stream!Null
  BY <1>1, <1>2, <1>4
<1>7. TableTyped'
  <2>1. \A i \in 1 .. table.num - 1 : t.slot[i] \in Place
    <3>1. \A i \in 1 .. table.num : table.slot[i] \in Place
      BY TableFacts
    <3>2. QED
      BY <1>5, <3>1
  <2>2. \A i \in 1 .. 4 : i \in 1 .. table.num - 1 \/ i \in table.num .. 4
    BY <1>4
  <2>3. \A i \in 1 .. 4 : t.slot[i] \in Place
    BY <1>6, <2>1, <2>2 DEF Place
  <2>4. QED
    BY <1>2, <1>3, <1>4, <2>3 DEF TableTyped
<1>8. TableHoldsAttached'
  <2>1. \A i, j \in 1 .. table.num : i # j => table.slot[i].effect # table.slot[j].effect
    BY DEF StreamInv, TableHoldsAttached, Stream!TableHoldsAttached
  <2>2. \A i \in 1 .. table.num - 1 : t.slot[i].effect \in attached \ {e}
    BY <1>1, <1>4, <1>5, <2>1, TableFacts
  <2>3. \A f \in attached \ {e} : \E i \in 1 .. table.num - 1 : t.slot[i].effect = f
    <3> SUFFICES ASSUME NEW f \in attached \ {e}
                 PROVE  \E i \in 1 .. table.num - 1 : t.slot[i].effect = f
      OBVIOUS
    <3>1. PICK i \in 1 .. table.num : table.slot[i].effect = f
      BY TableFacts
    <3>2. CASE i < k
      BY <1>1, <1>4, <1>5, <3>1, <3>2
    <3>3. CASE i > k
      <4>1. i - 1 \in 1 .. table.num - 1 /\ ~(i - 1 < k) /\ (i - 1) + 1 = i
        BY <1>1, <1>4, <3>3
      <4>2. QED
        BY <1>5, <3>1, <4>1
    <3>4. i # k
      BY <1>1, <3>1
    <3>5. QED
      BY <1>1, <3>2, <3>3, <3>4
  <2>4. {t.slot[i].effect : i \in 1 .. table.num - 1} = attached \ {e}
    BY <2>2, <2>3
  <2>5. \A i, j \in 1 .. table.num - 1 : i # j => t.slot[i].effect # t.slot[j].effect
    BY <1>1, <1>4, <1>5, <2>1
  <2>6. t.num = table.num - 1 /\ (table.num - 1) + 1 = table.num
    BY <1>2, <1>4
  <2>7. QED
    BY <1>3, <1>6, <2>4, <2>5, <2>6
       DEF TableHoldsAttached, Stream!TableHoldsAttached, Stream!MAX_PREPROCESSORS
<1>9. /\ channel'.aux = channel.aux /\ channel'.config = channel.config
      /\ channel'.main = channel.main
  BY <1>3 DEF StreamInv, Stream!TypeOK
<1>10. AuxIsSupported'
  <2>1. t.num = table.num - 1
    BY <1>2
  <2>2. QED
    BY <1>3, <1>5, <1>9, <2>1 DEF StreamInv, AuxIsSupported, Stream!AuxIsSupported
<1>11. Stream!TypeOK'
  <2>1. /\ input.standby' \in BOOLEAN /\ input.aec' \in BOOLEAN
        /\ attached' \subseteq Stream!Effects
    BY <1>3 DEF StreamInv, Stream!TypeOK
  <2>2. table'.num \in 0 .. Stream!MAX_PREPROCESSORS + 1 /\ DOMAIN table'.slot = Stream!Slots
    BY <1>2, <1>3, <1>4 DEF Stream!MAX_PREPROCESSORS, Stream!Slots
  <2>3. channel' \in [main : Mains, aux : {"none", "BACK", "RIGHT"}, changed : BOOLEAN,
                      device : {"MIC", "HEADSET"}, config : {1, 2}, resampler : {0, 1, 2}]
    BY <1>3 DEF StreamInv, Stream!TypeOK, Stream!None
  <2>4. buf' \in {buf, [buf EXCEPT !.read = 0]}
    BY <1>3 DEF Stream!FreeRead, Stream!None
  <2>5. QED
    BY <2>1, <2>2, <2>3, <2>4 DEF StreamInv, Stream!TypeOK, Stream!None
<1>12. Sized'
  <2>1. CASE e = "AEC"
    BY <1>3, <2>1 DEF StreamInv, Stream!TypeOK, Stream!FreeRead, Sized
  <2>2. CASE e # "AEC"
    BY <1>3, <1>9, <2>2 DEF StreamInv, Stream!TypeOK, Sized, Stream!Additional
  <2>3. QED
    BY <2>1, <2>2
<1>13. QED
  BY <1>7, <1>8, <1>10, <1>11, <1>12 DEF StreamInv

(* The buffers in their ranges, and what Sized says of a running input's.  *)
BufTyped(b) ==
    b \in [read : {0, Frames}, read_size : 0 .. Frames, left : 0 .. Frames, in : {0, Frames},
          out : {0, Frames}, size : 0 .. Frames, frames : 0 .. Frames,
          ref : 0 .. Frames, ref_frames : 0 .. Frames]

BufServes(b) ==
    /\ b.read_size >= Frames \/ b.left > 0 => b.read = Frames
    /\ b.size >= Frames => IF Stream!Additional THEN b.out = Frames ELSE b.in = Frames
    /\ b.ref_frames <= b.ref

(* The buffers of the effects are made with their size.                    *)
LEMMA GrownServes ==
    ASSUME NEW b, BufTyped(b), BufServes(b)
    PROVE  BufTyped(Stream!Grown(b)) /\ BufServes(Stream!Grown(b))
<1>1. Frames \in 0 .. Frames /\ Frames > 0
  BY CaptureAssumption
<1>2. Stream!Grown(b) \in
        {b, [b EXCEPT !.size = Frames, !.in = Frames,
                      !.out = IF Stream!Additional THEN Frames ELSE b.out]}
        \union (IF Stream!Additional THEN {[b EXCEPT !.size = Frames, !.out = Frames]} ELSE {})
  BY DEF Stream!Grown
<1>3. CASE Stream!Additional
  BY <1>1, <1>2, <1>3 DEF BufTyped, BufServes
<1>4. CASE ~Stream!Additional
  BY <1>1, <1>2, <1>4 DEF BufTyped, BufServes
<1>5. QED
  BY <1>3, <1>4

(* The buffer of the PCM is there before frames are left in it.            *)
LEMMA ReadFramesServe ==
    ASSUME NEW b, BufTyped(b), BufServes(b), NEW r \in Stream!read_frames(b)
    PROVE  BufTyped(r) /\ BufServes(r)
<1> DEFINE n == Stream!get_next_buffer(b)
<1>1. PICK left \in 0 .. Frames : r = [n EXCEPT !.left = left]
  BY DEF Stream!read_frames
<1>2. n \in {b, [b EXCEPT !.read_size = Frames, !.read = Frames]} /\ n.read = Frames
  BY CaptureAssumption DEF Stream!get_next_buffer, BufTyped, BufServes
<1> HIDE DEF n
<1>3. Frames \in 0 .. Frames /\ Frames > 0
  BY CaptureAssumption
<1>4. QED
  BY <1>1, <1>2, <1>3 DEF BufTyped, BufServes

(* What waits for the effects fits, with and without a reference.          *)
LEMMA ProcessedServes ==
    ASSUME NEW b, BufTyped(b), BufServes(b), NEW reference \in BOOLEAN,
           NEW r \in Stream!Processed(b, reference)
    PROVE  BufTyped(r) /\ BufServes(r)
<1>1. CASE r = b
  BY <1>1
<1>2. ASSUME NEW left \in 0 .. Frames, r = [b EXCEPT !.frames = left]
      PROVE  BufTyped(r) /\ BufServes(r)
  BY <1>2 DEF BufTyped, BufServes
<1>3. ASSUME NEW left \in 0 .. Frames, NEW p \in Stream!PushReference(b, Frames),
             r = [p EXCEPT !.frames = left]
      PROVE  BufTyped(r) /\ BufServes(r)
  <2> DEFINE size == IF b.ref_frames < Frames /\ b.ref < Frames THEN Frames ELSE b.ref
         K    == {l \in 0 .. Frames : \E filled \in {b.ref_frames, Frames} : l \in filled - Frames .. filled}
         grown == [b EXCEPT !.ref = size]
  <2>1. Stream!PushReference(b, Frames) =
          {[grown EXCEPT !.ref_frames = k] : k \in K}
    BY DEF Stream!PushReference
  <2> HIDE DEF K, grown
  <2>2. PICK k \in K : p = [grown EXCEPT !.ref_frames = k]
    BY <2>1
  <2>3. k \in 0 .. Frames /\ size \in 0 .. Frames /\ k <= size
    BY <2>2, CaptureAssumption DEF BufTyped, BufServes, K
  <2> HIDE DEF size
  <2>4. BufTyped(p) /\ BufServes(p)
    <3>1. p = [b EXCEPT !.ref = size, !.ref_frames = k]
      BY <2>2 DEF grown, BufTyped
    <3>2. QED
      BY <2>3, <3>1 DEF BufTyped, BufServes
  <2>5. QED
    BY <1>3, <2>4 DEF BufTyped, BufServes
<1>4. QED
  BY <1>1, <1>2, <1>3 DEF Stream!Processed

(* A read may fail before the effects see anything of it.                  *)
LEMMA ReadKeeps ==
    ASSUME StreamInv, NEW reference \in BOOLEAN, Stream!Read(reference)
    PROVE  StreamInv'
<1>1. /\ ~input.standby /\ BufTyped(buf) /\ BufServes(buf)
      /\ UNCHANGED <<input.standby, input.aec, attached, table, channel>>
  BY DEF Stream!Read, StreamInv, Stream!TypeOK, Stream!None, Sized, BufTyped, BufServes
<1>2. PICK b \in IF Stream!Processing /\ buf.frames = Frames THEN {buf}
                 ELSE Stream!read_frames(Stream!Grown(buf)) :
        buf' \in {b} \union Stream!Processed(b, reference)
  BY DEF Stream!Read
<1>3. BufTyped(b) /\ BufServes(b)
  BY <1>1, <1>2, GrownServes, ReadFramesServe
<1>4. BufTyped(buf') /\ BufServes(buf')
  BY <1>2, <1>3, ProcessedServes
<1>5. Stream!TypeOK'
  BY <1>1, <1>4 DEF StreamInv, Stream!TypeOK, BufTyped, Stream!None
<1>6. TableTyped' /\ TableHoldsAttached' /\ AuxIsSupported'
  BY <1>1 DEF StreamInv, TableTyped, TableHoldsAttached, Stream!TableHoldsAttached,
              AuxIsSupported, Stream!AuxIsSupported
<1>7. Sized'
  BY <1>1, <1>4 DEF Sized, BufServes, Stream!Additional
<1>8. QED
  BY <1>5, <1>6, <1>7 DEF StreamInv

-----------------------------------------------------------------------------
(* Nothing is captured: there are no effects and no buffers.               *)
LEMMA StreamBegins == Init => StreamInv
<1> SUFFICES ASSUME Init PROVE StreamInv
  OBVIOUS
<1>1. input.standby \in BOOLEAN /\ input.aec \in BOOLEAN
  BY DEF Init, Stream!Init
<1>2. PICK main \in Mains : channel = Stream!NewChannel(main)
  BY DEF Init, Stream!Init
<1>3. Stream!TypeOK
  BY <1>1, <1>2, CaptureAssumption
     DEF Init, Stream!Init, Stream!NewChannel, Stream!PcmChannels, Stream!None, Stream!NewTable,
         Stream!NoBuffers, Stream!TypeOK, Stream!Slots, Stream!MAX_PREPROCESSORS, Stream!Effects
<1>4. TableTyped
  BY DEF Init, Stream!Init, Stream!NewTable, Stream!Slots, Stream!MAX_PREPROCESSORS, TableTyped,
         Place
<1>5. TableHoldsAttached /\ AuxIsSupported /\ Sized
  BY <1>2, CaptureAssumption
     DEF Init, Stream!Init, Stream!NewChannel, Stream!NewTable, Stream!NoBuffers, Stream!Slots,
         Stream!MAX_PREPROCESSORS, TableHoldsAttached, Stream!TableHoldsAttached,
         AuxIsSupported, Stream!AuxIsSupported, Sized
<1>6. QED
  BY <1>3, <1>4, <1>5 DEF StreamInv

(* What the stream is does not depend on the outputs.                      *)
LEMMA StreamStays ==
    ASSUME StreamInv, UNCHANGED <<input, stream>>
    PROVE  StreamInv'
<1>1. Stream!TypeOK'
  BY DEF stream, StreamInv, Stream!TypeOK
<1>2. TableTyped' /\ TableHoldsAttached' /\ AuxIsSupported'
  BY DEF stream, StreamInv, TableTyped, TableHoldsAttached, Stream!TableHoldsAttached,
         AuxIsSupported, Stream!AuxIsSupported
<1>3. Sized'
  BY DEF stream, StreamInv, Sized, Stream!Additional
<1>4. QED
  BY <1>1, <1>2, <1>3 DEF StreamInv

(* Every operation keeps the effects and buffers as StreamInv says, with   *)
(* any outputs.                                                            *)
THEOREM StreamInvariance == Spec => []StreamInv
<1>1. Init => StreamInv
  BY StreamBegins
<1>2. StreamInv /\ [Next]_vars => StreamInv'
  <2> SUFFICES ASSUME StreamInv, [Next]_vars PROVE StreamInv'
    OBVIOUS
  <2>1. ASSUME NEW opens \in BOOLEAN, start_input_stream(opens)
        PROVE  StreamInv'
    BY <2>1, StartKeeps DEF start_input_stream
  <2>2. ASSUME NEW e \in DOMAIN Supports, add_audio_effect(e) \/ remove_audio_effect(e)
        PROVE  StreamInv'
    BY <2>2, AddEffectKeeps, RemoveEffectKeeps DEF add_audio_effect, remove_audio_effect
  <2>3. ASSUME NEW d \in {"MIC", "HEADSET"}, in_set_parameters(d)
        PROVE  StreamInv'
    BY <2>3, SetDeviceKeeps DEF in_set_parameters
  <2>4. CASE do_in_standby_l
    BY <2>4, StandbyKeeps DEF do_in_standby_l
  <2>5. CASE read_and_process_frames
    <3>1. (input.ref # Echo!None) \in BOOLEAN
      OBVIOUS
    <3>2. QED
      BY <2>5, <3>1, ReadKeeps DEF read_and_process_frames
  <2>6. CASE adev_close_input_stream
    BY <2>6, FreshInput DEF adev_close_input_stream
  <2>7. ASSUME NEW o \in Outputs, start_output_stream(o) \/ Playback(o)
        PROVE  StreamInv'
    <3>1. UNCHANGED <<input, stream>>
      BY <2>7 DEF start_output_stream, Playback, Echo!Playback, Echo!OutStart, Echo!OutWrite,
                  Echo!OutUpdate, Echo!OutFeed, Echo!OutStandby
    <3>2. QED
      BY <3>1, StreamStays
  <2>8. CASE UNCHANGED vars
    BY <2>8, StreamStays DEF vars, stream
  <2>9. QED
    BY <2>1, <2>2, <2>3, <2>4, <2>5, <2>6, <2>7, <2>8 DEF Next
<1>3. QED
  BY <1>1, <1>2, PTL DEF Spec

(* Every operation of capture and of the primary output keeps the          *)
(* reference as EchoInv says.                                              *)
THEOREM EchoInvariance ==
    ASSUME Outputs = {Primary}
    PROVE  Spec => []EchoInv
<1>1. Init => EchoInv
  BY DEF Init, Echo!Init, Echo!None, EchoInv, EchoTyped, Shared, HeldIsAlive, Echo!HeldIsAlive,
     UpToDate, LeftIsHeld, Stale
<1>2. EchoInv /\ [Next]_vars => EchoInv'
  <2> SUFFICES ASSUME EchoInv, [Next]_vars PROVE EchoInv'
    OBVIOUS
  <2>1. ASSUME NEW opens \in BOOLEAN, start_input_stream(opens)
        PROVE  EchoInv'
    BY <2>1, InStartKeeps DEF start_input_stream
  <2>2. UNCHANGED echo => EchoInv'
    BY DEF echo, EchoInv, EchoTyped, Shared, HeldIsAlive, Echo!HeldIsAlive, Echo!None,
           UpToDate, LeftIsHeld, Stale
  <2>3. ASSUME NEW e \in DOMAIN Supports, add_audio_effect(e) \/ remove_audio_effect(e)
        PROVE  EchoInv'
    BY <2>2, <2>3, InStandbyKeeps
       DEF add_audio_effect, remove_audio_effect, EchoEffect, Echo!AecEffect
  <2>4. CASE do_in_standby_l
    <3>1. input.aec \in BOOLEAN
      BY DEF EchoInv, EchoTyped
    <3>2. QED
      BY <2>4, <3>1, InStandbyKeeps DEF do_in_standby_l, Echo!InStandby
  <2>5. CASE adev_close_input_stream
    BY <2>5, InCloseKeeps DEF adev_close_input_stream
  <2>6. ASSUME NEW o \in Outputs, start_output_stream(o) \/ Playback(o)
        PROVE  EchoInv'
    BY <2>6, OutStartKeeps, OutWriteKeeps, OutUpdateKeeps, OutFeedKeeps, OutStandbyKeeps
       DEF start_output_stream, Playback, Echo!Playback
  <2>7. CASE UNCHANGED vars \/ read_and_process_frames \/ \E d \in {"MIC", "HEADSET"} : in_set_parameters(d)
    BY <2>2, <2>7 DEF vars, echo, read_and_process_frames, in_set_parameters
  <2>8. QED
    BY <2>1, <2>3, <2>4, <2>5, <2>6, <2>7 DEF Next
<1>3. QED
  BY <1>1, <1>2, PTL DEF Spec

(* A reference that the input or the output still holds has not been       *)
(* released, whichever side starts, stops or fails first                   *)
(* (put_echo_reference, get_echo_reference, out_write).                    *)
THEOREM HeldReferenceIsAlive ==
    ASSUME Outputs = {Primary}
    PROVE  Spec => []HeldIsAlive
<1>1. EchoInv => HeldIsAlive
  BY DEF EchoInv
<1>2. QED
  BY <1>1, EchoInvariance, PTL

(* No reference is lost: one that is alive and not the device's any more   *)
(* is held by an output that plays and has missed a generation, so that    *)
(* its next write or its standby releases it, over any number of starts    *)
(* that fail and inputs that close (put_echo_reference, out_write,         *)
(* do_out_standby_l).  This is what LeftIsReleased owes to the code; the   *)
(* rest is that the playback thread goes on.                               *)
THEOREM NoReferenceLost ==
    ASSUME Outputs = {Primary}
    PROVE  Spec => []LeftIsHeld
<1>1. EchoInv => LeftIsHeld
  BY DEF EchoInv
<1>2. QED
  BY <1>1, EchoInvariance, PTL

(* The table holds the attached effects, each in one place, and every      *)
(* place past them is cleared (add_remove_audio_effect).                   *)
THEOREM TableIsExact == Spec => []TableHoldsAttached
<1>1. StreamInv => TableHoldsAttached
  BY DEF StreamInv
<1>2. QED
  BY <1>1, StreamInvariance, PTL

(* All effects support the auxiliary channels in use, after effects were   *)
(* added, moved and removed and after one refused its configuration        *)
(* (in_get_aux_channels, in_update_aux_channels).                          *)
THEOREM ChannelsAreSupported == Spec => []AuxIsSupported
<1>1. StreamInv => AuxIsSupported
  BY DEF StreamInv
<1>2. QED
  BY <1>1, StreamInvariance, PTL

(* A buffer that counts as large enough is there, over restarts and        *)
(* effects that come and go (read_frames, process_frames,                  *)
(* push_echo_reference).                                                   *)
THEOREM BuffersAreThere == Spec => []BuffersServe
<1>1. StreamInv => BuffersServe
  BY DEF StreamInv, Sized, BuffersServe, Stream!BuffersServe
<1>2. QED
  BY <1>1, StreamInvariance, PTL
=============================================================================

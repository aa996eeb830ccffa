----------------------------- MODULE JpegEncoder -----------------------------
(***************************************************************************)
(* The JPEG encoder of the camera, ExynosJpegEncoderForCamera: a          *)
(* compressor for the picture, a second one for its thumbnail, a worker    *)
(* thread that makes the thumbnail while the picture is compressed, and    *)
(* the APP segments that go in front of both.                              *)
(*                                                                         *)
(* A picture is the number of the shot it shows.  One client thread calls  *)
(* the encoder; once it has given a thumbnail image of its own it gives    *)
(* one for every shot it wants a thumbnail of.                             *)
(***************************************************************************)
EXTENDS JpegDevice, AppMarkers

CONSTANTS MaxShots,           \* bound on the shots
          Workers,            \* bound on the worker threads that are not joined
          Requests,           \* what encode is called with: Exif attributes, debug
                              \* segments and the length of the stream buffer
          MainSizes,          \* the sizes of a picture, a part of Sizes
          MainFailures,       \* what may fail of a picture's compression,
          SubFailures,        \* and of its thumbnail's
          ThumbLengths,       \* the lengths a compressed thumbnail may have
          MainLength          \* the length of a small compressed picture

ASSUME JpegAssumption ==
    /\ 0 \in Sizes
    /\ Workers # {} /\ Workers \subseteq Nat \ {0}
    /\ MainSizes \subseteq Sizes \ {0}
    /\ \A r \in Requests : /\ r.exif \in Exif \cup {NoExif}
                            /\ r.debug \in Seq(Nat) /\ r.max \in Nat
    /\ ThumbLengths \subseteq Nat \ {0} /\ MainLength \in Nat
    /\ MainFailures \subseteq Failures \cup {"memory"}
    /\ SubFailures \subseteq Failures

\* The attributes fit one segment, which no check sees to, and the debug data is
\* what PrepareAppWriter takes.
SegmentsFit ==
    \A r \in Requests : /\ Has(r.exif) => App1Size(r.exif) <= MaxSegment
                        /\ WriteAPPX(r.debug) \in 0..(6 * (MaxSegment + Marker))

ASSUME SegmentsAssumption == SegmentsFit

Client == 0                   \* the client's own thread
Threads == Workers \cup {Client}

Align == 16
Necessary == 591              \* NECESSARY_JPEG_LENGTH
ReserveFrom == 10 * MaxSegment

VARIABLES btb,                \* does the device compress picture and thumbnail in one go?
          enc,                \* the encoder's own settings
          main,               \* m_hwjpeg
          sub,                \* m_phwjpeg4thumb
          shot,               \* the shot in the input buffers
          given,              \* the shot whose thumbnail image the client gave last
          img,                \* the thumbnail image buffer
          jpg,                \* the thumbnail stream buffer
          app,                \* m_pAppWriter
          task,               \* what each thread is doing for a thumbnail
          pc,                 \* where the client is
          job,                \* the picture being encoded
          out,                \* the picture that encode answered last
          orphaned            \* has a call failed with its worker running?

vars == << btb, enc, main, sub, shot, given, img, jpg, app, task, pc, job, out, orphaned >>

Idle == [ at |-> "none", kind |-> "user", limit |-> 0, of |-> 0, len |-> 0 ]

NoJob == [ max |-> 0, thumb |-> FALSE, worker |-> Client, mainlen |-> 0, thumblen |-> 0 ]

NoPicture == [ ok |-> FALSE ]

Buffers == [ size : Sizes, of : 0..MaxShots ]

-----------------------------------------------------------------------------
(* The setters.                                                            *)

IsThumbGenerationNeeded == ~enc.nogen

\* EnsureFormatIsApplied: the thumbnail's size is the device's business only
\* when the device compresses the thumbnail too.
EnsureFormatIsApplied(e, d, fail) ==
    LET set == SetImageFormat(d, e.size, IF e.nogen /\ btb THEN e.thumb ELSE 0, fail)
    IN IF e.pending = {}
       THEN [ enc |-> e, dev |-> d, ok |-> TRUE ]
       ELSE [ enc |-> IF set.ok THEN [ e EXCEPT !.pending = {} ] ELSE e,
              dev |-> set.dev, ok |-> set.ok ]

\* setThumbnailSize.
ThumbnailSize(e, w) ==
    IF e.thumb = w
    THEN e
    ELSE [ e EXCEPT !.thumb = w, !.pending = @ \cup (IF btb THEN {"thumb"} ELSE {}) ]

\* setSize and setColorFormat.
SetSize(w) ==
    /\ pc = "idle" /\ w # enc.size
    /\ enc' = [ enc EXCEPT !.size = w, !.pending = @ \cup {"size"} ]
    /\ out' = NoPicture
    /\ UNCHANGED << btb, main, sub, shot, given, img, jpg, app, task, pc, job, orphaned >>

SetThumbnailSize(w) ==
    /\ pc = "idle" /\ w # enc.thumb
    /\ enc' = ThumbnailSize(enc, w)
    /\ out' = NoPicture
    /\ UNCHANGED << btb, main, sub, shot, given, img, jpg, app, task, pc, job, orphaned >>

\* setInBuf, with the next shot in the buffers.
SetInBuf(kind) ==
    /\ pc = "idle" /\ shot < MaxShots /\ enc.size # 0
    /\ \E fail \in MainFailures \cap {"none", "try"} :
         LET format == EnsureFormatIsApplied(enc, main, fail)
         IN /\ enc' = IF format.ok THEN [ format.enc EXCEPT !.inType = kind ] ELSE format.enc
            /\ main' = IF format.ok THEN SetImageBuffer(format.dev, kind) ELSE format.dev
            /\ shot' = IF format.ok THEN shot + 1 ELSE shot
    /\ out' = NoPicture
    /\ UNCHANGED << btb, sub, given, img, jpg, app, task, pc, job, orphaned >>

\* setInBuf2, with a thumbnail image of the same shot.
SetInBuf2(kind) ==
    /\ pc = "idle" /\ shot # 0 /\ given # shot
    /\ \E fail \in MainFailures \cap {"none", "try"} :
         LET format == EnsureFormatIsApplied([ enc EXCEPT !.nogen = TRUE ], main, fail)
         IN /\ enc' = IF format.ok THEN [ format.enc EXCEPT !.thumbType = kind ] ELSE format.enc
            /\ main' = IF format.ok /\ btb THEN SetImageBuffer2(format.dev) ELSE format.dev
            /\ given' = IF format.ok THEN shot ELSE given
    /\ out' = NoPicture
    /\ UNCHANGED << btb, sub, shot, img, jpg, app, task, pc, job, orphaned >>

-----------------------------------------------------------------------------
(* encode.                                                                 *)

\* The call answers -1; its worker, if it has one, is not joined.
Fail ==
    /\ pc' = "idle"
    /\ job' = NoJob
    /\ out' = NoPicture

NothingStarted == UNCHANGED << task, orphaned >>

\* AllocThumbJpegBuffer: a buffer of the thumbnail's size, kept if big enough.
AllocThumbJpegBuffer(w, fail) ==
    IF jpg.size > 0 /\ jpg.size >= w
    THEN jpg
    ELSE [ size |-> IF fail THEN 0 ELSE w, of |-> 0 ]

\* ProcessExif's check of the buffer comes before the segments are written, so
\* that it counts the last segment of the stream before.
BufferTooSmall(e, debug, max) ==
    max <= CalculateAPPSize(e, debug, -1, app.szApp11, 0) + Necessary

\* ProcessExif and setOutBuf.
Written(e, debug, max) ==
    LET reserve == Has(e) /\ e.thumb /\ max >= ReserveFrom
        w == Write(e, debug, reserve, Align)
    IN [ exif |-> e, debug |-> debug, app1End |-> w.app1End, szApp11 |-> w.szApp11,
         main |-> w.main, reserved |-> IsThumbSpaceReserved(e, w.app1End),
         len |-> szApp1(e) + (IF reserve THEN szMaxThumb(e) ELSE 0) ]

\* What encode makes of the request for a thumbnail.
Settled(thumb) ==
    IF ~thumb THEN ThumbnailSize(enc, 0)
    ELSE IF enc.nogen /\ enc.thumbType = "none"
         THEN [ enc EXCEPT !.nogen = FALSE, !.pending = @ \cup {"thumb"} ]
         ELSE enc

\* A thumbnail the device is to compress must be in memory like the picture's.
Mismatched(thumb) == thumb /\ enc.nogen /\ btb /\ enc.thumbType # enc.inType

\* The rest of encode up to the wait for the device: the format, the worker or
\* the thumbnail's stream buffer, and the compression.
Start(max, thumb, fail) ==
    LET format == EnsureFormatIsApplied(Settled(thumb), SetJpegBuffer(main), fail)
        worker == thumb /\ ~format.enc.nogen
        buffer == IF thumb /\ ~worker THEN AllocThumbJpegBuffer(enc.thumb, fail = "memory") ELSE jpg
        prepared == format.ok /\ (thumb /\ ~worker => buffer.size > 0)
        run == Compress(IF thumb /\ btb THEN SetJpegBuffer2(format.dev) ELSE format.dev, fail)
    IN /\ enc' = format.enc
       /\ jpg' = IF format.ok THEN buffer ELSE jpg
       /\ main' = IF prepared THEN run.dev ELSE format.dev
       /\ \/ ~prepared /\ NothingStarted /\ Fail
          \/ /\ prepared
             /\ \E t \in IF worker THEN { w \in Workers : task[w] = Idle } ELSE {Client} :
                  /\ task' = IF worker THEN [ task EXCEPT ![t].at = "scale" ] ELSE task
                  /\ orphaned' = (orphaned \/ (worker /\ ~run.ok))
                  /\ IF run.ok
                     THEN /\ pc' = "device" /\ out' = NoPicture
                          /\ job' = [ NoJob EXCEPT !.max = max, !.thumb = thumb, !.worker = t ]
                     ELSE Fail

Encode(e, debug, max) ==
    LET thumb == Has(e) /\ e.thumb
    IN /\ pc = "idle" /\ shot # 0
       /\ thumb => enc.thumb # 0 /\ (enc.nogen /\ enc.thumbType # "none" => given = shot)
       /\ IF BufferTooSmall(e, debug, max)
          THEN /\ NothingStarted /\ Fail
               /\ UNCHANGED << enc, main, jpg, app >>
          ELSE /\ app' = Written(e, debug, max)
               /\ IF Mismatched(thumb)
                  THEN NothingStarted /\ Fail /\ main' = SetJpegBuffer(main) /\ UNCHANGED << enc, jpg >>
                  ELSE \E fail \in MainFailures : Start(max, thumb, fail)
       /\ UNCHANGED << btb, sub, shot, given, img >>

-----------------------------------------------------------------------------
(* CompressThumbnailOnly: what a thread does with the second compressor.   *)

Done(t, len) == [ task EXCEPT ![t] = [ @ EXCEPT !.at = "done", !.len = len ] ]

\* Formats, buffers and queues the thumbnail image.  A generated image is a
\* dma-buf; the client's is what the picture is.
ThumbQueue(t) ==
    /\ task[t].at = "queue"
    /\ \E fail \in SubFailures :
         LET format == SetImageFormat(sub, enc.thumb, 0, fail)
             source == SetJpegBuffer(SetImageBuffer(format.dev, task[t].kind))
             run == Compress(source, IF jpg.size = 0 THEN "qbuf_dst" ELSE fail)
         IN IF format.ok
            THEN /\ sub' = run.dev
                 /\ task' = IF run.ok THEN [ task EXCEPT ![t].at = "wait" ] ELSE Done(t, 0)
            ELSE sub' = format.dev /\ task' = Done(t, 0)
    /\ UNCHANGED << btb, enc, main, shot, given, img, jpg, app, pc, job, out, orphaned >>

\* Waits for the device, with a lower quality again while the stream is too
\* long for its place.
ThumbWait(t) ==
    /\ task[t].at = "wait"
    /\ \E fail \in SubFailures \cap {"none", "error"} :
         LET run == DQBuf(sub, fail)
         IN /\ sub' = run.dev
            /\ jpg' = [ jpg EXCEPT !.of = task[t].of ]
            /\ \E len \in {0} \cup { n \in ThumbLengths : n <= task[t].limit } :
                 /\ ~run.ok => len = 0
                 /\ task' = Done(t, len)
    /\ UNCHANGED << btb, enc, main, shot, given, img, app, pc, job, out, orphaned >>

\* MUTANT: an image buffer that is large enough is not filled again.
Scaled_Cached(enough) ==
    IF enough /\ img.of # 0 THEN img ELSE [ size |-> enc.thumb, of |-> shot ]

\* The thumbnail image buffer after the scaler ran.
Scaled(enough) == [ size |-> IF enough THEN img.size ELSE enc.thumb, of |-> shot ]

\* The worker: GenerateThumbnailImage, with AllocThumbBuffer, which looks at
\* the stream buffer only when it makes a new image buffer.
Scale(t) ==
    /\ task[t].at = "scale"
    /\ \E noMemory, noScaler \in BOOLEAN :
         LET enough == img.size > 0 /\ img.size >= enc.thumb
             stream == IF enough THEN jpg ELSE AllocThumbJpegBuffer(enc.thumb, noMemory)
         IN /\ jpg' = stream
            /\ IF ~enough /\ stream.size = 0
               THEN img' = [ size |-> enc.thumb, of |-> 0 ] /\ task' = Done(t, 0)
               ELSE IF noScaler
                    THEN /\ img' = IF enough THEN img ELSE [ size |-> enc.thumb, of |-> 0 ]
                         /\ task' = Done(t, 0)
                    ELSE /\ img' = Scaled(enough)
                         /\ task' = [ task EXCEPT ![t] =
                                        [ @ EXCEPT !.at = "queue", !.kind = "dma",
                                                   !.of = Scaled(enough).of, !.limit = szMaxThumb(app.exif) ] ]
    /\ UNCHANGED << btb, enc, main, sub, shot, given, app, pc, job, out, orphaned >>

-----------------------------------------------------------------------------
(* FinishCompression, in encode or, after a compression that did not block, *)
(* in WaitForCompression.                                                   *)

\* The device has compressed the picture, or failed.
DeviceDone ==
    /\ pc = "device"
    /\ \E fail \in MainFailures \cap {"none", "error"}, len \in {MainLength, job.max - app.main} :
         LET run == DQBuf(main, fail)
             room == Least(len, job.max - app.main)
         IN /\ main' = run.dev
            /\ IF ~run.ok
               THEN /\ Fail /\ jpg' = jpg
                    /\ orphaned' = (orphaned \/ job.worker # Client)
               ELSE /\ pc' = "joining" /\ out' = out /\ orphaned' = orphaned
                    /\ IF IsB2BCompression(main)
                       THEN \E thumblen \in ThumbLengths :
                              /\ job' = [ job EXCEPT !.mainlen = room, !.thumblen = thumblen ]
                              /\ jpg' = [ jpg EXCEPT !.of = given ]
                       ELSE /\ job' = [ job EXCEPT !.mainlen = room ]
                            /\ jpg' = jpg
    /\ UNCHANGED << btb, enc, sub, shot, given, img, app, task >>

\* What is left for the thumbnail: max_thumb.
MaxThumbLength ==
    LET left == job.max - CalculateAPPSize(app.exif, app.debug, app.app1End, app.szApp11, 0)
                        - job.mainlen
    IN IF left < 0 THEN szMaxThumb(app.exif) ELSE Least(szMaxThumb(app.exif), left)

ClientTask(limit) ==
    [ at |-> "queue", kind |-> enc.inType, len |-> 0, limit |-> limit,
      of |-> IF IsThumbGenerationNeeded THEN img.of ELSE given ]

\* pthread_join, or the compression of the client's thumbnail image when the
\* device did not do it in one go.
Join ==
    /\ pc = "joining"
    /\ \/ /\ job.thumb /\ IsThumbGenerationNeeded
          /\ task[job.worker].at = "done"
          /\ job' = [ job EXCEPT !.thumblen = task[job.worker].len, !.worker = Client ]
          /\ task' = [ task EXCEPT ![job.worker] = Idle ]
          /\ pc' = "placing"
       \/ /\ job.thumb /\ ~IsThumbGenerationNeeded /\ ~btb
          /\ task' = [ task EXCEPT ![Client] = ClientTask(szMaxThumb(app.exif)) ]
          /\ pc' = "separate" /\ job' = job
       \/ /\ job.thumb => ~IsThumbGenerationNeeded /\ btb
          /\ pc' = "placing"
          /\ UNCHANGED << task, job >>
    /\ UNCHANGED << btb, enc, main, sub, shot, given, img, jpg, app, out, orphaned >>

\* A thumbnail that does not fit is compressed once more.
Retry ==
    /\ pc = "placing" /\ job.thumb /\ job.thumblen > MaxThumbLength
    /\ task' = [ task EXCEPT ![Client] = ClientTask(MaxThumbLength) ]
    /\ pc' = "retry"
    /\ UNCHANGED << btb, enc, main, sub, shot, given, img, jpg, app, job, out, orphaned >>

Compressed ==
    /\ pc \in {"separate", "retry"} /\ task[Client].at = "done"
    /\ task' = [ task EXCEPT ![Client] = Idle ]
    /\ IF pc = "retry" /\ task[Client].len = 0
       THEN Fail
       ELSE /\ pc' = "placing" /\ out' = out
            /\ job' = [ job EXCEPT !.thumblen = task[Client].len ]
    /\ UNCHANGED << btb, enc, main, sub, shot, given, img, jpg, app, orphaned >>

\* MUTANT: APP1 keeps the length it was written with.
UpdateApp1Size_Never(a, thumblen) == a.len

\* UpdateApp1Size: without reserved room APP1 grows by the thumbnail.
UpdateApp1Size(a, thumblen) == szApp1(a.exif) + thumblen

\* The picture as it is answered.  Without reserved room everything behind
\* APP1 moves up to make room for the thumbnail.
Picture ==
    LET thumblen == IF job.thumb THEN job.thumblen ELSE 0
        moved == IF job.thumb /\ ~app.reserved THEN thumblen ELSE 0
    IN [ ok |-> TRUE, shot |-> shot, max |-> job.max, exif |-> app.exif, debug |-> app.debug,
         szApp11 |-> app.szApp11,
         len |-> IF job.thumb /\ ~app.reserved THEN UpdateApp1Size(app, thumblen) ELSE app.len,
         app1End |-> app.app1End + moved,
         thumb |-> IF thumblen > 0 THEN jpg.of ELSE 0,
         thumbAt |-> IF thumblen > 0 THEN ThumbBase(app.exif) ELSE 0,
         thumblen |-> thumblen,
         main |-> app.main + moved, mainlen |-> job.mainlen,
         size |-> CalculateAPPSize(app.exif, app.debug, app.app1End, app.szApp11, thumblen)
                  + job.mainlen ]

\* The picture's SOI takes the place of what the device wrote only when the
\* thumbnail, moved or not, ends inside the stream buffer.
Place ==
    /\ pc = "placing" /\ ~(job.thumb /\ job.thumblen > MaxThumbLength)
    /\ IF job.thumb /\ ~app.reserved
          /\ job.max < app.main + job.mainlen + job.thumblen - Marker
       THEN Fail
       ELSE pc' = "idle" /\ job' = NoJob /\ out' = Picture
    /\ UNCHANGED << btb, enc, main, sub, shot, given, img, jpg, app, task, orphaned >>

-----------------------------------------------------------------------------
\* m_szApp11 is read before it was ever written: it holds anything.
Init ==
    /\ btb \in BOOLEAN
    /\ enc = [ size |-> 0, thumb |-> 0, nogen |-> FALSE, inType |-> "user",
               thumbType |-> "none",
               pending |-> {"size"} \cup (IF btb THEN {"thumb"} ELSE {}) ]
    /\ main = NewDevice /\ sub = NewDevice
    /\ shot = 0 /\ given = 0
    /\ img = [ size |-> 0, of |-> 0 ] /\ jpg = [ size |-> 0, of |-> 0 ]
    /\ \E left \in {0, 65535} :
         app = [ exif |-> NoExif, debug |-> << >>, app1End |-> 0, szApp11 |-> left,
                 main |-> 0, reserved |-> FALSE, len |-> 0 ]
    /\ task = [ t \in Threads |-> Idle ]
    /\ pc = "idle" /\ job = NoJob /\ out = NoPicture /\ orphaned = FALSE

Setter ==
    \/ \E w \in MainSizes : SetSize(w)
    \/ \E w \in Sizes : SetThumbnailSize(w)
    \/ \E kind \in Kinds : SetInBuf(kind) \/ SetInBuf2(kind)

Thread == \E t \in Threads : Scale(t) \/ ThumbQueue(t) \/ ThumbWait(t)

Next ==
    \/ Setter
    \/ \E r \in Requests : Encode(r.exif, r.debug, r.max)
    \/ Thread \/ DeviceDone \/ Join \/ Retry \/ Compressed \/ Place

Spec == Init /\ [][Next]_vars

-----------------------------------------------------------------------------
(* Type correctness; a worker exists only while its picture is encoded, or  *)
(* when the call that started it failed.                                    *)
TypeOK ==
    /\ \A t \in Workers : task[t] # Idle => t = job.worker \/ orphaned
    /\ main \in Devices /\ sub \in Devices
    /\ enc.pending \subseteq {"size", "thumb"}
    /\ enc.inType \in Kinds /\ enc.thumbType \in Kinds \cup {"none"}
    /\ img \in Buffers /\ jpg \in Buffers
    /\ shot \in 0..MaxShots /\ given \in 0..shot
    /\ pc \in {"idle", "device", "joining", "separate", "retry", "placing"}
    /\ \A t \in Threads : task[t].at \in {"none", "scale", "queue", "wait", "done"}
    /\ orphaned \in BOOLEAN

(* A thumbnail in an answered picture shows the picture it is in.  The      *)
(* worker, the device and the client's own retry all write one stream      *)
(* buffer, which outlives the picture, and each of their steps may fail    *)
(* (GenerateThumbnailImage, CompressThumbnailOnly, FinishCompression).  It  *)
(* does not hold of an encoder one of whose calls failed with its worker   *)
(* still running.                                                          *)
EmbeddedIsOwn == out.ok /\ out.thumb # 0 /\ ~orphaned => out.thumb = out.shot

(* An answered picture fits its buffer and its parts fit each other: APP1's *)
(* length leads past the thumbnail to the next marker, the thumbnail lies   *)
(* between the end of its directory and the end of APP1, and the picture's  *)
(* own stream is the last thing in it (Write, UpdateApp1Size,               *)
(* FinishCompression's memmove and CalculateAPPSize).  So the owner of the  *)
(* picture can write attributes of the same lengths anew: UpdateExif leaves *)
(* the thumbnail alone.                                                     *)
PartsFit ==
    out.ok =>
        /\ Has(out.exif) => out.app1End = 2 * Marker + out.len
        /\ out.len < 65536
        /\ out.thumb # 0 => /\ out.thumbAt = Marker + WriteAPP1(out.exif)
                            /\ out.thumbAt + out.thumblen <= out.app1End
        /\ out.app1End <= out.main + Marker
        /\ out.size = out.main + out.mainlen
        /\ out.size <= out.max
        /\ Has(out.exif) =>
              UpdateExif(out.exif, out.size, out.len)
                  \in 1..(IF out.thumb = 0 THEN out.app1End ELSE out.thumbAt - Size1st)

(* An answered picture is one chain of segments, in which UpdateDebugData   *)
(* finds every debug segment: the lengths it walks by are those Write,      *)
(* WriteAPP11 and UpdateApp1Size left, and it may not stop for want of      *)
(* bytes or of a marker before the last of them.                            *)
DebugDataIsFound ==
    out.ok =>
        UpdateDebugData(Segments(out.exif, out.debug, out.len, out.app1End, out.szApp11),
                        out.size, out.debug)
            = [ ok |-> TRUE, written |-> { FirstExtra + i - 1 : i \in DOMAIN out.debug } ]

(* The two together: whoever reads or updates an answered picture by its    *)
(* lengths arrives where encode wrote.                                      *)
PictureIsWhole == PartsFit /\ DebugDataIsFound

(* Outside a call a compressor's driver has an image queued exactly when it  *)
(* has a stream buffer queued, and buffers exactly when the compressor      *)
(* thinks so, whichever ioctl failed (QBuf, ReqBufs, StopStreaming).        *)
QueuedTogether ==
    \A d \in {main, sub} : /\ d.drv.queue \in {{}, Ends}
                           /\ d.drv.bufs = {} <=> "reqbufs" \notin d.flags
                           /\ d.drv.queue # {} => d.drv.on = Ends
=============================================================================

----------------------------- MODULE JpegDecoder -----------------------------
(***************************************************************************)
(* The decompressor of the JPEG library: CLibhwjpegDecompressor, which     *)
(* keeps the source, parses its header and announces the size of the       *)
(* image, and the CHWJpegV4L2Decompressor below it, which keeps the format *)
(* and the two V4L2 queues.  A client calls in any order, also after a     *)
(* call that failed.                                                       *)
(*                                                                         *)
(* A source is a file, a dma-buf or memory of the client, with one of      *)
(* Contents in it; a file and a dma-buf are mapped.  The kernel's side is  *)
(* what is mapped, and what the driver holds.  STREAMOFF and REQBUFS(0) do *)
(* not fail, and DQBUF gives a buffer back even when the decoding failed.  *)
(***************************************************************************)
EXTENDS Integers, Sequences, Bags, FiniteSetsExt

CONSTANTS Contents,           \* the JPEG streams: their markers, header and length
          Dummies,            \* the spare bytes behind a stream
          Factors,            \* what clients give as downscaling factor
          Lengths,            \* the lengths of image buffers
          None

Kinds == {"user", "dma"}      \* V4L2_MEMORY_USERPTR, V4L2_MEMORY_DMABUF

Sources == {"file", "dma", "mem"}

Markers == {"SOF0", "SOFn", "EOI", "DNL", "segment", "broken"}

Headers == [ bits : Nat, width : Nat, height : Nat, components : Nat, h : Nat, v : Nat ]

ASSUME JpegDecoderAssumption ==
    /\ \A c \in Contents : /\ c.soi \in BOOLEAN /\ c.markers \in Seq(Markers)
                           /\ c.frame \in Headers /\ c.len \in Nat
    /\ Dummies \subseteq Nat /\ Factors \subseteq Nat /\ Lengths \subseteq Nat

PixelBytes == [ RGB32 |-> 4, RGB565 |-> 2 ]

PixelFormats == DOMAIN PixelBytes

VARIABLES
    dec,        \* the decompressor and its public fields
    dev,        \* its device object
    drv,        \* the driver's queues
    maps,       \* the mappings of this process, a bag
    stray,      \* something was unmapped that was not mapped so
    result      \* what the last call did, when it was a start_decompress that succeeded

vars == << dec, dev, drv, maps, stray, result >>

-----------------------------------------------------------------------------
\* ParseFrame: the frame header that the hardware can decode.
ParseFrame(frame) ==
    /\ frame.bits = 8
    /\ frame.height \in 8..16383
    /\ frame.width \in 8..16383
    /\ frame.components = 3
    /\ frame.h \in {1, 2}
    /\ frame.v \in {1, 2}

\* Parse: segments are skipped up to the frame header, which has to be
\* baseline; anything else ends the search.
Parse(content) ==
    LET found == { i \in DOMAIN content.markers : content.markers[i] # "segment" }
    IN /\ content.soi
       /\ found # {}
       /\ content.markers[Min(found)] = "SOF0"
       /\ ParseFrame(content.frame)

-----------------------------------------------------------------------------
NewDecompressor ==
    [ buffer |-> None, munmap |-> FALSE, prepared |-> FALSE, scale |-> 1,
      format |-> "RGB32", image |-> None, width |-> 0, height |-> 0 ]

NewDevice ==
    [ fmt |-> None, kind |-> "user", length |-> 0, capture |-> FALSE, output |-> FALSE ]

NewDriver == [ fmt |-> None, kind |-> "user", bufs |-> {}, on |-> {}, queue |-> {} ]

Init ==
    /\ dec = NewDecompressor
    /\ dev = NewDevice
    /\ drv = NewDriver
    /\ maps = EmptyBag
    /\ stray = FALSE
    /\ result = None

-----------------------------------------------------------------------------
(* The sources. *)

Buffer(source, content, dummy) ==
    [ source |-> source, content |-> content, len |-> content.len, dummy |-> dummy ]

\* A mapping as its owner will name it to munmap.
Mapping(buffer) == << buffer.source, buffer.content, buffer.len + buffer.dummy >>

\* The mappings after the old source is given up, which every change of source
\* does first.
Unmapped == IF dec.munmap THEN maps (-) SetToBag({Mapping(dec.buffer)}) ELSE maps

Strays == dec.munmap /\ ~BagIn(Mapping(dec.buffer), maps)

\* SetStreamPath: when the file does not open the client's memory stays the
\* source and stays prepared; a mapped source is gone by then.
SetStreamPath(content, fail) ==
    LET buffer == Buffer("file", content, 0)
    IN /\ stray' = (stray \/ Strays)
       /\ \/ /\ fail = "open"
             /\ dec' = IF dec.munmap
                       THEN [ dec EXCEPT !.buffer = None, !.munmap = FALSE ]
                       ELSE dec
             /\ maps' = Unmapped
          \/ /\ fail = "mmap"
             /\ dec' = [ dec EXCEPT !.buffer = None, !.munmap = FALSE ]
             /\ maps' = Unmapped
          \/ /\ fail = "none"
             /\ dec' = [ dec EXCEPT !.buffer = buffer, !.munmap = TRUE,
                                    !.prepared = FALSE ]
             /\ maps' = Unmapped (+) SetToBag({Mapping(buffer)})
       /\ result' = None
       /\ UNCHANGED << dev, drv >>

\* MUTANT: the header of the last source counts for the new one.
SetStreamMemory_KeepsPrepared(content, dummy) ==
    /\ stray' = (stray \/ Strays)
    /\ dec' = [ dec EXCEPT !.buffer = Buffer("mem", content, dummy), !.munmap = FALSE ]
    /\ maps' = Unmapped
    /\ result' = None
    /\ UNCHANGED << dev, drv >>

\* MUTANT: the client's memory counts as mapped.
SetStreamMemory_KeepsFlag(content, dummy) ==
    /\ stray' = (stray \/ Strays)
    /\ dec' = [ dec EXCEPT !.buffer = Buffer("mem", content, dummy), !.prepared = FALSE ]
    /\ maps' = Unmapped
    /\ result' = None
    /\ UNCHANGED << dev, drv >>

\* SetStreamBuffer of memory of the client's.
SetStreamMemory(content, dummy) ==
    /\ stray' = (stray \/ Strays)
    /\ dec' = [ dec EXCEPT !.buffer = Buffer("mem", content, dummy), !.munmap = FALSE,
                           !.prepared = FALSE ]
    /\ maps' = Unmapped
    /\ result' = None
    /\ UNCHANGED << dev, drv >>

\* SetStreamBuffer of a dma-buf.
SetStreamDmabuf(content, dummy, fail) ==
    LET buffer == Buffer("dma", content, dummy)
    IN /\ stray' = (stray \/ Strays)
       /\ \/ /\ fail = "mmap"
             /\ dec' = [ dec EXCEPT !.buffer = None, !.munmap = FALSE ]
             /\ maps' = Unmapped
          \/ /\ fail = "none"
             /\ dec' = [ dec EXCEPT !.buffer = buffer, !.munmap = TRUE,
                                    !.prepared = FALSE ]
             /\ maps' = Unmapped (+) SetToBag({Mapping(buffer)})
       /\ result' = None
       /\ UNCHANGED << dev, drv >>

-----------------------------------------------------------------------------
(* What the client configures. *)

SetImageBuffer(kind, length) ==
    /\ dev' = [ dev EXCEPT !.kind = kind, !.length = length ]
    /\ result' = None
    /\ UNCHANGED << dec, drv, maps, stray >>

SetDownscaleFactor(factor) ==
    /\ dec' = [ dec EXCEPT !.scale = factor ]
    /\ result' = None
    /\ UNCHANGED << dev, drv, maps, stray >>

ConfigImageFormat(format) ==
    /\ dec' = [ dec EXCEPT !.format = format ]
    /\ result' = None
    /\ UNCHANGED << dev, drv, maps, stray >>

-----------------------------------------------------------------------------
(* hwjpeg_read_header. *)

\* What CancelCapture leaves of the driver's queues.
WithoutCapture(queues) ==
    [ queues EXCEPT !.bufs = @ \ {"image"}, !.on = @ \ {"image"}, !.queue = @ \ {"image"} ]

CancelCapture == IF dev.capture THEN WithoutCapture(drv) ELSE drv

\* SetImageFormat: a format that the driver refuses is kept, without a size,
\* and taken for configured from then on.
SetImageFormat(format, width, height, fail) ==
    LET fmt == [ format |-> format, width |-> width, height |-> height,
                 sizeimage |-> PixelBytes[format] * width * height ]
        same == /\ dev.fmt # None
                /\ << dev.fmt.format, dev.fmt.width, dev.fmt.height >>
                       = << format, width, height >>
    IN IF same
       THEN UNCHANGED << dev, drv >>
       ELSE /\ dev' = [ dev EXCEPT !.capture = FALSE,
                                   !.fmt = IF fail = "s_fmt"
                                           THEN [ fmt EXCEPT !.sizeimage = 0 ]
                                           ELSE fmt ]
            /\ drv' = IF fail = "s_fmt" THEN CancelCapture
                                        ELSE [ CancelCapture EXCEPT !.fmt = fmt ]

\* Whether SetImageFormat returns true.
FormatIsSet(format, width, height, fail) ==
    \/ fail # "s_fmt"
    \/ /\ dev.fmt # None
       /\ << dev.fmt.format, dev.fmt.width, dev.fmt.height >> = << format, width, height >>

Divides(frame, scale) ==
    /\ frame.width % (frame.h * scale) = 0
    /\ frame.height % (frame.v * scale) = 0

\* PrepareDecompression: a failure leaves what was prepared before in force.
PrepareDecompression(fail) ==
    /\ IF dec.scale \notin {1, 2, 4, 8} \/ dec.buffer = None
       THEN UNCHANGED << dec, dev, drv >>
       ELSE IF ~Parse(dec.buffer.content)
       THEN UNCHANGED << dec, dev, drv >>
       ELSE LET frame == dec.buffer.content.frame
                width == frame.width \div dec.scale
                height == frame.height \div dec.scale
            IN IF ~Divides(frame, dec.scale)
               THEN /\ dec' = [ dec EXCEPT !.image = frame ]
                    /\ UNCHANGED << dev, drv >>
               ELSE /\ dec' = [ dec EXCEPT !.image = frame, !.width = width,
                                           !.height = height,
                                           !.prepared = \/ @
                                                        \/ FormatIsSet(dec.format, width,
                                                                       height, fail) ]
                    /\ SetImageFormat(dec.format, width, height, fail)
    /\ result' = None
    /\ UNCHANGED << maps, stray >>

-----------------------------------------------------------------------------
(* hwjpeg_start_decompress, as functions of the pair of device and driver. *)

\* PrepareCapture: the length is tested for every picture, the buffers are
\* requested once for a format.
PrepareCapture(pair, fail) ==
    IF pair.dev.length < pair.dev.fmt.sizeimage
    THEN [ pair EXCEPT !.ok = FALSE ]
    ELSE IF pair.dev.capture
    THEN [ pair EXCEPT !.ok = TRUE ]
    ELSE IF fail \in {"reqbufs_image", "streamon_image"}
    THEN [ pair EXCEPT !.ok = FALSE ]
    ELSE [ dev |-> [ pair.dev EXCEPT !.capture = TRUE ],
           drv |-> [ pair.drv EXCEPT !.bufs = @ \cup {"image"}, !.on = @ \cup {"image"},
                                     !.kind = pair.dev.kind ],
           ok |-> TRUE ]

\* PrepareStream: the driver asks for a format before its buffers.
PrepareStream(pair, fail) ==
    IF pair.dev.output
    THEN [ pair EXCEPT !.ok = TRUE ]
    ELSE IF fail \in {"reqbufs_stream", "streamon_stream"} \/ pair.drv.fmt = None
    THEN [ pair EXCEPT !.ok = FALSE ]
    ELSE [ dev |-> [ pair.dev EXCEPT !.output = TRUE ],
           drv |-> [ pair.drv EXCEPT !.bufs = @ \cup {"stream"}, !.on = @ \cup {"stream"} ],
           ok |-> TRUE ]

CancelStream(pair) ==
    [ dev |-> [ pair.dev EXCEPT !.output = FALSE ],
      drv |-> [ pair.drv EXCEPT !.bufs = @ \ {"stream"}, !.on = @ \ {"stream"},
                                !.queue = @ \ {"stream"} ],
      ok |-> FALSE ]

\* The hardware halves at most three times.
Decodes(frame, fmt) ==
    \E scale \in {1, 2, 4, 8} : /\ frame.width = fmt.width * scale
                                /\ frame.height = fmt.height * scale

\* MUTANT: the stream stays queued when the image is refused.
QBufAndWait_LeavesStream(pair, fail) ==
    IF fail = "qbuf_stream" \/ dec.buffer = None \/ "stream" \in pair.drv.queue
    THEN [ pair EXCEPT !.ok = FALSE ]
    ELSE IF fail = "qbuf_image" \/ pair.dev.kind # pair.drv.kind
    THEN [ pair EXCEPT !.drv.queue = @ \cup {"stream"}, !.ok = FALSE ]
    ELSE [ pair EXCEPT !.drv.queue = {},
                       !.ok = /\ fail # "dqbuf"
                              /\ Decodes(dec.buffer.content.frame, pair.drv.fmt) ]

\* QBufAndWait: the driver refuses NULL and memory of another kind than its
\* buffers have; when it refuses the image the stream is taken back.
QBufAndWait(pair, fail) ==
    IF fail = "qbuf_stream" \/ dec.buffer = None \/ "stream" \in pair.drv.queue
    THEN [ pair EXCEPT !.ok = FALSE ]
    ELSE IF fail = "qbuf_image" \/ pair.dev.kind # pair.drv.kind
    THEN CancelStream([ pair EXCEPT !.drv.queue = @ \cup {"stream"} ])
    ELSE [ pair EXCEPT !.drv.queue = {},
                       !.ok = /\ fail # "dqbuf"
                              /\ Decodes(dec.buffer.content.frame, pair.drv.fmt) ]

\* CHWJpegV4L2Decompressor::Decompress
DeviceDecompress(fail) ==
    LET pair == [ dev |-> dev, drv |-> drv, ok |-> FALSE ]
        capture == PrepareCapture(pair, fail)
        stream == PrepareStream(capture, fail)
    IN IF dev.fmt = None \/ dev.length = 0 THEN pair
       ELSE IF ~capture.ok THEN capture
       ELSE IF ~stream.ok THEN stream
       ELSE QBufAndWait(stream, fail)

\* CLibhwjpegDecompressor::Decompress: one picture for each header read.
Decompress(fail) ==
    /\ IF ~dec.prepared
       THEN /\ result' = None
            /\ UNCHANGED << dec, dev, drv >>
       ELSE LET after == DeviceDecompress(fail)
            IN /\ dec' = [ dec EXCEPT !.prepared = FALSE ]
               /\ dev' = after.dev
               /\ drv' = after.drv
               /\ result' = IF after.ok
                            THEN [ decoded |-> dec.buffer.content.frame,
                                   asked |-> dev.fmt,
                                   written |-> drv.fmt,
                                   length |-> dev.length,
                                   image |-> dec.image,
                                   size |-> << dec.width, dec.height >> ]
                            ELSE None
    /\ UNCHANGED << maps, stray >>

\* hwjpeg_destroy_decompress, and a new one in its place: the capture queue is
\* cancelled, and closing the device frees the rest.
Destroy ==
    /\ maps' = Unmapped
    /\ stray' = (stray \/ Strays)
    /\ dec' = NewDecompressor
    /\ dev' = NewDevice
    /\ drv' = NewDriver
    /\ result' = None

-----------------------------------------------------------------------------
ReadFailures == {"none", "s_fmt"}

StartFailures == {"none", "reqbufs_image", "streamon_image", "reqbufs_stream",
                  "streamon_stream", "qbuf_stream", "qbuf_image", "dqbuf"}

Next ==
    \/ \E content \in Contents, fail \in {"none", "open", "mmap"} :
           SetStreamPath(content, fail)
    \/ \E content \in Contents, dummy \in Dummies : SetStreamMemory(content, dummy)
    \/ \E content \in Contents, dummy \in Dummies, fail \in {"none", "mmap"} :
           SetStreamDmabuf(content, dummy, fail)
    \/ \E kind \in Kinds, length \in Lengths : SetImageBuffer(kind, length)
    \/ \E factor \in Factors : SetDownscaleFactor(factor)
    \/ \E format \in PixelFormats : ConfigImageFormat(format)
    \/ \E fail \in ReadFailures : PrepareDecompression(fail)
    \/ \E fail \in StartFailures : Decompress(fail)
    \/ Destroy

Spec == Init /\ [][Next]_vars

-----------------------------------------------------------------------------
\* A picture that start_decompress reports is of the stream whose header the
\* fields describe, in the size they announce, and fits the buffer it was
\* written to, whatever was set, tried and refused since, unless the driver
\* refused a format and the library took it for configured.
DecodedAsAnnounced ==
    result # None /\ result.asked = result.written =>
        /\ result.image = result.decoded
        /\ result.size = << result.written.width, result.written.height >>
        /\ result.written.sizeimage <= result.length

\* What is mapped is the source that munmap will be given, and nothing else
\* ever was: no source is left mapped by its successor, by a failure or by
\* destroy, and the client's memory is never unmapped.
MapsAreOwned ==
    /\ ~stray
    /\ maps = IF dec.munmap THEN SetToBag({Mapping(dec.buffer)}) ELSE EmptyBag

\* Between calls the driver holds buffers and streams where the library
\* believes so and nowhere else, and no buffer is left queued, so that the
\* next picture can be queued whatever became of the last.
QueuesFollowFlags ==
    /\ drv.bufs = drv.on
    /\ drv.on = (IF dev.capture THEN {"image"} ELSE {})
                \cup (IF dev.output THEN {"stream"} ELSE {})
    /\ drv.queue = {}
=============================================================================

------------------------------ MODULE JpegDevice ------------------------------
(***************************************************************************)
(* A compressor of the JPEG library, CHWJpegV4L2Compressor: the flags it   *)
(* keeps about its V4L2 queue pair and the queue pair itself.  Every       *)
(* operation is a function of the compressor; Compress takes the ioctl     *)
(* that fails, "none" when none does.  REQBUFS(0), STREAMOFF and           *)
(* S_EXT_CTRLS do not fail, and DQBUF gives the buffers back even when the *)
(* compression failed.                                                     *)
(***************************************************************************)
EXTENDS Integers, FiniteSets

CONSTANT Sizes                \* the sizes of an image; 0 is none

Kinds == {"user", "dma"}      \* V4L2_MEMORY_USERPTR, V4L2_MEMORY_DMABUF

Ends == {"src", "dst"}        \* the image queue and the stream queue

Flags == {"pixfmt", "src", "src2", "dst", "dst2", "reqbufs", "streaming", "queued"}

Formats == [ main : Sizes, thumb : Sizes ]

\* What the driver holds: the format, the kind of memory its buffers are of,
\* and the ends that have buffers, stream, and have a buffer queued.
Drivers == [ fmt : Formats, kind : Kinds, bufs : SUBSET Ends, on : SUBSET Ends,
             queue : SUBSET Ends ]

Devices == [ fmt : Formats, kind : Kinds, flags : SUBSET Flags, drv : Drivers ]

Failures == {"none", "try", "format", "reqbufs_src", "reqbufs_dst", "streamon",
             "qbuf_src", "qbuf_dst", "error"}

NewDevice ==
    LET fmt == [ main |-> 0, thumb |-> 0 ]
    IN [ fmt |-> fmt, kind |-> "user", flags |-> {"pixfmt"},
         drv |-> [ fmt |-> fmt, kind |-> "user", bufs |-> {}, on |-> {}, queue |-> {} ] ]

Set(d, flag) == [ d EXCEPT !.flags = @ \cup {flag} ]

IsB2BCompression(d) == d.fmt.thumb # 0

-----------------------------------------------------------------------------
\* SetImageFormat: the format is kept even when the driver refuses to try it,
\* so that the same call again succeeds.
SetImageFormat(d, main, thumb, fail) ==
    LET fmt == [ main |-> main, thumb |-> thumb ]
    IN IF d.fmt = fmt
       THEN [ dev |-> d, ok |-> TRUE ]
       ELSE [ dev |-> Set([ d EXCEPT !.fmt = fmt ], "pixfmt"), ok |-> fail # "try" ]

SetImageBuffer(d, kind) == Set([ d EXCEPT !.kind = kind ], "src")

SetImageBuffer2(d) == Set(d, "src2")

SetJpegBuffer(d) == Set(d, "dst")

SetJpegBuffer2(d) == Set(d, "dst2")

\* StopStreaming: streaming off gives back what is queued.
StopStreaming(d) ==
    [ d EXCEPT !.flags = @ \ {"streaming", "queued", "reqbufs"},
               !.drv.bufs = {}, !.drv.on = {}, !.drv.queue = {} ]

SetFormat(d, fail) ==
    IF "pixfmt" \notin d.flags
    THEN [ dev |-> d, ok |-> TRUE ]
    ELSE IF fail = "format"
         THEN [ dev |-> StopStreaming(d), ok |-> FALSE ]
         ELSE [ dev |-> [ StopStreaming(d) EXCEPT !.flags = @ \ {"pixfmt"},
                                                  !.drv.fmt = d.fmt ],
                ok |-> TRUE ]

\* ReqBufs: a failure on the stream's side frees the image's buffers again.
ReqBufs(d, fail) ==
    IF "reqbufs" \in d.flags
    THEN [ dev |-> d, ok |-> TRUE ]
    ELSE IF fail \in {"reqbufs_src", "reqbufs_dst"}
         THEN [ dev |-> d, ok |-> FALSE ]
         ELSE [ dev |-> [ Set(d, "reqbufs") EXCEPT !.drv.bufs = Ends, !.drv.kind = d.kind ],
                ok |-> TRUE ]

StreamOn(d, fail) ==
    IF "streaming" \in d.flags
    THEN [ dev |-> d, ok |-> TRUE ]
    ELSE IF fail = "streamon" \/ d.drv.bufs # Ends
         THEN [ dev |-> d, ok |-> FALSE ]
         ELSE [ dev |-> [ Set(d, "streaming") EXCEPT !.drv.on = Ends ], ok |-> TRUE ]

\* MUTANT: the image stays queued when the stream buffer is refused.
QBuf_LeavesImage(d, fail) ==
    IF fail = "qbuf_src" \/ d.kind # d.drv.kind \/ "src" \in d.drv.queue
    THEN [ dev |-> d, ok |-> FALSE ]
    ELSE LET half == [ d EXCEPT !.drv.queue = @ \cup {"src"} ]
         IN IF fail = "qbuf_dst" \/ "dst" \in d.drv.queue
            THEN [ dev |-> half, ok |-> FALSE ]
            ELSE [ dev |-> [ Set(half, "queued") EXCEPT !.drv.queue = Ends ], ok |-> TRUE ]

\* QBuf: the driver refuses memory of another kind than its buffers have, and
\* an image that is already queued.  When the stream's buffer is refused the
\* image's can only be taken back by stopping.
QBuf(d, fail) ==
    IF fail = "qbuf_src" \/ d.kind # d.drv.kind \/ "src" \in d.drv.queue
    THEN [ dev |-> d, ok |-> FALSE ]
    ELSE LET half == [ d EXCEPT !.drv.queue = @ \cup {"src"} ]
         IN IF fail = "qbuf_dst" \/ "dst" \in d.drv.queue
            THEN [ dev |-> StopStreaming(half), ok |-> FALSE ]
            ELSE [ dev |-> [ Set(half, "queued") EXCEPT !.drv.queue = Ends ], ok |-> TRUE ]

\* Compress, up to its wait for the device.
Compress(d, fail) ==
    LET formatted == SetFormat(d, fail)
        buffered == {"src", "dst"}
                    \cup (IF IsB2BCompression(d) THEN {"src2", "dst2"} ELSE {})
        ready == buffered \subseteq d.flags
        buffers == ReqBufs(formatted.dev, fail)
        stream == StreamOn(buffers.dev, fail)
    IN IF ~formatted.ok \/ ~ready THEN [ dev |-> formatted.dev, ok |-> FALSE ]
       ELSE IF ~buffers.ok THEN buffers
       ELSE IF ~stream.ok THEN stream
       ELSE QBuf(stream.dev, fail)

\* DQBuf: the wait for the device.
DQBuf(d, fail) ==
    [ dev |-> [ d EXCEPT !.flags = @ \ {"queued"}, !.drv.queue = {} ], ok |-> fail # "error" ]
=============================================================================

----------------------------- MODULE JpegProofs -----------------------------
(***************************************************************************)
(* The JPEG library, for any streams, sizes, requests and failures, and    *)
(* any order of calls, those after a failed call included: first what its  *)
(* decompressor answers, maps and holds of the driver (JpegDecoder), then  *)
(* what the two compressors of the encoder hold of theirs (JpegEncoder).   *)
(***************************************************************************)
EXTENDS JpegDecoder, TLAPS

\* The two V4L2 queues, and the shapes of the decompressor, device and driver.
Queues == {"image", "stream"}

Formats == [ format : PixelFormats, width : Nat, height : Nat, sizeimage : Nat ]

Buffers == [ source : Sources, content : Contents, len : Nat, dummy : Nat ]

Decompressors == [ buffer : Buffers \cup {None}, munmap : BOOLEAN, prepared : BOOLEAN,
                   scale : Nat, format : PixelFormats, image : Headers \cup {None},
                   width : Nat, height : Nat ]

Devices == [ fmt : Formats \cup {None}, kind : Kinds, length : Nat, capture : BOOLEAN,
             output : BOOLEAN ]

Drivers == [ fmt : Formats \cup {None}, kind : Kinds, bufs : SUBSET Queues,
             on : SUBSET Queues, queue : SUBSET Queues ]

TypesHold == dec \in Decompressors /\ dev \in Devices /\ drv \in Drivers

\* The device's flags tell what the driver has between the ioctls of a call.
Held(d) == (IF d.capture THEN {"image"} ELSE {}) \cup (IF d.output THEN {"stream"} ELSE {})

Follows(d, q) == q.bufs = q.on /\ q.on = Held(d) /\ q.queue = {}

\* While a header counts as read, the fields show it: the source has not been
\* replaced, and the size that was announced is that of the format that was
\* asked for, whether the driver took it or not.
HeaderInForce ==
    dec.prepared => /\ dec.buffer # None => dec.image = dec.buffer.content.frame
                    /\ dec.width = dev.fmt.width /\ dec.height = dev.fmt.height

IInv == TypesHold /\ QueuesFollowFlags /\ MapsAreOwned /\ HeaderInForce /\ DecodedAsAnnounced

-----------------------------------------------------------------------------
\* One mapping, made and given up.
LEMMA BagOfOne ==
    ASSUME NEW m
    PROVE  /\ EmptyBag (+) SetToBag({m}) = SetToBag({m})
           /\ SetToBag({m}) (-) SetToBag({m}) = EmptyBag
           /\ BagIn(m, SetToBag({m}))
<1>1. SetToBag({m}) = [ e \in {m} |-> 1 ]
  BY DEF SetToBag
<1>2. EmptyBag = [ e \in {} |-> 1 ]
  BY DEF EmptyBag, SetToBag
<1>3. EmptyBag (+) SetToBag({m}) = SetToBag({m})
  <2> DEFINE one == SetToBag({m})
  <2>1. /\ DOMAIN EmptyBag = {} /\ DOMAIN one = {m} /\ one[m] = 1
        /\ one = [ e \in {m} |-> 1 ]
    BY <1>1, <1>2
  <2> HIDE DEF one
  <2>2. EmptyBag (+) one = [ e \in DOMAIN EmptyBag \cup DOMAIN one |->
                               (IF e \in DOMAIN EmptyBag THEN EmptyBag[e] ELSE 0)
                               + (IF e \in DOMAIN one THEN one[e] ELSE 0) ]
    BY DEF (+)
  <2>3. EmptyBag (+) one = one
    BY <2>1, <2>2
  <2>4. QED
    BY <2>3 DEF one
<1>4. SetToBag({m}) (-) SetToBag({m}) = EmptyBag
  BY <1>1, <1>2 DEF (-)
<1>5. BagIn(m, SetToBag({m}))
  BY <1>1 DEF BagIn, BagToSet
<1>6. QED
  BY <1>3, <1>4, <1>5

\* A given-up source is unmapped once.
LEMMA GivenUp ==
    ASSUME MapsAreOwned
    PROVE  Unmapped = EmptyBag /\ ~Strays
<1>1. CASE dec.munmap
  BY <1>1, BagOfOne DEF MapsAreOwned, Unmapped, Strays
<1>2. CASE ~dec.munmap
  BY <1>2 DEF MapsAreOwned, Unmapped, Strays
<1>3. QED
  BY <1>1, <1>2

-----------------------------------------------------------------------------
\* A call that leaves the queues alone and reports no picture.
LEMMA SourceKeeps ==
    ASSUME IInv, result' = None, UNCHANGED << dev, drv >>, stray' = (stray \/ Strays),
           dec' \in Decompressors,
           \/ /\ dec' \in {dec, [ dec EXCEPT !.buffer = None, !.munmap = FALSE ]}
              /\ ~dec'.munmap /\ maps' = Unmapped
           \/ ~dec'.munmap /\ ~dec'.prepared /\ maps' = Unmapped
           \/ /\ dec'.munmap /\ ~dec'.prepared
              /\ maps' = Unmapped (+) SetToBag({Mapping(dec'.buffer)})
    PROVE  IInv'
<1>1. TypesHold' /\ QueuesFollowFlags'
  BY DEF IInv, TypesHold, QueuesFollowFlags
<1>2. MapsAreOwned'
  <2>1. Unmapped = EmptyBag /\ ~stray'
    BY GivenUp DEF IInv, MapsAreOwned
  <2>2. CASE ~dec'.munmap
    BY <2>1, <2>2 DEF MapsAreOwned
  <2>3. CASE dec'.munmap
    <3>1. maps' = SetToBag({Mapping(dec'.buffer)})
      BY <2>1, <2>3, BagOfOne
    <3>2. Mapping(dec.buffer)' = Mapping(dec'.buffer)
      BY DEF Mapping
    <3>3. QED
      BY <2>1, <2>3, <3>1, <3>2 DEF MapsAreOwned
  <2>4. QED
    BY <2>2, <2>3
<1>3. HeaderInForce'
  BY DEF IInv, TypesHold, Decompressors, HeaderInForce
<1>4. DecodedAsAnnounced'
  BY DEF DecodedAsAnnounced
<1>5. QED
  BY <1>1, <1>2, <1>3, <1>4 DEF IInv

\* A source of one of the contents.
LEMMA BufferTyped ==
    ASSUME NEW content \in Contents, NEW source \in Sources, NEW dummy \in Nat
    PROVE  Buffer(source, content, dummy) \in Buffers
BY JpegDecoderAssumption DEF Buffer, Buffers

\* A file is mapped or refused; a mapped source is given up in both cases.
LEMMA SetStreamPathKeeps ==
    ASSUME IInv, NEW content \in Contents, NEW fail, SetStreamPath(content, fail)
    PROVE  IInv'
<1> DEFINE buffer == Buffer("file", content, 0)
<1>1. buffer \in Buffers
  BY BufferTyped DEF Sources
<1> HIDE DEF buffer
<1>2. /\ stray' = (stray \/ Strays) /\ result' = None /\ UNCHANGED << dev, drv >>
      /\ \/ /\ dec' \in {dec, [ dec EXCEPT !.buffer = None, !.munmap = FALSE ]}
            /\ ~dec'.munmap /\ maps' = Unmapped
         \/ /\ dec' = [ dec EXCEPT !.buffer = buffer, !.munmap = TRUE, !.prepared = FALSE ]
            /\ maps' = Unmapped (+) SetToBag({Mapping(buffer)})
  BY DEF SetStreamPath, buffer, IInv, TypesHold, Decompressors
<1>3. QED
  BY <1>1, <1>2, SourceKeeps DEF IInv, TypesHold, Decompressors

\* The client's memory is not mapped, and the header is to be read anew.
LEMMA SetStreamMemoryKeeps ==
    ASSUME IInv, NEW content \in Contents, NEW dummy \in Dummies, SetStreamMemory(content, dummy)
    PROVE  IInv'
<1>1. Buffer("mem", content, dummy) \in Buffers
  BY BufferTyped, JpegDecoderAssumption DEF Sources
<1>2. QED
  BY <1>1, SourceKeeps DEF SetStreamMemory, IInv, TypesHold, Decompressors

\* A dma-buf that cannot be mapped leaves no source.
LEMMA SetStreamDmabufKeeps ==
    ASSUME IInv, NEW content \in Contents, NEW dummy \in Dummies, NEW fail,
           SetStreamDmabuf(content, dummy, fail)
    PROVE  IInv'
<1> DEFINE buffer == Buffer("dma", content, dummy)
<1>1. buffer \in Buffers
  BY BufferTyped, JpegDecoderAssumption DEF Sources
<1> HIDE DEF buffer
<1>2. /\ stray' = (stray \/ Strays) /\ result' = None /\ UNCHANGED << dev, drv >>
      /\ \/ /\ dec' = [ dec EXCEPT !.buffer = None, !.munmap = FALSE ]
            /\ maps' = Unmapped
         \/ /\ dec' = [ dec EXCEPT !.buffer = buffer, !.munmap = TRUE, !.prepared = FALSE ]
            /\ maps' = Unmapped (+) SetToBag({Mapping(buffer)})
  BY DEF SetStreamDmabuf, buffer
<1>3. QED
  BY <1>1, <1>2, SourceKeeps DEF IInv, TypesHold, Decompressors

\* A new decompressor after the old one has given up its mapping.
LEMMA DestroyKeeps ==
    ASSUME IInv, Destroy
    PROVE  IInv'
<1>1. TypesHold'
  BY DEF Destroy, TypesHold, NewDecompressor, NewDevice, NewDriver, Decompressors, Devices,
     Drivers, Kinds, PixelFormats, PixelBytes
<1>2. QueuesFollowFlags' /\ HeaderInForce' /\ DecodedAsAnnounced'
  BY DEF Destroy, NewDecompressor, NewDevice, NewDriver, QueuesFollowFlags, HeaderInForce,
     DecodedAsAnnounced
<1>3. MapsAreOwned'
  BY GivenUp DEF IInv, Destroy, NewDecompressor, MapsAreOwned
<1>4. QED
  BY <1>1, <1>2, <1>3 DEF IInv

\* The buffer and the settings of the client: what was announced stays.
LEMMA ConfigurationKeeps ==
    ASSUME IInv,
           \/ \E kind \in Kinds, length \in Lengths : SetImageBuffer(kind, length)
           \/ \E factor \in Factors : SetDownscaleFactor(factor)
           \/ \E format \in PixelFormats : ConfigImageFormat(format)
    PROVE  IInv'
<1>1. \/ /\ UNCHANGED << dec, drv, maps, stray >> /\ result' = None
         /\ \E kind \in Kinds, length \in Nat :
               dev' = [ dev EXCEPT !.kind = kind, !.length = length ]
      \/ /\ UNCHANGED << dev, drv, maps, stray >> /\ result' = None
         /\ \/ \E factor \in Nat : dec' = [ dec EXCEPT !.scale = factor ]
            \/ \E format \in PixelFormats : dec' = [ dec EXCEPT !.format = format ]
  BY JpegDecoderAssumption DEF SetImageBuffer, SetDownscaleFactor, ConfigImageFormat
<1>2. /\ TypesHold' /\ UNCHANGED << drv, maps, stray >> /\ result' = None
      /\ dec'.buffer = dec.buffer /\ dec'.munmap = dec.munmap /\ dec'.prepared = dec.prepared
      /\ dec'.image = dec.image /\ dec'.width = dec.width /\ dec'.height = dec.height
      /\ dev'.fmt = dev.fmt /\ dev'.capture = dev.capture /\ dev'.output = dev.output
  BY <1>1 DEF IInv, TypesHold, Decompressors, Devices
<1>3. MapsAreOwned'
  BY <1>2 DEF IInv, MapsAreOwned, Mapping
<1>4. QueuesFollowFlags' /\ HeaderInForce' /\ DecodedAsAnnounced'
  BY <1>2 DEF IInv, QueuesFollowFlags, HeaderInForce, DecodedAsAnnounced
<1>5. QED
  BY <1>2, <1>3, <1>4 DEF IInv

-----------------------------------------------------------------------------
(* Reading a header. *)

\* The size of an image.
LEMMA FormatTyped ==
    ASSUME NEW format \in PixelFormats, NEW width \in Nat, NEW height \in Nat
    PROVE  PixelBytes[format] * width * height \in Nat
<1>1. PixelBytes[format] \in Nat
  BY DEF PixelFormats, PixelBytes
<1>2. QED
  BY <1>1

\* A downscaled side.
LEMMA ReducedTyped ==
    ASSUME NEW n \in Nat, NEW k \in {1, 2, 4, 8}
    PROVE  n \div k \in Nat
OBVIOUS

\* The format that was asked for is kept, and the driver's buffers for the
\* image are given up with the flag.
LEMMA SetImageFormatKeeps ==
    ASSUME TypesHold, QueuesFollowFlags, NEW format \in PixelFormats, NEW width \in Nat,
           NEW height \in Nat, NEW fail, SetImageFormat(format, width, height, fail)
    PROVE  /\ dev' \in Devices /\ drv' \in Drivers /\ QueuesFollowFlags'
           /\ dev'.fmt.width = width /\ dev'.fmt.height = height
<1> DEFINE fmt == [ format |-> format, width |-> width, height |-> height,
                    sizeimage |-> PixelBytes[format] * width * height ]
<1>1. fmt \in Formats
  BY FormatTyped DEF Formats
<1>2. CASE /\ dev.fmt # None
           /\ << dev.fmt.format, dev.fmt.width, dev.fmt.height >> = << format, width, height >>
  BY <1>2 DEF SetImageFormat, TypesHold, QueuesFollowFlags
<1>3. CASE ~ /\ dev.fmt # None
             /\ << dev.fmt.format, dev.fmt.width, dev.fmt.height >> = << format, width, height >>
  <2> DEFINE f == IF fail = "s_fmt" THEN [ fmt EXCEPT !.sizeimage = 0 ] ELSE fmt
  <2>1. /\ dev' = [ dev EXCEPT !.capture = FALSE, !.fmt = f ]
        /\ drv' = IF fail = "s_fmt" THEN CancelCapture ELSE [ CancelCapture EXCEPT !.fmt = fmt ]
    BY <1>3 DEF SetImageFormat
  <2>2. f \in Formats /\ f.width = width /\ f.height = height
    BY <1>1 DEF Formats
  <2> HIDE DEF f, fmt
  <2>3. /\ CancelCapture \in Drivers /\ CancelCapture.bufs = CancelCapture.on
        /\ CancelCapture.on = (IF dev.output THEN {"stream"} ELSE {})
        /\ CancelCapture.queue = {}
    BY DEF CancelCapture, WithoutCapture, TypesHold, Drivers, Devices, QueuesFollowFlags, Queues
  <2>4. dev' \in Devices /\ dev'.fmt = f /\ ~dev'.capture /\ dev'.output = dev.output
    BY <2>1, <2>2 DEF TypesHold, Devices
  <2> HIDE DEF CancelCapture
  <2>5. /\ drv' \in Drivers /\ drv'.bufs = CancelCapture.bufs /\ drv'.on = CancelCapture.on
        /\ drv'.queue = CancelCapture.queue
    BY <1>1, <2>1, <2>3 DEF Drivers
  <2>6. QED
    BY <2>2, <2>3, <2>4, <2>5 DEF QueuesFollowFlags
<1>4. QED
  BY <1>2, <1>3

\* However far it gets, what it read is what it announces.
LEMMA PrepareDecompressionKeeps ==
    ASSUME IInv, NEW fail, PrepareDecompression(fail)
    PROVE  IInv'
<1> DEFINE frame == dec.buffer.content.frame
           width == frame.width \div dec.scale
           height == frame.height \div dec.scale
<1>1. /\ result' = None /\ UNCHANGED << maps, stray >>
      /\ \/ UNCHANGED << dec, dev, drv >>
         \/ /\ dec.scale \in {1, 2, 4, 8} /\ dec.buffer # None
            /\ dec' = [ dec EXCEPT !.image = frame ]
            /\ UNCHANGED << dev, drv >>
         \/ /\ dec.scale \in {1, 2, 4, 8} /\ dec.buffer # None
            /\ \E p \in BOOLEAN :
                  dec' = [ dec EXCEPT !.image = frame, !.width = width, !.height = height,
                                      !.prepared = p ]
            /\ SetImageFormat(dec.format, width, height, fail)
  BY DEF PrepareDecompression, IInv, TypesHold, Decompressors, FormatIsSet
<1>2. MapsAreOwned' /\ DecodedAsAnnounced'
  <2>1. dec'.buffer = dec.buffer /\ dec'.munmap = dec.munmap
    BY <1>1 DEF IInv, TypesHold, Decompressors
  <2>2. QED
    BY <1>1, <2>1 DEF IInv, MapsAreOwned, Mapping, DecodedAsAnnounced
<1>3. ASSUME dec.scale \in {1, 2, 4, 8}, dec.buffer # None
      PROVE  frame \in Headers /\ width \in Nat /\ height \in Nat
  <2>1. frame \in Headers
    BY <1>3, JpegDecoderAssumption DEF IInv, TypesHold, Decompressors, Buffers
  <2>2. frame.width \in Nat /\ frame.height \in Nat
    BY <2>1 DEF Headers
  <2>3. QED
    BY <1>3, <2>1, <2>2, ReducedTyped
<1>4. ASSUME UNCHANGED << dec, dev, drv >>
      PROVE  TypesHold' /\ QueuesFollowFlags' /\ HeaderInForce'
  BY <1>4 DEF IInv, TypesHold, QueuesFollowFlags, HeaderInForce
<1>5. ASSUME dec.scale \in {1, 2, 4, 8}, dec.buffer # None,
             dec' = [ dec EXCEPT !.image = frame ], UNCHANGED << dev, drv >>
      PROVE  TypesHold' /\ QueuesFollowFlags' /\ HeaderInForce'
  <2> HIDE DEF frame
  <2>1. dec' \in Decompressors /\ dec'.image = frame /\ dec'.buffer = dec.buffer
        /\ dec'.prepared = dec.prepared /\ dec'.width = dec.width /\ dec'.height = dec.height
    BY <1>3, <1>5 DEF IInv, TypesHold, Decompressors
  <2>2. QED
    BY <1>5, <2>1 DEF IInv, TypesHold, QueuesFollowFlags, HeaderInForce, frame
<1>6. ASSUME dec.scale \in {1, 2, 4, 8}, dec.buffer # None,
             NEW p \in BOOLEAN,
             dec' = [ dec EXCEPT !.image = frame, !.width = width, !.height = height,
                                 !.prepared = p ],
             SetImageFormat(dec.format, width, height, fail)
      PROVE  TypesHold' /\ QueuesFollowFlags' /\ HeaderInForce'
  <2>1. frame \in Headers /\ width \in Nat /\ height \in Nat
    BY <1>3, <1>6
  <2> HIDE DEF frame, width, height
  <2>2. dec' \in Decompressors /\ dec'.image = frame /\ dec'.buffer = dec.buffer
        /\ dec'.width = width /\ dec'.height = height
    BY <1>6, <2>1 DEF IInv, TypesHold, Decompressors
  <2>3. dec.format \in PixelFormats
    BY DEF IInv, TypesHold, Decompressors
  <2>4. /\ dev' \in Devices /\ drv' \in Drivers /\ QueuesFollowFlags'
        /\ dev'.fmt.width = width /\ dev'.fmt.height = height
    BY <1>6, <2>1, <2>3, SetImageFormatKeeps DEF IInv
  <2>5. QED
    BY <2>2, <2>4 DEF TypesHold, HeaderInForce, frame
<1>7. TypesHold' /\ QueuesFollowFlags' /\ HeaderInForce'
  BY <1>1, <1>4, <1>5, <1>6 DEF IInv
<1>8. QED
  BY <1>2, <1>7 DEF IInv

-----------------------------------------------------------------------------
(* Decoding. *)

Pairs == [ dev : Devices, drv : Drivers, ok : BOOLEAN ]

\* What every step of a decoding keeps.
Kept(pair, after) ==
    /\ after \in Pairs /\ Follows(after.dev, after.drv)
    /\ after.dev.fmt = pair.dev.fmt /\ after.drv.fmt = pair.drv.fmt
    /\ after.dev.length = pair.dev.length

\* A step that only answers.
LEMMA RefusedKeeps ==
    ASSUME NEW pair \in Pairs, Follows(pair.dev, pair.drv), NEW ok \in BOOLEAN
    PROVE  Kept(pair, [ pair EXCEPT !.ok = ok ]) /\ [ pair EXCEPT !.ok = ok ].ok = ok
BY DEF Kept, Pairs

\* The image's buffers, for a buffer of the client that is large enough.
LEMMA PrepareCaptureKeeps ==
    ASSUME NEW pair \in Pairs, Follows(pair.dev, pair.drv), NEW fail
    PROVE  /\ Kept(pair, PrepareCapture(pair, fail))
           /\ PrepareCapture(pair, fail).ok => ~(pair.dev.length < pair.dev.fmt.sizeimage)
<1> DEFINE device == [ pair.dev EXCEPT !.capture = TRUE ]
           driver == [ pair.drv EXCEPT !.bufs = @ \cup {"image"}, !.on = @ \cup {"image"},
                                       !.kind = pair.dev.kind ]
           after == [ dev |-> device, drv |-> driver, ok |-> TRUE ]
<1>1. Kept(pair, after)
  <2>1. pair.dev \in Devices /\ pair.drv \in Drivers
    BY DEF Pairs
  <2>2. /\ device \in Devices /\ device.capture /\ device.output = pair.dev.output
        /\ device.fmt = pair.dev.fmt /\ device.length = pair.dev.length
    BY <2>1 DEF Devices
  <2>3. /\ driver \in Drivers /\ driver.bufs = pair.drv.bufs \cup {"image"}
        /\ driver.on = pair.drv.on \cup {"image"} /\ driver.queue = pair.drv.queue
        /\ driver.fmt = pair.drv.fmt
    BY <2>1 DEF Drivers, Devices, Queues
  <2>4. Follows(device, driver)
    BY <2>2, <2>3 DEF Follows, Held
  <2>5. after.dev = device /\ after.drv = driver /\ after \in Pairs
    BY <2>2, <2>3 DEF Pairs
  <2>6. QED
    BY <2>2, <2>3, <2>4, <2>5 DEF Kept
<1> HIDE DEF after
<1>2. \/ PrepareCapture(pair, fail) = [ pair EXCEPT !.ok = FALSE ]
      \/ /\ PrepareCapture(pair, fail) \in {after, [ pair EXCEPT !.ok = TRUE ]}
         /\ ~(pair.dev.length < pair.dev.fmt.sizeimage)
  BY DEF PrepareCapture, after
<1>3. QED
  BY <1>1, <1>2, RefusedKeeps

\* The stream's buffers.
LEMMA PrepareStreamKeeps ==
    ASSUME NEW pair \in Pairs, Follows(pair.dev, pair.drv), NEW fail
    PROVE  Kept(pair, PrepareStream(pair, fail))
<1> DEFINE device == [ pair.dev EXCEPT !.output = TRUE ]
           driver == [ pair.drv EXCEPT !.bufs = @ \cup {"stream"}, !.on = @ \cup {"stream"} ]
           after == [ dev |-> device, drv |-> driver, ok |-> TRUE ]
<1>1. Kept(pair, after)
  <2>1. pair.dev \in Devices /\ pair.drv \in Drivers
    BY DEF Pairs
  <2>2. /\ device \in Devices /\ device.output /\ device.capture = pair.dev.capture
        /\ device.fmt = pair.dev.fmt /\ device.length = pair.dev.length
    BY <2>1 DEF Devices
  <2>3. /\ driver \in Drivers /\ driver.bufs = pair.drv.bufs \cup {"stream"}
        /\ driver.on = pair.drv.on \cup {"stream"} /\ driver.queue = pair.drv.queue
        /\ driver.fmt = pair.drv.fmt
    BY <2>1 DEF Drivers, Queues
  <2>4. Follows(device, driver)
    BY <2>2, <2>3 DEF Follows, Held
  <2>5. after.dev = device /\ after.drv = driver /\ after \in Pairs
    BY <2>2, <2>3 DEF Pairs
  <2>6. QED
    BY <2>2, <2>3, <2>4, <2>5 DEF Kept
<1> HIDE DEF after
<1>2. PrepareStream(pair, fail)
        \in {after, [ pair EXCEPT !.ok = FALSE ], [ pair EXCEPT !.ok = TRUE ]}
  BY DEF PrepareStream, after
<1>3. QED
  BY <1>1, <1>2, RefusedKeeps

\* A stream that was queued alone is given back with its queue.
LEMMA CancelStreamKeeps ==
    ASSUME NEW pair \in Pairs, Follows(pair.dev, pair.drv)
    PROVE  /\ Kept(pair, CancelStream([ pair EXCEPT !.drv.queue = @ \cup {"stream"} ]))
           /\ ~CancelStream([ pair EXCEPT !.drv.queue = @ \cup {"stream"} ]).ok
<1> DEFINE queued == [ pair EXCEPT !.drv.queue = @ \cup {"stream"} ]
           device == [ queued.dev EXCEPT !.output = FALSE ]
           driver == [ queued.drv EXCEPT !.bufs = @ \ {"stream"}, !.on = @ \ {"stream"},
                                         !.queue = @ \ {"stream"} ]
<1>1. pair.dev \in Devices /\ pair.drv \in Drivers
  BY DEF Pairs
<1>2. /\ queued.dev = pair.dev
      /\ queued.drv = [ pair.drv EXCEPT !.queue = @ \cup {"stream"} ]
  BY DEF Pairs
<1>3. /\ queued.drv \in Drivers /\ queued.drv.queue = pair.drv.queue \cup {"stream"}
      /\ queued.drv.bufs = pair.drv.bufs /\ queued.drv.on = pair.drv.on
      /\ queued.drv.fmt = pair.drv.fmt
  BY <1>1, <1>2 DEF Drivers, Queues
<1>4. CancelStream(queued) = [ dev |-> device, drv |-> driver, ok |-> FALSE ]
  BY DEF CancelStream
<1> HIDE DEF queued
<1>5. /\ device \in Devices /\ ~device.output /\ device.capture = pair.dev.capture
      /\ device.fmt = pair.dev.fmt /\ device.length = pair.dev.length
  BY <1>1, <1>2 DEF Devices
<1>6. /\ driver \in Drivers /\ driver.bufs = pair.drv.bufs \ {"stream"}
      /\ driver.on = pair.drv.on \ {"stream"} /\ driver.queue = {}
      /\ driver.fmt = pair.drv.fmt
  BY <1>3 DEF Drivers, Queues, Follows
<1> HIDE DEF device, driver
<1>7. Follows(device, driver)
  BY <1>5, <1>6 DEF Follows, Held
<1>8. /\ CancelStream(queued).dev = device /\ CancelStream(queued).drv = driver
      /\ CancelStream(queued) \in Pairs /\ ~CancelStream(queued).ok
  BY <1>4, <1>5, <1>6 DEF Pairs
<1>9. Kept(pair, CancelStream(queued)) /\ ~CancelStream(queued).ok
  BY <1>5, <1>6, <1>7, <1>8 DEF Kept
<1>10. QED
  BY <1>9 DEF queued

\* A decoding needs a source.
LEMMA QBufAndWaitKeeps ==
    ASSUME NEW pair \in Pairs, Follows(pair.dev, pair.drv), NEW fail
    PROVE  /\ Kept(pair, QBufAndWait(pair, fail))
           /\ QBufAndWait(pair, fail).ok => dec.buffer # None
<1> DEFINE done == /\ fail # "dqbuf"
                   /\ Decodes(dec.buffer.content.frame, pair.drv.fmt)
           after == [ pair EXCEPT !.drv.queue = {}, !.ok = done ]
           cancelled == CancelStream([ pair EXCEPT !.drv.queue = @ \cup {"stream"} ])
<1>1. Kept(pair, after)
  <2>1. done \in BOOLEAN
    OBVIOUS
  <2>2. pair.drv \in Drivers /\ pair.drv.queue = {}
    BY DEF Pairs, Follows
  <2> HIDE DEF done
  <2>3. after.dev = pair.dev /\ after.drv = [ pair.drv EXCEPT !.queue = {} ] /\ after.ok = done
    BY DEF Pairs
  <2>4. [ pair.drv EXCEPT !.queue = {} ] = pair.drv
    BY <2>2 DEF Drivers
  <2>5. after \in Pairs
    BY <2>1, <2>3, <2>4 DEF Pairs
  <2>6. QED
    BY <2>3, <2>4, <2>5 DEF Kept
<1> HIDE DEF after, cancelled
<1>2. \/ QBufAndWait(pair, fail) = [ pair EXCEPT !.ok = FALSE ]
      \/ QBufAndWait(pair, fail) = cancelled
      \/ QBufAndWait(pair, fail) = after /\ dec.buffer # None
  BY DEF QBufAndWait, after, cancelled
<1>3. Kept(pair, cancelled) /\ ~cancelled.ok
  BY CancelStreamKeeps DEF cancelled
<1>4. QED
  BY <1>1, <1>2, <1>3, RefusedKeeps

\* A decoding that succeeds had a source, a format, and a buffer for it.
LEMMA DeviceDecompressKeeps ==
    ASSUME TypesHold, QueuesFollowFlags, NEW fail
    PROVE  LET pair == [ dev |-> dev, drv |-> drv, ok |-> FALSE ]
               after == DeviceDecompress(fail)
           IN /\ Kept(pair, after)
              /\ after.ok => /\ dec.buffer # None /\ dev.fmt # None
                             /\ ~(dev.length < dev.fmt.sizeimage)
<1> DEFINE pair == [ dev |-> dev, drv |-> drv, ok |-> FALSE ]
           capture == PrepareCapture(pair, fail)
           stream == PrepareStream(capture, fail)
           waited == QBufAndWait(stream, fail)
<1>1. /\ pair \in Pairs /\ Follows(pair.dev, pair.drv) /\ pair.dev = dev /\ pair.drv = drv
      /\ ~pair.ok
  BY DEF Pairs, TypesHold, QueuesFollowFlags, Follows, Held
<1> HIDE DEF pair
<1>2. Kept(pair, capture) /\ (capture.ok => ~(dev.length < dev.fmt.sizeimage))
  BY <1>1, PrepareCaptureKeeps
<1> HIDE DEF capture
<1>3. Kept(capture, stream)
  BY <1>2, PrepareStreamKeeps DEF Kept
<1> HIDE DEF stream
<1>4. Kept(stream, waited) /\ (waited.ok => dec.buffer # None)
  BY <1>3, QBufAndWaitKeeps DEF Kept
<1> HIDE DEF waited
<1>5. Kept(pair, pair) /\ Kept(pair, stream) /\ Kept(pair, waited)
  BY <1>1, <1>2, <1>3, <1>4 DEF Kept
<1>6. \/ DeviceDecompress(fail) = pair
      \/ DeviceDecompress(fail) = capture /\ ~capture.ok
      \/ DeviceDecompress(fail) = stream /\ ~stream.ok
      \/ DeviceDecompress(fail) = waited /\ dev.fmt # None /\ capture.ok
  BY DEF DeviceDecompress, pair, capture, stream, waited
<1>7. /\ Kept(pair, DeviceDecompress(fail))
      /\ DeviceDecompress(fail).ok => /\ dec.buffer # None /\ dev.fmt # None
                                      /\ ~(dev.length < dev.fmt.sizeimage)
  BY <1>1, <1>2, <1>4, <1>5, <1>6
<1>8. QED
  BY <1>7 DEF pair

\* A reported picture is that of the header, and a picture ends the header.
LEMMA DecompressKeeps ==
    ASSUME IInv, NEW fail, Decompress(fail)
    PROVE  IInv'
<1>1. CASE ~dec.prepared
  BY <1>1 DEF Decompress, IInv, TypesHold, QueuesFollowFlags, MapsAreOwned, Mapping,
     HeaderInForce, DecodedAsAnnounced
<1>2. CASE dec.prepared
  <2> DEFINE pair == [ dev |-> dev, drv |-> drv, ok |-> FALSE ]
             after == DeviceDecompress(fail)
             picture == [ decoded |-> dec.buffer.content.frame, asked |-> dev.fmt,
                          written |-> drv.fmt, length |-> dev.length, image |-> dec.image,
                          size |-> << dec.width, dec.height >> ]
  <2>1. /\ Kept(pair, after) /\ pair.dev = dev /\ pair.drv = drv
        /\ after.ok => /\ dec.buffer # None /\ dev.fmt # None
                       /\ ~(dev.length < dev.fmt.sizeimage)
    BY DeviceDecompressKeeps DEF IInv
  <2>2. /\ dec' = [ dec EXCEPT !.prepared = FALSE ] /\ dev' = after.dev /\ drv' = after.drv
        /\ result' = IF after.ok THEN picture ELSE None
        /\ UNCHANGED << maps, stray >>
    BY <1>2 DEF Decompress
  <2> HIDE DEF pair, after
  <2>3. dev' \in Devices /\ drv' \in Drivers /\ QueuesFollowFlags'
    BY <2>1, <2>2 DEF Kept, Pairs, QueuesFollowFlags, Follows, Held
  <2>4. /\ dec' \in Decompressors /\ ~dec'.prepared
        /\ dec'.buffer = dec.buffer /\ dec'.munmap = dec.munmap
    BY <2>2 DEF IInv, TypesHold, Decompressors
  <2>5. MapsAreOwned' /\ HeaderInForce'
    BY <2>2, <2>4 DEF IInv, MapsAreOwned, Mapping, HeaderInForce
  <2>6. DecodedAsAnnounced'
    <3>1. CASE ~after.ok
      BY <2>2, <3>1 DEF DecodedAsAnnounced
    <3>2. ASSUME after.ok, dev.fmt = drv.fmt
          PROVE  /\ picture.image = picture.decoded
                 /\ picture.size = << picture.written.width, picture.written.height >>
                 /\ picture.written.sizeimage <= picture.length
      <4>1. dev.fmt \in Formats /\ dev.length \in Nat
        BY <2>1, <3>2 DEF IInv, TypesHold, Devices
      <4>2. dev.fmt.sizeimage <= dev.length
        BY <2>1, <3>2, <4>1 DEF Formats
      <4>3. QED
        BY <1>2, <2>1, <3>2, <4>2 DEF IInv, HeaderInForce
    <3>3. CASE after.ok
      BY <2>2, <3>2, <3>3 DEF DecodedAsAnnounced
    <3>4. QED
      BY <3>1, <3>3
  <2>7. QED
    BY <2>3, <2>4, <2>5, <2>6 DEF IInv, TypesHold
<1>3. QED
  BY <1>1, <1>2

-----------------------------------------------------------------------------
\* The inductive invariant, over any sequence of calls: what holds of a decoding
\* rests on the header's fields (HeaderInForce), and those on which calls end it.
THEOREM Invariance == Spec => []IInv
<1>1. Init => IInv
  <2> SUFFICES ASSUME Init PROVE IInv
    OBVIOUS
  <2>1. TypesHold
    BY DEF Init, TypesHold, NewDecompressor, NewDevice, NewDriver, Decompressors, Devices,
       Drivers, Kinds, PixelFormats, PixelBytes
  <2>2. QueuesFollowFlags /\ MapsAreOwned /\ HeaderInForce /\ DecodedAsAnnounced
    BY DEF Init, NewDecompressor, NewDevice, NewDriver, QueuesFollowFlags, MapsAreOwned,
       HeaderInForce, DecodedAsAnnounced
  <2>3. QED
    BY <2>1, <2>2 DEF IInv
<1>2. IInv /\ [Next]_vars => IInv'
  <2> SUFFICES ASSUME IInv, [Next]_vars PROVE IInv'
    OBVIOUS
  <2>1. CASE UNCHANGED vars
    BY <2>1 DEF vars, IInv, TypesHold, QueuesFollowFlags, MapsAreOwned, Mapping, HeaderInForce,
       DecodedAsAnnounced
  <2>2. QED
    BY <2>1, SetStreamPathKeeps, SetStreamMemoryKeeps, SetStreamDmabufKeeps, ConfigurationKeeps,
       PrepareDecompressionKeeps, DecompressKeeps, DestroyKeeps DEF Next
<1>3. QED
  BY <1>1, <1>2, PTL DEF Spec

\* A decoding that reports success, in the format that was asked for, decoded the
\* stream whose header was announced, with the announced size, into a buffer it fits.
THEOREM PictureIsAnnounced == Spec => []DecodedAsAnnounced
<1>1. IInv => DecodedAsAnnounced
  BY DEF IInv
<1>2. QED
  BY <1>1, Invariance, PTL

\* The one mapping is that of the source, and nothing is unmapped twice, whatever
\* source follows which and whichever mapping failed.
THEOREM SourceIsMapped == Spec => []MapsAreOwned
<1>1. IInv => MapsAreOwned
  BY DEF IInv
<1>2. QED
  BY <1>1, Invariance, PTL

\* The device's two flags say what the driver holds, whichever ioctl failed, and no
\* buffer stays queued.
THEOREM QueuesAreKnown == Spec => []QueuesFollowFlags
<1>1. IInv => QueuesFollowFlags
  BY DEF IInv
<1>2. QED
  BY <1>1, Invariance, PTL

-----------------------------------------------------------------------------
(* The compressors.  The parameters and variables are those of any         *)
(* encoder.                                                                *)
CONSTANTS Sizes, MaxShots, Workers, Requests, MainSizes, MainFailures, SubFailures,
          ThumbLengths, MainLength

VARIABLES btb, enc, main, sub, shot, given, img, jpg, app, task, pc, job, out, orphaned

Enc == INSTANCE JpegEncoder

Shaped(d) ==
    /\ DOMAIN d = {"fmt", "kind", "flags", "drv"}
    /\ DOMAIN d.drv = {"fmt", "kind", "bufs", "on", "queue"}

\* A compressor whose flags say what its driver has.
Known(d) ==
    /\ Shaped(d)
    /\ d.drv.bufs = IF "reqbufs" \in d.flags THEN Enc!Ends ELSE {}
    /\ d.drv.queue \in {{}, Enc!Ends}
    /\ "streaming" \in d.flags \/ d.drv.queue # {} => d.drv.on = Enc!Ends

DevicesKnown == Known(main) /\ Known(sub)

-----------------------------------------------------------------------------
\* The setters leave the driver alone.
LEMMA SettersKeep ==
    ASSUME NEW d, Known(d), NEW kind, NEW w1, NEW w2, NEW fail
    PROVE  /\ Known(Enc!SetImageFormat(d, w1, w2, fail).dev)
           /\ Known(Enc!SetImageBuffer(d, kind)) /\ Known(Enc!SetImageBuffer2(d))
           /\ Known(Enc!SetJpegBuffer(d)) /\ Known(Enc!SetJpegBuffer2(d))
<1>1. ASSUME NEW flag, flag \notin {"reqbufs", "streaming"}, NEW e, Known(e)
      PROVE  Known(Enc!Set(e, flag))
  BY <1>1 DEF Known, Shaped, Enc!Set
<1>2. \A fmt : Known([ d EXCEPT !.fmt = fmt ])
  BY DEF Known, Shaped
<1>3. Known([ d EXCEPT !.kind = kind ])
  BY DEF Known, Shaped
<1>4. Known(Enc!SetImageFormat(d, w1, w2, fail).dev)
  BY <1>1, <1>2 DEF Enc!SetImageFormat
<1>5. QED
  BY <1>1, <1>3, <1>4 DEF Enc!SetImageBuffer, Enc!SetImageBuffer2, Enc!SetJpegBuffer,
       Enc!SetJpegBuffer2

\* Stopping gives everything back, whatever the flags said.
LEMMA StopStreamingKeeps ==
    ASSUME NEW d, Shaped(d)
    PROVE  Known(Enc!StopStreaming(d))
<1> DEFINE s == Enc!StopStreaming(d)
<1>1. Shaped(s)
  BY DEF Enc!StopStreaming, Shaped
<1>2. /\ s.flags = d.flags \ {"streaming", "queued", "reqbufs"}
      /\ s.drv.bufs = {} /\ s.drv.queue = {}
  BY DEF Enc!StopStreaming, Shaped
<1>3. QED
  BY <1>1, <1>2 DEF Known

\* A new format stops the device first.
LEMMA SetFormatKeeps ==
    ASSUME NEW d, Known(d), NEW fail
    PROVE  Known(Enc!SetFormat(d, fail).dev)
<1> DEFINE s == Enc!StopStreaming(d)
           r == [ s EXCEPT !.flags = @ \ {"pixfmt"}, !.drv.fmt = d.fmt ]
<1>1. Known(s)
  BY StopStreamingKeeps DEF Known
<1> HIDE DEF s
<1>2. Known(r)
  BY <1>1 DEF Known, Shaped
<1>3. Enc!SetFormat(d, fail).dev \in {d, s, r}
  BY DEF Enc!SetFormat, s
<1>4. QED
  BY <1>1, <1>2, <1>3

\* Both ends get buffers, or neither does.
LEMMA ReqBufsKeeps ==
    ASSUME NEW d, Known(d), NEW fail
    PROVE  /\ Known(Enc!ReqBufs(d, fail).dev)
           /\ Enc!ReqBufs(d, fail).ok => Enc!ReqBufs(d, fail).dev.drv.bufs = Enc!Ends
<1> DEFINE s == Enc!Set(d, "reqbufs")
           r == [ s EXCEPT !.drv.bufs = Enc!Ends, !.drv.kind = d.kind ]
<1>1. /\ Shaped(s) /\ s.flags = d.flags \cup {"reqbufs"} /\ s.drv = d.drv
  BY DEF Known, Shaped, Enc!Set
<1> HIDE DEF s
<1>2. Known(r) /\ r.drv.bufs = Enc!Ends
  BY <1>1 DEF Known, Shaped
<1> HIDE DEF r
<1>3. \/ Enc!ReqBufs(d, fail) = [ dev |-> d, ok |-> TRUE ] /\ "reqbufs" \in d.flags
      \/ Enc!ReqBufs(d, fail) = [ dev |-> d, ok |-> FALSE ]
      \/ Enc!ReqBufs(d, fail) = [ dev |-> r, ok |-> TRUE ]
  BY DEF Enc!ReqBufs, s, r
<1>4. QED
  BY <1>2, <1>3 DEF Known

\* Both ends stream, or neither does.
LEMMA StreamOnKeeps ==
    ASSUME NEW d, Known(d), NEW fail
    PROVE  /\ Known(Enc!StreamOn(d, fail).dev)
           /\ Enc!StreamOn(d, fail).ok => Enc!StreamOn(d, fail).dev.drv.on = Enc!Ends
<1> DEFINE s == Enc!Set(d, "streaming")
           r == [ s EXCEPT !.drv.on = Enc!Ends ]
<1>1. /\ Shaped(s) /\ s.flags = d.flags \cup {"streaming"} /\ s.drv = d.drv
  BY DEF Known, Shaped, Enc!Set
<1> HIDE DEF s
<1>2. Known(r) /\ r.drv.on = Enc!Ends
  BY <1>1 DEF Known, Shaped
<1> HIDE DEF r
<1>3. \/ Enc!StreamOn(d, fail) = [ dev |-> d, ok |-> TRUE ] /\ "streaming" \in d.flags
      \/ Enc!StreamOn(d, fail) = [ dev |-> d, ok |-> FALSE ]
      \/ Enc!StreamOn(d, fail) = [ dev |-> r, ok |-> TRUE ]
  BY DEF Enc!StreamOn, s, r
<1>4. QED
  BY <1>2, <1>3 DEF Known

\* An image whose stream buffer is refused is taken back by stopping.
LEMMA QBufKeeps ==
    ASSUME NEW d, Known(d), d.drv.on = Enc!Ends, NEW fail
    PROVE  Known(Enc!QBuf(d, fail).dev)
<1> DEFINE half == [ d EXCEPT !.drv.queue = @ \cup {"src"} ]
           q == Enc!Set(half, "queued")
           r == [ q EXCEPT !.drv.queue = Enc!Ends ]
<1>1. /\ Shaped(half) /\ half.flags = d.flags /\ half.drv.bufs = d.drv.bufs
      /\ half.drv.on = d.drv.on
  BY DEF Known, Shaped
<1>2. Known(Enc!StopStreaming(half))
  BY <1>1, StopStreamingKeeps
<1> HIDE DEF half
<1>3. /\ Shaped(q) /\ q.flags = half.flags \cup {"queued"} /\ q.drv = half.drv
  BY <1>1 DEF Shaped, Enc!Set
<1> HIDE DEF q
<1>4. /\ Shaped(r) /\ r.flags = q.flags /\ r.drv.bufs = q.drv.bufs /\ r.drv.on = q.drv.on
      /\ r.drv.queue = Enc!Ends
  BY <1>3 DEF Shaped
<1> HIDE DEF r
<1>5. Known(r)
  BY <1>1, <1>3, <1>4 DEF Known
<1>6. Enc!QBuf(d, fail).dev \in {d, Enc!StopStreaming(half), r}
  BY DEF Enc!QBuf, half, q, r
<1>7. QED
  BY <1>2, <1>5, <1>6

\* Compress, whichever of its ioctls fails.
LEMMA CompressKeeps ==
    ASSUME NEW d, Known(d), NEW fail
    PROVE  Known(Enc!Compress(d, fail).dev)
<1> DEFINE formatted == Enc!SetFormat(d, fail)
           buffers == Enc!ReqBufs(formatted.dev, fail)
           stream == Enc!StreamOn(buffers.dev, fail)
           queued == Enc!QBuf(stream.dev, fail)
<1>1. Known(formatted.dev)
  BY SetFormatKeeps
<1>2. Known(buffers.dev)
  BY <1>1, ReqBufsKeeps
<1>3. Known(stream.dev) /\ (stream.ok => stream.dev.drv.on = Enc!Ends)
  BY <1>2, StreamOnKeeps
<1>4. stream.ok => Known(queued.dev)
  BY <1>3, QBufKeeps
<1> HIDE DEF formatted, buffers, stream, queued
<1>5. \/ Enc!Compress(d, fail).dev = formatted.dev
      \/ Enc!Compress(d, fail) = buffers
      \/ Enc!Compress(d, fail) = stream
      \/ Enc!Compress(d, fail) = queued /\ stream.ok
  BY DEF Enc!Compress, formatted, buffers, stream, queued
<1>6. QED
  BY <1>1, <1>2, <1>3, <1>4, <1>5

\* The wait gives both buffers back, also after an error.
LEMMA DQBufKeeps ==
    ASSUME NEW d, Known(d), NEW fail
    PROVE  Known(Enc!DQBuf(d, fail).dev)
BY DEF Enc!DQBuf, Known, Shaped

-----------------------------------------------------------------------------
\* The encoder's calls on its compressors.
LEMMA EnsureFormatKeeps ==
    ASSUME NEW d, Known(d), NEW e, NEW fail
    PROVE  Known(Enc!EnsureFormatIsApplied(e, d, fail).dev)
<1>1. Enc!EnsureFormatIsApplied(e, d, fail).dev
        \in {d, Enc!SetImageFormat(d, e.size, IF e.nogen /\ btb THEN e.thumb ELSE 0, fail).dev}
  BY DEF Enc!EnsureFormatIsApplied
<1>2. QED
  BY <1>1, SettersKeep

\* The client's images.
LEMMA SetInBufKeeps ==
    ASSUME DevicesKnown, NEW kind, Enc!SetInBuf(kind) \/ Enc!SetInBuf2(kind)
    PROVE  DevicesKnown'
<1>1. UNCHANGED sub /\ \E e, fail :
         LET d == Enc!EnsureFormatIsApplied(e, main, fail).dev
         IN main' \in {d, Enc!SetImageBuffer(d, kind), Enc!SetImageBuffer2(d)}
  BY DEF Enc!SetInBuf, Enc!SetInBuf2
<1>2. QED
  BY <1>1, EnsureFormatKeeps, SettersKeep DEF DevicesKnown

\* The picture's compression, and its failures.
LEMMA StartKeeps ==
    ASSUME Known(main), NEW max, NEW thumb, NEW fail, Enc!Start(max, thumb, fail)
    PROVE  Known(main')
<1> DEFINE format == Enc!EnsureFormatIsApplied(Enc!Settled(thumb), Enc!SetJpegBuffer(main),
                                               fail).dev
<1>1. Known(Enc!SetJpegBuffer(main))
  BY SettersKeep
<1>2. Known(format) /\ Known(Enc!SetJpegBuffer2(format))
  BY <1>1, EnsureFormatKeeps, SettersKeep
<1>3. main' \in {format, Enc!Compress(format, fail).dev,
                 Enc!Compress(Enc!SetJpegBuffer2(format), fail).dev}
  BY DEF Enc!Start
<1> HIDE DEF format
<1>4. QED
  BY <1>2, <1>3, CompressKeeps

\* encode, refusals included.
LEMMA EncodeKeeps ==
    ASSUME DevicesKnown, NEW e, NEW debug, NEW max, Enc!Encode(e, debug, max)
    PROVE  DevicesKnown'
<1>1. /\ UNCHANGED sub
      /\ \/ main' = main
         \/ main' = Enc!SetJpegBuffer(main)
         \/ \E thumb, fail : Enc!Start(max, thumb, fail)
  BY DEF Enc!Encode
<1>2. QED
  BY <1>1, SettersKeep, StartKeeps DEF DevicesKnown

\* The thumbnail's compression, in the worker or the client.
LEMMA ThumbQueueKeeps ==
    ASSUME DevicesKnown, NEW t, Enc!ThumbQueue(t)
    PROVE  DevicesKnown'
<1>1. UNCHANGED main /\ \E kind, fail, given_up :
         LET format == Enc!SetImageFormat(sub, enc.thumb, 0, fail).dev
         IN sub' \in {format,
                      Enc!Compress(Enc!SetJpegBuffer(Enc!SetImageBuffer(format, kind)),
                                   given_up).dev}
  BY DEF Enc!ThumbQueue
<1>2. QED
  BY <1>1, SettersKeep, CompressKeeps DEF DevicesKnown

\* The waits for picture and thumbnail.
LEMMA WaitsKeep ==
    ASSUME DevicesKnown, Enc!DeviceDone \/ \E t \in Enc!Threads : Enc!ThumbWait(t)
    PROVE  DevicesKnown'
<1>1. CASE Enc!DeviceDone
  <2>1. sub' = sub /\ \E fail : main' = Enc!DQBuf(main, fail).dev
    BY <1>1 DEF Enc!DeviceDone
  <2>2. QED
    BY <2>1, DQBufKeeps DEF DevicesKnown
<1>2. CASE \E t \in Enc!Threads : Enc!ThumbWait(t)
  BY <1>2, DQBufKeeps DEF Enc!ThumbWait, DevicesKnown
<1>3. QED
  BY <1>1, <1>2

\* No other step touches a compressor.
LEMMA DevicesStep ==
    ASSUME DevicesKnown, [Enc!Next]_(Enc!vars)
    PROVE  DevicesKnown'
<1>1. ASSUME UNCHANGED << main, sub >>
      PROVE  DevicesKnown'
  BY <1>1 DEF DevicesKnown
<1>2. CASE Enc!Setter
  BY <1>1, <1>2, SetInBufKeeps DEF Enc!Setter, Enc!SetSize, Enc!SetThumbnailSize
<1>3. CASE \E r \in Requests : Enc!Encode(r.exif, r.debug, r.max)
  BY <1>3, EncodeKeeps
<1>4. CASE Enc!Thread
  BY <1>1, <1>4, ThumbQueueKeeps, WaitsKeep DEF Enc!Thread, Enc!Scale
<1>5. CASE Enc!DeviceDone
  BY <1>5, WaitsKeep
<1>6. CASE Enc!Join \/ Enc!Retry \/ Enc!Compressed \/ Enc!Place
  BY <1>1, <1>6 DEF Enc!Join, Enc!Retry, Enc!Compressed, Enc!Place
<1>7. CASE UNCHANGED Enc!vars
  BY <1>1, <1>7 DEF Enc!vars
<1>8. QED
  BY <1>2, <1>3, <1>4, <1>5, <1>6, <1>7 DEF Enc!Next

\* What the flags of both compressors say of their drivers holds over any pictures,
\* threads and failures.
THEOREM EncoderInvariance == Enc!Spec => []DevicesKnown
<1>1. Enc!Init => DevicesKnown
  BY DEF Enc!Init, DevicesKnown, Enc!NewDevice, Known, Shaped
<1>2. DevicesKnown /\ [Enc!Next]_(Enc!vars) => DevicesKnown'
  BY DevicesStep
<1>3. QED
  BY <1>1, <1>2, PTL DEF Enc!Spec

\* QueuedTogether of JpegEncoder: an image is queued with its stream buffer or not at
\* all, and the buffers are there when the compressor thinks so.
THEOREM QueuedInPairs == Enc!Spec => []Enc!QueuedTogether
<1>1. DevicesKnown => Enc!QueuedTogether
  BY DEF DevicesKnown, Known, Enc!QueuedTogether, Enc!Ends
<1>2. QED
  BY <1>1, EncoderInvariance, PTL

-----------------------------------------------------------------------------
\* The format is the encoder's, whatever becomes of a compression.
LEMMA FormatStays ==
    ASSUME NEW d, Known(d), NEW kind, NEW fail
    PROVE  /\ Enc!SetImageBuffer(d, kind).fmt = d.fmt /\ Enc!SetImageBuffer2(d).fmt = d.fmt
           /\ Enc!SetJpegBuffer(d).fmt = d.fmt /\ Enc!SetJpegBuffer2(d).fmt = d.fmt
           /\ Enc!DQBuf(d, fail).dev.fmt = d.fmt
BY DEF Known, Shaped, Enc!SetImageBuffer, Enc!SetImageBuffer2, Enc!SetJpegBuffer,
     Enc!SetJpegBuffer2, Enc!Set, Enc!DQBuf

\* Compressing does not change what the compressor was told to compress.
LEMMA CompressedFormat ==
    ASSUME NEW d, Known(d), NEW fail
    PROVE  Enc!Compress(d, fail).dev.fmt = d.fmt
<1> DEFINE formatted == Enc!SetFormat(d, fail)
           buffers == Enc!ReqBufs(formatted.dev, fail)
           stream == Enc!StreamOn(buffers.dev, fail)
           queued == Enc!QBuf(stream.dev, fail)
<1>1. Known(formatted.dev) /\ formatted.dev.fmt = d.fmt
  BY SetFormatKeeps DEF Enc!SetFormat, Enc!StopStreaming, Known, Shaped
<1> HIDE DEF formatted
<1>2. Known(buffers.dev) /\ buffers.dev.fmt = d.fmt
  BY <1>1, ReqBufsKeeps DEF Enc!ReqBufs, Enc!Set, Known, Shaped
<1> HIDE DEF buffers
<1>3. Known(stream.dev) /\ stream.dev.fmt = d.fmt
  BY <1>2, StreamOnKeeps DEF Enc!StreamOn, Enc!Set, Known, Shaped
<1> HIDE DEF stream
<1>4. queued.dev.fmt = d.fmt
  BY <1>3 DEF Enc!QBuf, Enc!StopStreaming, Enc!Set, Known, Shaped
<1> HIDE DEF queued
<1>5. \/ Enc!Compress(d, fail).dev = formatted.dev
      \/ Enc!Compress(d, fail) \in {buffers, stream, queued}
  BY DEF Enc!Compress, formatted, buffers, stream, queued
<1>6. QED
  BY <1>1, <1>2, <1>3, <1>4, <1>5

Settings(e) ==
    /\ DOMAIN e = {"size", "thumb", "nogen", "inType", "thumbType", "pending"}
    /\ e.nogen \in BOOLEAN

\* A picture alone is what a device compresses whose format is applied.
Alone(e, d) == e.pending = {} /\ ~e.nogen => ~Enc!IsB2BCompression(d)

\* Applying the format settles what the device compresses.
LEMMA FormatApplied ==
    ASSUME NEW d, Known(d), NEW e, Settings(e), Alone(e, d), NEW fail
    PROVE  LET r == Enc!EnsureFormatIsApplied(e, d, fail)
           IN /\ r.enc \in {e, [ e EXCEPT !.pending = {} ]} /\ Settings(r.enc)
              /\ r.enc.nogen = e.nogen
              /\ r.ok => r.enc.pending = {}
              /\ Alone(r.enc, r.dev)
<1> DEFINE r == Enc!EnsureFormatIsApplied(e, d, fail)
           set == Enc!SetImageFormat(d, e.size, IF e.nogen /\ btb THEN e.thumb ELSE 0, fail)
           applied == [ e EXCEPT !.pending = {} ]
<1>1. applied.pending = {} /\ applied.nogen = e.nogen /\ Settings(applied)
  BY DEF Settings
<1>2. ~e.nogen => ~Enc!IsB2BCompression(set.dev)
  BY DEF Enc!SetImageFormat, Enc!Set, Enc!IsB2BCompression, Known, Shaped
<1>3. CASE e.pending = {}
  <2>1. r = [ enc |-> e, dev |-> d, ok |-> TRUE ]
    BY <1>3 DEF Enc!EnsureFormatIsApplied
  <2>2. QED
    BY <1>3, <2>1
<1>4. CASE e.pending # {}
  <2>1. /\ r.enc = (IF set.ok THEN applied ELSE e) /\ r.dev = set.dev /\ r.ok = set.ok
    BY <1>4 DEF Enc!EnsureFormatIsApplied
  <2> HIDE DEF set, applied, r
  <2>2. CASE set.ok
    BY <1>1, <1>2, <2>1, <2>2 DEF Alone, r, applied
  <2>3. CASE ~set.ok
    BY <1>4, <2>1, <2>3 DEF Alone, r
  <2>4. QED
    BY <2>2, <2>3
<1>5. QED
  BY <1>3, <1>4

-----------------------------------------------------------------------------
(* The thumbnail.  It is compressed from an image of the shot that is      *)
(* being encoded, by a worker, the client or the device, and may be        *)
(* compressed once more; which of them wrote the stream buffer last, and   *)
(* whether that counts, is what the invariant says.                        *)

\* What is said of an encoder rests on these facts about its parameters.
EncoderParameters ==
    /\ Workers \subseteq Nat \ {0}
    /\ ThumbLengths \subseteq Nat \ {0}
    /\ MainLength \in Nat
    /\ \A r \in Requests : /\ r.exif \in Enc!Exif \cup {Enc!NoExif} /\ r.max \in Nat
                            /\ Enc!WriteAPPX(r.debug) \in Nat

\* The sizes of one attribute are numbers.
LEMMA SizesTyped ==
    ASSUME NEW n \in Nat, NEW inline \in Nat, NEW room \in Nat, NEW b \in BOOLEAN
    PROVE  /\ Enc!One(b) \in Nat /\ Enc!Optional(n, inline, room) \in Nat
           /\ Enc!Directory(n) \in Nat
           /\ Enc!Outside(n) \in Nat /\ Enc!Text(n) \in Nat /\ Enc!Blob(n) \in Nat
           /\ Enc!Rationals(n) \in Nat
           /\ Enc!Least(n, inline) \in Nat
BY DEF Enc!One, Enc!Optional, Enc!Directory, Enc!Outside, Enc!Text, Enc!Blob, Enc!Rationals,
     Enc!Least, Enc!Field

\* So are those of all of them: APP1 as computed and as written.
LEMMA AttributesTyped ==
    ASSUME NEW e \in Enc!Exif
    PROVE  /\ Enc!App1Size(e) \in Nat /\ Enc!WriteAPP1(e) \in Nat /\ Enc!MaxThumb(e) \in Int
           /\ Enc!Size0th(e) \in Nat /\ Enc!SizeExif(e) \in Nat /\ Enc!SizeGps(e) \in Nat
<1>1. /\ {e.gps, e.thumb} \subseteq BOOLEAN
      /\ {e.maker, e.model, e.software, e.unique_id, e.gps_method, e.maker_note, e.user_comment}
            \subseteq Nat
  BY DEF Enc!Exif
<1>2. Enc!Size0th(e) \in Nat
  <2>1. {Enc!Optional(e.maker, 3, e.maker + 1), Enc!Optional(e.software, 3, e.software + 1),
         Enc!Optional(e.model, 3, e.model + 1), Enc!One(e.gps)} \subseteq Nat
    BY <1>1 DEF Enc!Optional, Enc!One, Enc!Field
  <2>2. QED
    BY <2>1 DEF Enc!Size0th, Enc!Field, Enc!DateTime
<1>3. Enc!SizeExif(e) \in Nat
  <2>1. {Enc!Optional(e.unique_id, 3, e.unique_id + 1), Enc!Optional(e.maker_note, 4, e.maker_note),
         Enc!Optional(e.user_comment, 4, e.user_comment)} \subseteq Nat
    BY <1>1 DEF Enc!Optional, Enc!Field
  <2>2. QED
    BY <2>1 DEF Enc!SizeExif, Enc!Field, Enc!DateTime, Enc!SubsecTime
<1>4. Enc!SizeGps(e) \in Nat
  <2>1. Enc!Least(e.gps_method, Enc!MaxMethod) \in Nat
    BY <1>1, SizesTyped DEF Enc!MaxMethod
  <2>2. QED
    BY <2>1 DEF Enc!SizeGps, Enc!Field, Enc!DateStamp, Enc!Prefix
<1>5. Enc!App1Size(e) \in Nat /\ Enc!MaxThumb(e) \in Int
  BY <1>1, <1>2, <1>3, <1>4 DEF Enc!App1Size, Enc!MaxThumb, Enc!LenField, Enc!Identifier,
       Enc!Tiff, Enc!Size1st, Enc!Field,
     Enc!MaxSegment
<1>6. Enc!WriteGps(e) \in Nat
  <2>1. /\ Enc!Least(e.gps_method, 99) \in Nat /\ Enc!FieldsGps(e) \in Nat
    <3>1. Enc!Least(e.gps_method, 99) \in Nat
      BY <1>1 DEF Enc!Least
    <3>2. Enc!FieldsGps(e) \in Nat
      BY DEF Enc!FieldsGps, Enc!One
    <3>3. QED
      BY <3>1, <3>2
  <2>2. /\ Enc!Directory(Enc!FieldsGps(e)) \in Nat
        /\ Enc!Outside(Enc!Least(e.gps_method, 99) + Enc!Prefix + 1) \in Nat
    BY <2>1 DEF Enc!Directory, Enc!Outside, Enc!Prefix, Enc!Field
  <2>3. {Enc!Outside(4), Enc!Outside(2), Enc!Outside(1), Enc!Outside(Enc!DateStamp),
         Enc!Rationals(3), Enc!Rationals(1)}
          \subseteq Nat
    BY SizesTyped DEF Enc!DateStamp
  <2>4. QED
    BY <2>2, <2>3 DEF Enc!WriteGps
<1>7. Enc!WriteExif(e) \in Nat
  <2>1. Enc!FieldsExif(e) \in Nat
    BY DEF Enc!FieldsExif, Enc!One
  <2>2. {Enc!Directory(Enc!FieldsExif(e)), Enc!Directory(2), Enc!Rationals(2), Enc!Rationals(5),
         Enc!Rationals(1),
         Enc!Outside(4), Enc!Outside(Enc!DateTime), Enc!Outside(Enc!SubsecTime)} \subseteq Nat
    BY <2>1, SizesTyped DEF Enc!DateTime, Enc!SubsecTime
  <2>3. {Enc!Blob(e.maker_note), Enc!Blob(e.user_comment), Enc!Text(e.unique_id)} \subseteq Nat
    BY <1>1, SizesTyped
  <2>4. QED
    BY <2>2, <2>3 DEF Enc!WriteExif, Enc!WriteInterop
<1>8. Enc!WriteAPP1(e) \in Nat
  <2>1. Enc!Fields0th(e) \in Nat
    BY DEF Enc!Fields0th, Enc!One
  <2>2. {Enc!Directory(Enc!Fields0th(e)), Enc!Directory(6), Enc!Rationals(2),
         Enc!Outside(Enc!DateTime)} \subseteq Nat
    BY <2>1, SizesTyped DEF Enc!DateTime
  <2>3. {Enc!Text(e.maker), Enc!Text(e.model), Enc!Text(e.software)} \subseteq Nat
    BY <1>1, SizesTyped
  <2>4. QED
    BY <1>1, <1>6, <1>7, <2>2, <2>3 DEF Enc!WriteAPP1, Enc!Marker, Enc!LenField,
       Enc!Identifier, Enc!Tiff
<1>9. QED
  BY <1>2, <1>3, <1>4, <1>5, <1>8

\* The numbers of a stream's head.
EncoderNumbers(a) ==
    /\ {a.main, a.szApp11, Enc!szApp1(a.exif), Enc!szMaxThumb(a.exif)} \subseteq Int
    /\ Enc!WriteAPPX(a.debug) \in Int

\* ProcessExif leaves a stream's head whose lengths are numbers.
LEMMA WrittenTyped ==
    ASSUME NEW e \in Enc!Exif \cup {Enc!NoExif}, NEW debug, Enc!WriteAPPX(debug) \in Nat, NEW max
    PROVE  EncoderNumbers(Enc!Written(e, debug, max))
<1> DEFINE reserve == Enc!Has(e) /\ e.thumb /\ max >= Enc!ReserveFrom
           app1 == Enc!Marker + (IF Enc!Has(e)
                                 THEN Enc!WriteAPP1(e) + (IF reserve THEN Enc!MaxThumb(e) ELSE 0)
                                       ELSE 0)
           appX == app1 + Enc!WriteAPPX(debug)
           app11 == Enc!WriteAPP11(e, debug, appX, Enc!Align)
<1>1. Enc!Has(e) => e \in Enc!Exif
  BY DEF Enc!Has
<1>2. appX \in Int
  BY <1>1, AttributesTyped DEF Enc!Marker
<1>3. app11 \in Int
  <2>1. (-(appX + Enc!Marker + Enc!LenField)) % Enc!Align \in Int
    BY <1>2 DEF Enc!Marker, Enc!LenField, Enc!Align
  <2> HIDE DEF appX
  <2>2. QED
    BY <2>1 DEF Enc!WriteAPP11, Enc!Marker, Enc!LenField
<1>4. {Enc!szApp1(e), Enc!szMaxThumb(e)} \subseteq Int
  BY <1>1, AttributesTyped DEF Enc!szApp1, Enc!szMaxThumb
<1>5. /\ Enc!Written(e, debug, max).main = appX + app11 - Enc!Marker
      /\ Enc!Written(e, debug, max).szApp11 = app11
      /\ Enc!Written(e, debug, max).exif = e /\ Enc!Written(e, debug, max).debug = debug
  BY DEF Enc!Written, Enc!Write
<1> HIDE DEF appX, app11
<1>6. QED
  BY <1>2, <1>3, <1>4, <1>5 DEF EncoderNumbers, Enc!Marker

\* The records the steps of a picture are kept in.
EncoderJobs == [ max : Nat, thumb : BOOLEAN, worker : Enc!Threads, mainlen : Int, thumblen : Nat ]

TaskShaped(k) == DOMAIN k = {"at", "kind", "limit", "of", "len"} /\ k.len \in Nat

NumbersKnown ==
    /\ DOMAIN jpg = {"size", "of"} /\ Settings(enc)
    /\ DOMAIN task = Enc!Threads /\ \A t \in Enc!Threads : TaskShaped(task[t])
    /\ job \in EncoderJobs /\ orphaned \in BOOLEAN
    /\ pc # "idle" => EncoderNumbers(app)

\* So is the place that is left for a thumbnail.
LEMMA MaxThumbLengthTyped ==
    ASSUME NumbersKnown, pc # "idle"
    PROVE  Enc!MaxThumbLength \in Int
<1>1. {job.max, job.mainlen} \subseteq Int /\ EncoderNumbers(app)
  BY DEF NumbersKnown, EncoderJobs
<1>2. Enc!CalculateAPPSize(app.exif, app.debug, app.app1End, app.szApp11, 0) \in Int
  BY <1>1 DEF Enc!CalculateAPPSize, EncoderNumbers, Enc!Marker, Enc!Least
<1>3. QED
  BY <1>1, <1>2 DEF Enc!MaxThumbLength, EncoderNumbers, Enc!Least

-----------------------------------------------------------------------------
\* Without a call that failed, the one worker is that of the job.
WorkersJoined ==
    /\ pc = "idle" => job = Enc!NoJob
    /\ \A t \in Workers : task[t] # Enc!Idle => t = job.worker
    /\ job.worker # Enc!Client => pc \in {"device", "joining"} /\ job.thumb /\ ~enc.nogen
    /\ pc \notin {"separate", "retry"} => task[Enc!Client] = Enc!Idle
    /\ task[Enc!Client].at # "scale"

\* The device compresses a thumbnail only of an image that the client gave, and
\* gave for this shot.
DeviceThumbs ==
    /\ Alone(enc, main)
    /\ pc # "idle" => enc.pending = {}
    /\ pc # "idle" /\ job.thumb /\ enc.nogen => given = shot

\* What a thread compresses, and has compressed.
OwnTask(t) ==
    /\ task[t].at \in {"queue", "wait"} => task[t].of = shot
    /\ task[t].at = "done" /\ task[t].len # 0 => jpg.of = shot

\* A thumbnail that counts is of this shot, and so is the image it would be
\* compressed from once more; a thread that was given no place for one has
\* nothing that counts.
ThumbsOwn ==
    /\ \A t \in Workers :
          /\ OwnTask(t)
          /\ \/ task[t].at \in {"queue", "wait"}
             \/ task[t].at = "done" /\ task[t].len # 0
             => img.of = shot
    /\ pc = "separate" => OwnTask(Enc!Client) /\ enc.nogen
    /\ pc = "retry" =>
          /\ task[Enc!Client].limit \in Int /\ task[Enc!Client].limit < job.thumblen
          /\ task[Enc!Client].at = "done" /\ task[Enc!Client].len # 0
                => task[Enc!Client].len <= task[Enc!Client].limit
          /\ job.thumblen # 0 => OwnTask(Enc!Client)
    /\ job.thumb /\ job.thumblen # 0 =>
          /\ pc \in {"joining", "placing"} => jpg.of = shot
          /\ ~enc.nogen => img.of = shot
    /\ job.worker # Enc!Client \/ pc = "device" => job.thumblen = 0

Owned == ~orphaned => WorkersJoined /\ ThumbsOwn

EncoderInv == NumbersKnown /\ DevicesKnown /\ DeviceThumbs /\ Owned /\ Enc!EmbeddedIsOwn

\* Nobody works for an idle client.
LEMMA IdleOwns ==
    ASSUME EncoderParameters, pc = "idle", job = Enc!NoJob,
           \A t \in Enc!Threads : task[t] = Enc!Idle
    PROVE  Owned
BY DEF Owned, WorkersJoined, ThumbsOwn, OwnTask, Enc!Idle, Enc!NoJob, Enc!Threads, Enc!Client

\* A setter finds an idle encoder and leaves it idle.
LEMMA SetterKeeps ==
    ASSUME EncoderParameters, EncoderInv, DevicesKnown',
           pc = "idle", UNCHANGED << task, pc, job, img, jpg, app, orphaned >>,
           Settings(enc'), Alone(enc, main)', out' = Enc!NoPicture
    PROVE  EncoderInv'
<1>1. NumbersKnown'
  BY DEF EncoderInv, NumbersKnown, Settings, TaskShaped, EncoderJobs, EncoderNumbers
<1>2. DeviceThumbs' /\ Enc!EmbeddedIsOwn'
  BY DEF DeviceThumbs, Enc!EmbeddedIsOwn, Enc!NoPicture
<1>3. ASSUME ~orphaned
      PROVE  job = Enc!NoJob /\ \A t \in Enc!Threads : task[t] = Enc!Idle
  BY <1>3 DEF EncoderInv, Owned, WorkersJoined, Enc!NoJob, EncoderParameters, Enc!Threads,
       Enc!Client
<1>4. Owned'
  <2>1. CASE orphaned
    BY <2>1 DEF Owned
  <2>2. CASE ~orphaned
    <3>1. job' = Enc!NoJob /\ (\A t \in Enc!Threads : task'[t] = Enc!Idle) /\ pc' = "idle"
      BY <1>3, <2>2
    <3>2. QED
      BY <3>1 DEF EncoderParameters, Owned, WorkersJoined, ThumbsOwn, OwnTask, Enc!Idle,
           Enc!NoJob, Enc!Threads, Enc!Client
  <2>3. QED
    BY <2>1, <2>2
<1>5. QED
  BY <1>1, <1>2, <1>4 DEF EncoderInv

\* setSize, setThumbnailSize, setInBuf and setInBuf2, whose formats may be refused.
LEMMA SettersHold ==
    ASSUME EncoderParameters, EncoderInv, DevicesKnown', Enc!Setter
    PROVE  EncoderInv'
<1>1. Settings(enc) /\ Alone(enc, main) /\ Known(main)
  BY DEF EncoderInv, NumbersKnown, DeviceThumbs, DevicesKnown
<1>2. ASSUME NEW w, Enc!SetSize(w)
      PROVE  EncoderInv'
  <2>1. enc' = [ enc EXCEPT !.size = w, !.pending = @ \cup {"size"} ]
    BY <1>2 DEF Enc!SetSize
  <2>2. Settings(enc') /\ enc'.pending # {}
    BY <1>1, <2>1 DEF Settings
  <2>3. Alone(enc, main)'
    BY <2>2 DEF Alone
  <2>4. QED
    BY <1>2, <2>2, <2>3, SetterKeeps DEF Enc!SetSize
<1>3. ASSUME NEW w, Enc!SetThumbnailSize(w)
      PROVE  EncoderInv'
  <2>1. enc' = Enc!ThumbnailSize(enc, w) /\ main' = main
    BY <1>3 DEF Enc!SetThumbnailSize
  <2>2. Settings(enc') /\ enc'.nogen = enc.nogen /\ (enc'.pending = {} => enc.pending = {})
    BY <1>1, <2>1 DEF Settings, Enc!ThumbnailSize
  <2>3. Alone(enc, main)'
    BY <1>1, <2>1, <2>2 DEF Alone
  <2>4. QED
    BY <1>3, <2>2, <2>3, SetterKeeps DEF Enc!SetThumbnailSize
<1>4. ASSUME NEW kind, Enc!SetInBuf(kind)
      PROVE  EncoderInv'
  <2>1. PICK fail :
          LET r == Enc!EnsureFormatIsApplied(enc, main, fail)
          IN /\ enc' \in {r.enc, [ r.enc EXCEPT !.inType = kind ]}
             /\ main' \in {r.dev, Enc!SetImageBuffer(r.dev, kind)}
    BY <1>4 DEF Enc!SetInBuf
  <2> DEFINE r == Enc!EnsureFormatIsApplied(enc, main, fail)
  <2>2. Settings(r.enc) /\ Alone(r.enc, r.dev) /\ Known(r.dev)
    BY <1>1, FormatApplied, EnsureFormatKeeps
  <2>3. main'.fmt = r.dev.fmt
    BY <2>1, <2>2, FormatStays
  <2> HIDE DEF r
  <2>4. enc'.pending = r.enc.pending /\ enc'.nogen = r.enc.nogen /\ Settings(enc')
    BY <2>1, <2>2 DEF Settings, r
  <2>5. Alone(enc, main)'
    BY <2>2, <2>3, <2>4 DEF Alone, Enc!IsB2BCompression
  <2>6. QED
    BY <1>4, <2>4, <2>5, SetterKeeps DEF Enc!SetInBuf
<1>5. ASSUME NEW kind, Enc!SetInBuf2(kind)
      PROVE  EncoderInv'
  <2> DEFINE e == [ enc EXCEPT !.nogen = TRUE ]
  <2>1. PICK fail :
          LET r == Enc!EnsureFormatIsApplied(e, main, fail)
          IN enc' \in {r.enc, [ r.enc EXCEPT !.thumbType = kind ]}
    BY <1>5 DEF Enc!SetInBuf2
  <2> DEFINE r == Enc!EnsureFormatIsApplied(e, main, fail)
  <2>2. Settings(e) /\ e.nogen
    BY <1>1 DEF Settings
  <2> HIDE DEF e
  <2>3. Settings(r.enc) /\ r.enc.nogen
    BY <1>1, <2>2, FormatApplied DEF Alone
  <2> HIDE DEF r
  <2>4. Settings(enc') /\ enc'.nogen
    BY <2>1, <2>3 DEF Settings, r
  <2>5. QED
    BY <1>5, <2>4, SetterKeeps DEF Enc!SetInBuf2, Alone
<1>6. QED
  BY <1>2, <1>3, <1>4, <1>5 DEF Enc!Setter

-----------------------------------------------------------------------------
\* What encode makes of its request leaves the device what it compresses, and a
\* thumbnail image of the client is one of this shot.
LEMMA RequestSettled ==
    ASSUME Settings(enc), Alone(enc, main), NEW thumb \in BOOLEAN
    PROVE  /\ Settings(Enc!Settled(thumb)) /\ Alone(Enc!Settled(thumb), main)
           /\ thumb /\ Enc!Settled(thumb).nogen => enc.nogen /\ enc.thumbType # "none"
<1> DEFINE e == Enc!Settled(thumb)
<1>1. CASE ~thumb
  <2>1. e = Enc!ThumbnailSize(enc, 0)
    BY <1>1 DEF Enc!Settled
  <2>2. Settings(e) /\ e.nogen = enc.nogen /\ (e.pending = {} => enc.pending = {})
    BY <2>1 DEF Settings, Enc!ThumbnailSize
  <2>3. QED
    BY <1>1, <2>2 DEF Alone
<1>2. CASE thumb /\ enc.nogen /\ enc.thumbType = "none"
  <2>1. e = [ enc EXCEPT !.nogen = FALSE, !.pending = @ \cup {"thumb"} ]
    BY <1>2 DEF Enc!Settled
  <2>2. Settings(e) /\ ~e.nogen /\ e.pending # {}
    BY <2>1 DEF Settings
  <2>3. QED
    BY <2>2 DEF Alone
<1>3. CASE thumb /\ ~(enc.nogen /\ enc.thumbType = "none")
  BY <1>3 DEF Enc!Settled
<1>4. QED
  BY <1>1, <1>2, <1>3

\* The ways a compression starts, or not.
Started(max, thumb) ==
    /\ Settings(enc') /\ Alone(enc, main)' /\ DOMAIN jpg' = {"size", "of"}
    /\ \/ Enc!Fail /\ UNCHANGED << task, orphaned >>
       \/ Enc!Fail /\ orphaned' /\ \E t \in Workers : task' = [ task EXCEPT ![t].at = "scale" ]
       \/ /\ pc' = "device" /\ out' = Enc!NoPicture /\ enc'.pending = {}
          /\ thumb /\ enc'.nogen => given = shot
          /\ orphaned' = orphaned
          /\ \E t \in Enc!Threads :
                /\ job' = [ Enc!NoJob EXCEPT !.max = max, !.thumb = thumb, !.worker = t ]
                /\ \/ t = Enc!Client /\ task' = task
                   \/ /\ t \in Workers /\ thumb /\ ~enc'.nogen /\ task[t] = Enc!Idle
                      /\ task' = [ task EXCEPT ![t].at = "scale" ]

\* Start does one of these, whatever the format's and the compression's outcome.
LEMMA StartStarts ==
    ASSUME EncoderInv, NEW max, NEW thumb \in BOOLEAN, NEW fail, Enc!Start(max, thumb, fail),
           thumb => (enc.nogen /\ enc.thumbType # "none" => given = shot)
    PROVE  Started(max, thumb)
<1> DEFINE e == Enc!Settled(thumb)
           r == Enc!EnsureFormatIsApplied(e, Enc!SetJpegBuffer(main), fail)
           worker == thumb /\ ~r.enc.nogen
           buffer == IF thumb /\ ~worker THEN Enc!AllocThumbJpegBuffer(enc.thumb, fail = "memory")
                                       ELSE jpg
           d == IF thumb /\ btb THEN Enc!SetJpegBuffer2(r.dev) ELSE r.dev
           run == Enc!Compress(d, fail)
           prepared == r.ok /\ (thumb /\ ~worker => buffer.size > 0)
<1>1. /\ Settings(enc) /\ Alone(enc, main) /\ Known(main) /\ DOMAIN jpg = {"size", "of"}
  BY DEF EncoderInv, NumbersKnown, DeviceThumbs, DevicesKnown
<1>0. orphaned \in BOOLEAN
  BY DEF EncoderInv, NumbersKnown
<1>2. /\ Settings(e) /\ Alone(e, main)
      /\ thumb /\ e.nogen => enc.nogen /\ enc.thumbType # "none"
  BY <1>1, RequestSettled
<1>3. Known(Enc!SetJpegBuffer(main)) /\ Alone(e, Enc!SetJpegBuffer(main))
  BY <1>1, <1>2, SettersKeep, FormatStays DEF Alone, Enc!IsB2BCompression
<1>4. /\ enc' = r.enc /\ jpg' \in {jpg, buffer} /\ main' \in {r.dev, run.dev}
      /\ \/ ~prepared /\ UNCHANGED << task, orphaned >> /\ Enc!Fail
         \/ /\ prepared
            /\ \E t \in IF worker THEN { w \in Workers : task[w] = Enc!Idle } ELSE {Enc!Client} :
                 /\ task' = IF worker THEN [ task EXCEPT ![t].at = "scale" ] ELSE task
                 /\ orphaned' = (orphaned \/ (worker /\ ~run.ok))
                 /\ IF run.ok
                    THEN /\ pc' = "device" /\ out' = Enc!NoPicture
                         /\ job' = [ Enc!NoJob EXCEPT !.max = max, !.thumb = thumb, !.worker = t ]
                    ELSE Enc!Fail
  BY DEF Enc!Start, Enc!NothingStarted
<1>5. DOMAIN buffer = {"size", "of"}
  BY <1>1 DEF Enc!AllocThumbJpegBuffer
<1> HIDE DEF e, buffer
<1>6. /\ Settings(r.enc) /\ r.enc.nogen = e.nogen /\ Alone(r.enc, r.dev) /\ Known(r.dev)
      /\ r.ok => r.enc.pending = {}
  BY <1>2, <1>3, FormatApplied, EnsureFormatKeeps
<1> HIDE DEF r
<1>7. Known(d) /\ d.fmt = r.dev.fmt
  BY <1>6, SettersKeep, FormatStays
<1> HIDE DEF d
<1>8. run.dev.fmt = r.dev.fmt
  BY <1>7, CompressedFormat
<1> HIDE DEF run
<1>9. Settings(enc') /\ Alone(enc, main)' /\ DOMAIN jpg' = {"size", "of"}
  BY <1>1, <1>4, <1>5, <1>6, <1>8 DEF Alone, Enc!IsB2BCompression
<1>10. CASE ~prepared
  BY <1>4, <1>9, <1>10 DEF Started
<1>11. CASE prepared
  <2>1. enc'.pending = {} /\ (thumb /\ enc'.nogen => given = shot)
    BY <1>2, <1>4, <1>6, <1>11
  <2>2. PICK t \in IF worker THEN { w \in Workers : task[w] = Enc!Idle } ELSE {Enc!Client} :
           /\ task' = IF worker THEN [ task EXCEPT ![t].at = "scale" ] ELSE task
           /\ orphaned' = (orphaned \/ (worker /\ ~run.ok))
           /\ IF run.ok
              THEN /\ pc' = "device" /\ out' = Enc!NoPicture
                   /\ job' = [ Enc!NoJob EXCEPT !.max = max, !.thumb = thumb, !.worker = t ]
              ELSE Enc!Fail
    BY <1>4, <1>11
  <2>3. /\ t \in Enc!Threads /\ (worker => t \in Workers /\ task[t] = Enc!Idle)
        /\ ~worker => t = Enc!Client
    BY <2>2 DEF Enc!Threads
  <2>4. worker => thumb /\ ~enc'.nogen
    BY <1>4
  <2> HIDE DEF prepared, worker
  <2>5. /\ run.ok \/ ~worker => orphaned' = orphaned
        /\ ~run.ok /\ worker => orphaned'
    BY <1>0, <2>2
  <2>6. CASE run.ok /\ worker
    BY <1>9, <2>1, <2>2, <2>3, <2>4, <2>5, <2>6 DEF Started
  <2>7. CASE run.ok /\ ~worker
    <3>1. t = Enc!Client /\ task' = task
      BY <2>2, <2>3, <2>7
    <3>2. QED
      BY <1>9, <2>1, <2>2, <2>3, <2>5, <2>7, <3>1 DEF Started
  <2>8. CASE ~run.ok /\ worker
    BY <1>9, <2>2, <2>3, <2>5, <2>8 DEF Started
  <2>9. CASE ~run.ok /\ ~worker
    <3>1. Enc!Fail /\ task' = task
      BY <2>2, <2>9
    <3>2. QED
      BY <1>9, <2>5, <2>9, <3>1 DEF Started
  <2>10. QED
    BY <2>6, <2>7, <2>8, <2>9
<1>12. QED
  BY <1>10, <1>11

\* An idle client's job is none, and nobody works for it.
LEMMA NobodyWorks ==
    ASSUME EncoderParameters, EncoderInv, pc = "idle", ~orphaned
    PROVE  job = Enc!NoJob /\ \A t \in Enc!Threads : task[t] = Enc!Idle
BY DEF EncoderInv, Owned, WorkersJoined, Enc!NoJob, EncoderParameters, Enc!Threads, Enc!Client

\* An idle encoder has no job, and the client is no worker.
LEMMA NoJobTyped ==
    ASSUME EncoderParameters
    PROVE  /\ Enc!NoJob \in EncoderJobs
           /\ Enc!Client \in Enc!Threads /\ Enc!Client \notin Workers
BY DEF Enc!NoJob, EncoderJobs, Enc!Client, Enc!Threads, EncoderParameters

\* A worker that is started.
LEMMA WorkerShaped ==
    ASSUME NumbersKnown, NEW t \in Workers, task' = [ task EXCEPT ![t].at = "scale" ]
    PROVE  /\ DOMAIN task' = Enc!Threads /\ \A u \in Enc!Threads : TaskShaped(task'[u])
           /\ \A u \in Enc!Threads : u # t => task'[u] = task[u]
           /\ task'[t].at = "scale" /\ task'[t].len = task[t].len
<1>1. t \in Enc!Threads /\ TaskShaped(task[t])
  BY DEF NumbersKnown, Enc!Threads
<1>2. \A u \in Enc!Threads : u # t => task'[u] = task[u]
  BY DEF NumbersKnown
<1>3. task'[t] = [ task[t] EXCEPT !.at = "scale" ]
  BY <1>1 DEF NumbersKnown
<1>4. TaskShaped(task'[t]) /\ task'[t].at = "scale" /\ task'[t].len = task[t].len
  BY <1>1, <1>3 DEF TaskShaped
<1>5. QED
  BY <1>2, <1>4 DEF NumbersKnown

\* A call that fails leaves an idle encoder, and an orphan if it had started a worker.
LEMMA FailKeeps ==
    ASSUME EncoderParameters, EncoderInv, DevicesKnown', pc = "idle", Enc!Fail,
           Settings(enc'), Alone(enc, main)', DOMAIN jpg' = {"size", "of"},
           \/ UNCHANGED << task, orphaned >>
           \/ orphaned' /\ orphaned' \in BOOLEAN
                /\ \E t \in Workers : task' = [ task EXCEPT ![t].at = "scale" ]
    PROVE  EncoderInv'
<1>1. NumbersKnown'
  <2>1. job' \in EncoderJobs /\ pc' = "idle" /\ orphaned' \in BOOLEAN
    BY NoJobTyped DEF Enc!Fail, EncoderInv, NumbersKnown
  <2>2. DOMAIN task' = Enc!Threads /\ \A t \in Enc!Threads : TaskShaped(task'[t])
    BY WorkerShaped DEF EncoderInv, NumbersKnown
  <2>3. QED
    BY <2>1, <2>2 DEF NumbersKnown
<1>2. DeviceThumbs' /\ Enc!EmbeddedIsOwn'
  BY DEF Enc!Fail, DeviceThumbs, Enc!EmbeddedIsOwn, Enc!NoPicture
<1>3. CASE orphaned'
  BY <1>1, <1>2, <1>3 DEF EncoderInv, Owned
<1>4. CASE ~orphaned'
  <2>1. ~orphaned /\ task' = task /\ job' = Enc!NoJob /\ pc' = "idle"
    BY <1>4 DEF Enc!Fail
  <2>2. \A t \in Enc!Threads : task'[t] = Enc!Idle
    BY <2>1, NobodyWorks
  <2>3. Owned'
    BY <2>1, <2>2 DEF EncoderParameters, Owned, WorkersJoined, ThumbsOwn, OwnTask, Enc!Idle,
         Enc!NoJob, Enc!Threads, Enc!Client
  <2>4. QED
    BY <1>1, <1>2, <2>3 DEF EncoderInv
<1>5. QED
  BY <1>3, <1>4

\* A picture is started by an idle client, for which nobody works.
LEMMA StartedKeeps ==
    ASSUME EncoderParameters, EncoderInv, DevicesKnown', pc = "idle",
           NEW max \in Nat, NEW thumb \in BOOLEAN, EncoderNumbers(app'),
           Started(max, thumb), UNCHANGED << shot, given, img >>
    PROVE  EncoderInv'
<1>1. CASE Enc!Fail /\ UNCHANGED << task, orphaned >>
  BY <1>1, FailKeeps DEF Started
<1>2. CASE Enc!Fail /\ orphaned' /\ \E t \in Workers : task' = [ task EXCEPT ![t].at = "scale" ]
  <2>1. orphaned' \in BOOLEAN
    BY <1>2
  <2>2. QED
    BY <1>2, <2>1, FailKeeps DEF Started
<1>3. ASSUME NEW t \in Enc!Threads,
             pc' = "device", out' = Enc!NoPicture, enc'.pending = {}, orphaned' = orphaned,
             thumb /\ enc'.nogen => given = shot,
             job' = [ Enc!NoJob EXCEPT !.max = max, !.thumb = thumb, !.worker = t ],
             \/ t = Enc!Client /\ task' = task
             \/ /\ t \in Workers /\ thumb /\ ~enc'.nogen /\ task[t] = Enc!Idle
                /\ task' = [ task EXCEPT ![t].at = "scale" ]
      PROVE  EncoderInv'
  <2>1. /\ job' \in EncoderJobs /\ job'.worker = t /\ job'.thumb = thumb /\ job'.thumblen = 0
    BY <1>3, NoJobTyped DEF Enc!NoJob, EncoderJobs
  <2>2. DOMAIN task' = Enc!Threads /\ \A u \in Enc!Threads : TaskShaped(task'[u])
    BY <1>3, WorkerShaped DEF EncoderInv, NumbersKnown
  <2>3. NumbersKnown'
    BY <1>3, <2>1, <2>2 DEF EncoderInv, NumbersKnown, Started
  <2>4. DeviceThumbs' /\ Enc!EmbeddedIsOwn'
    BY <1>3, <2>1 DEF Started, DeviceThumbs, Enc!EmbeddedIsOwn, Enc!NoPicture
  <2>5. ASSUME ~orphaned
        PROVE  WorkersJoined' /\ ThumbsOwn'
    <3>1. \A u \in Enc!Threads : task[u] = Enc!Idle
      BY <2>5, NobodyWorks
    <3>2. CASE t = Enc!Client /\ task' = task
      BY <1>3, <2>1, <3>1, <3>2 DEF EncoderParameters, WorkersJoined, ThumbsOwn, OwnTask,
           Enc!Idle, Enc!Threads, Enc!Client
    <3>3. CASE t \in Workers /\ thumb /\ ~enc'.nogen /\ task' = [ task EXCEPT ![t].at = "scale" ]
      <4>1. \A u \in Enc!Threads : u # t => task'[u] = Enc!Idle
        BY <3>1, <3>3, WorkerShaped DEF EncoderInv
      <4>2. task'[t].at = "scale" /\ t # Enc!Client
        BY <3>3, WorkerShaped, NoJobTyped DEF EncoderInv
      <4>3. WorkersJoined'
        BY <1>3, <2>1, <3>3, <4>1, <4>2, NoJobTyped DEF WorkersJoined, Enc!Idle, Enc!Threads
      <4>4. ThumbsOwn'
        BY <1>3, <2>1, <4>1, <4>2 DEF ThumbsOwn, OwnTask, Enc!Idle, Enc!Threads
      <4>5. QED
        BY <4>3, <4>4
    <3>4. QED
      BY <1>3, <3>2, <3>3
  <2>6. Owned'
    BY <1>3, <2>5 DEF Owned
  <2>7. QED
    BY <2>3, <2>4, <2>6 DEF EncoderInv
<1>4. QED
  BY <1>1, <1>2, <1>3 DEF Started

\* encode: refused for the buffer or the kinds of memory, or started.
LEMMA EncodeHolds ==
    ASSUME EncoderParameters, EncoderInv, DevicesKnown', NEW r \in Requests,
           Enc!Encode(r.exif, r.debug, r.max)
    PROVE  EncoderInv'
<1> DEFINE e == r.exif
           thumb == Enc!Has(e) /\ e.thumb
<1>1. /\ e \in Enc!Exif \cup {Enc!NoExif} /\ r.max \in Nat /\ Enc!WriteAPPX(r.debug) \in Nat
  BY DEF EncoderParameters
<1>2. thumb \in BOOLEAN
  OBVIOUS
<1>3. /\ pc = "idle" /\ UNCHANGED << shot, given, img >>
      /\ thumb => (enc.nogen /\ enc.thumbType # "none" => given = shot)
  BY DEF Enc!Encode
<1>4. /\ Settings(enc) /\ Alone(enc, main) /\ DOMAIN jpg = {"size", "of"} /\ Known(main)
  BY DEF EncoderInv, NumbersKnown, DeviceThumbs, DevicesKnown
<1>5. \/ /\ Enc!NothingStarted /\ Enc!Fail /\ main' \in {main, Enc!SetJpegBuffer(main)}
         /\ UNCHANGED << enc, jpg >>
      \/ /\ app' = Enc!Written(e, r.debug, r.max)
         /\ \E fail \in MainFailures : Enc!Start(r.max, thumb, fail)
  BY DEF Enc!Encode
<1>6. CASE /\ Enc!NothingStarted /\ Enc!Fail /\ main' \in {main, Enc!SetJpegBuffer(main)}
           /\ UNCHANGED << enc, jpg >>
  <2>1. main'.fmt = main.fmt
    BY <1>4, <1>6, FormatStays
  <2>2. Settings(enc') /\ Alone(enc, main)' /\ DOMAIN jpg' = {"size", "of"}
    BY <1>4, <1>6, <2>1 DEF Alone, Enc!IsB2BCompression
  <2>3. QED
    BY <1>3, <1>6, <2>2, FailKeeps DEF Enc!NothingStarted
<1>7. CASE /\ app' = Enc!Written(e, r.debug, r.max)
           /\ \E fail \in MainFailures : Enc!Start(r.max, thumb, fail)
  <2>1. EncoderNumbers(app')
    BY <1>1, <1>7, WrittenTyped
  <2> HIDE DEF thumb
  <2>2. Started(r.max, thumb)
    BY <1>2, <1>3, <1>7, StartStarts
  <2>3. QED
    BY <1>1, <1>2, <1>3, <2>1, <2>2, StartedKeeps
<1>8. QED
  BY <1>5, <1>6, <1>7

-----------------------------------------------------------------------------
\* A thread's step, which leaves the client and the device where they are.
Step(t, k) ==
    /\ task[t] # Enc!Idle /\ task' = [ task EXCEPT ![t] = k ]
    /\ TaskShaped(k) /\ k.at \in {"queue", "wait", "done"}
    /\ DOMAIN jpg' = {"size", "of"}
    /\ UNCHANGED << enc, shot, given, app, pc, job, out, orphaned, main >>

\* It does so for the picture that its thread works for.
StepOwns(t, k) ==
    /\ k.at \in {"queue", "wait"} => k.of = shot
    /\ k.at = "done" /\ k.len # 0 => jpg'.of = shot

\* A worker steps for the picture that is encoded, the client for its own thumbnail.
LEMMA StepKeeps ==
    ASSUME EncoderParameters, EncoderInv, DevicesKnown', NEW t \in Enc!Threads, NEW k, Step(t, k),
           ~orphaned /\ t \in Workers =>
               /\ StepOwns(t, k)
               /\ k.at # "done" \/ k.len # 0 => img'.of = shot,
           ~orphaned /\ t = Enc!Client =>
               /\ img' = img
               /\ pc = "separate" => StepOwns(t, k)
               /\ pc = "retry" => /\ k.limit = task[t].limit
                                  /\ k.at = "done" /\ k.len # 0 => k.len <= k.limit
                                  /\ job.thumblen # 0 => StepOwns(t, k)
    PROVE  EncoderInv'
<1>1. NumbersKnown'
  BY DEF Step, EncoderInv, NumbersKnown
<1>2. DeviceThumbs' /\ Enc!EmbeddedIsOwn'
  BY DEF Step, EncoderInv, DeviceThumbs, Alone, Enc!IsB2BCompression, Enc!EmbeddedIsOwn
<1>3. task'[t] = k /\ \A u \in Enc!Threads : u # t => task'[u] = task[u]
  BY DEF Step, EncoderInv, NumbersKnown
<1>4. ASSUME ~orphaned
      PROVE  WorkersJoined' /\ ThumbsOwn'
  <2>1. WorkersJoined /\ ThumbsOwn
    BY <1>4 DEF EncoderInv, Owned
  <2>2. Enc!Client \in Enc!Threads /\ Enc!Client \notin Workers /\ Workers \subseteq Enc!Threads
    BY NoJobTyped DEF Enc!Threads
  <2>3. CASE t \in Workers
    <3>1. t = job.worker /\ t # Enc!Client /\ pc \in {"device", "joining"} /\ job.thumblen = 0
      BY <2>1, <2>2, <2>3 DEF Step, WorkersJoined, ThumbsOwn
    <3>2. WorkersJoined'
      BY <1>3, <2>1, <2>2, <3>1 DEF Step, WorkersJoined
    <3>3. \A u \in Workers : u # t => task'[u] = Enc!Idle
      BY <1>3, <2>1, <2>2, <3>1 DEF WorkersJoined
    <3>4. ThumbsOwn'
      BY <1>3, <1>4, <2>3, <3>1, <3>3 DEF Step, StepOwns, ThumbsOwn, OwnTask, Enc!Idle
    <3>5. QED
      BY <3>2, <3>4
  <2>4. CASE t = Enc!Client
    <3>1. pc \in {"separate", "retry"} /\ job.worker = Enc!Client
      BY <2>1, <2>4 DEF Step, WorkersJoined
    <3>2. \A u \in Workers : task'[u] = Enc!Idle
      BY <1>3, <2>1, <2>2, <2>4, <3>1 DEF WorkersJoined
    <3>3. WorkersJoined'
      BY <1>3, <2>1, <2>4, <3>1, <3>2 DEF Step, WorkersJoined
    <3>4. ThumbsOwn'
      BY <1>3, <1>4, <2>1, <2>4, <3>1, <3>2 DEF Step, StepOwns, ThumbsOwn, OwnTask, Enc!Idle
    <3>5. QED
      BY <3>3, <3>4
  <2>5. QED
    BY <2>3, <2>4 DEF Enc!Threads
<1>5. Owned'
  BY <1>4 DEF Owned, Step
<1>6. QED
  BY <1>1, <1>2, <1>5 DEF EncoderInv

\* GenerateThumbnailImage scales the shot of the picture that is encoded.
LEMMA ScaleKeeps ==
    ASSUME EncoderParameters, EncoderInv, DevicesKnown', NEW t \in Enc!Threads, Enc!Scale(t)
    PROVE  EncoderInv'
<1> DEFINE done == [ task[t] EXCEPT !.at = "done", !.len = 0 ]
           scaled == [ task[t] EXCEPT !.at = "queue", !.kind = "dma", !.of = shot,
                                      !.limit = Enc!szMaxThumb(app.exif) ]
<1>1. NumbersKnown /\ TaskShaped(task[t]) /\ DOMAIN jpg = {"size", "of"}
  BY DEF EncoderInv, NumbersKnown
<1>2. TaskShaped(done) /\ done.at = "done" /\ done.len = 0
  BY <1>1 DEF TaskShaped
<1>3. TaskShaped(scaled) /\ scaled.at = "queue" /\ scaled.of = shot
  BY <1>1 DEF TaskShaped
<1>4. \A enough \in BOOLEAN : Enc!Scaled(enough).of = shot
  BY DEF Enc!Scaled
<1>5. /\ DOMAIN jpg' = {"size", "of"}
      /\ \/ task' = [ task EXCEPT ![t] = done ]
         \/ task' = [ task EXCEPT ![t] = scaled ] /\ img'.of = shot
  BY <1>1, <1>4 DEF Enc!Scale, Enc!Done, Enc!AllocThumbJpegBuffer
<1>6. task[t].at = "scale" /\ UNCHANGED << enc, shot, given, app, pc, job, out, orphaned, main >>
  BY DEF Enc!Scale
<1>7. task[t] # Enc!Idle
  BY <1>6 DEF Enc!Idle
<1>8. ~orphaned => t # Enc!Client
  BY <1>6 DEF EncoderInv, Owned, WorkersJoined
<1> HIDE DEF done, scaled
<1>9. CASE task' = [ task EXCEPT ![t] = done ]
  <2>1. Step(t, done)
    BY <1>2, <1>5, <1>6, <1>7, <1>9 DEF Step
  <2>2. StepOwns(t, done)
    BY <1>2 DEF StepOwns
  <2>3. QED
    BY <1>2, <1>8, <2>1, <2>2, StepKeeps
<1>10. CASE task' = [ task EXCEPT ![t] = scaled ] /\ img'.of = shot
  <2>1. Step(t, scaled)
    BY <1>3, <1>5, <1>6, <1>7, <1>10 DEF Step
  <2>2. StepOwns(t, scaled)
    BY <1>3 DEF StepOwns
  <2>3. QED
    BY <1>8, <1>10, <2>1, <2>2, StepKeeps
<1>11. QED
  BY <1>5, <1>9, <1>10

\* CompressThumbnailOnly compresses what its thread scaled or was given.
LEMMA ThumbQueueHolds ==
    ASSUME EncoderParameters, EncoderInv, DevicesKnown', NEW t \in Enc!Threads, Enc!ThumbQueue(t)
    PROVE  EncoderInv'
<1> DEFINE done == [ task[t] EXCEPT !.at = "done", !.len = 0 ]
           waits == [ task[t] EXCEPT !.at = "wait" ]
<1>1. NumbersKnown /\ TaskShaped(task[t]) /\ DOMAIN jpg = {"size", "of"}
  BY DEF EncoderInv, NumbersKnown
<1>2. /\ TaskShaped(done) /\ done.at = "done" /\ done.len = 0 /\ done.limit = task[t].limit
      /\ Enc!Done(t, 0) = [ task EXCEPT ![t] = done ]
  BY <1>1 DEF TaskShaped, Enc!Done
<1>3. /\ TaskShaped(waits) /\ waits.at = "wait" /\ waits.of = task[t].of
      /\ waits.limit = task[t].limit
  BY <1>1 DEF TaskShaped
<1>4. /\ task[t].at = "queue" /\ UNCHANGED << jpg, img >>
      /\ UNCHANGED << enc, shot, given, app, pc, job, out, orphaned, main >>
      /\ task' = [ task EXCEPT ![t] = done ] \/ task' = [ task EXCEPT ![t] = waits ]
  BY <1>2 DEF Enc!ThumbQueue
<1>5. task[t] # Enc!Idle
  BY <1>4 DEF Enc!Idle
<1>6. ASSUME ~orphaned
      PROVE  /\ t \in Workers => task[t].of = shot /\ img.of = shot
             /\ t = Enc!Client /\ (pc = "separate" \/ (pc = "retry" /\ job.thumblen # 0))
                  => task[t].of = shot
  BY <1>4, <1>6 DEF EncoderInv, Owned, ThumbsOwn, OwnTask
<1> HIDE DEF done, waits
<1>7. CASE task' = [ task EXCEPT ![t] = done ]
  <2>1. Step(t, done)
    BY <1>1, <1>2, <1>4, <1>5, <1>7 DEF Step
  <2>2. StepOwns(t, done)
    BY <1>2 DEF StepOwns
  <2>3. QED
    BY <1>2, <1>4, <2>1, <2>2, StepKeeps
<1>8. CASE task' = [ task EXCEPT ![t] = waits ]
  <2>1. Step(t, waits)
    BY <1>1, <1>3, <1>4, <1>5, <1>8 DEF Step
  <2>2. task[t].of = shot => StepOwns(t, waits)
    BY <1>3 DEF StepOwns
  <2>3. QED
    BY <1>3, <1>4, <1>6, <2>1, <2>2, StepKeeps
<1>9. QED
  BY <1>4, <1>7, <1>8

\* The stream that counts is of the image it was compressed from.
LEMMA ThumbWaitHolds ==
    ASSUME EncoderParameters, EncoderInv, DevicesKnown', NEW t \in Enc!Threads, Enc!ThumbWait(t)
    PROVE  EncoderInv'
<1>1. PICK len \in {0} \cup { n \in ThumbLengths : n <= task[t].limit } : task' = Enc!Done(t, len)
  BY DEF Enc!ThumbWait
<1>2. len \in Nat /\ (len # 0 => len <= task[t].limit)
  BY <1>1 DEF EncoderParameters
<1> DEFINE done == [ task[t] EXCEPT !.at = "done", !.len = len ]
<1>3. TaskShaped(task[t]) /\ DOMAIN jpg = {"size", "of"}
  BY DEF EncoderInv, NumbersKnown
<1>4. /\ TaskShaped(done) /\ done.at = "done" /\ done.len = len /\ done.limit = task[t].limit
      /\ task' = [ task EXCEPT ![t] = done ]
  BY <1>1, <1>2, <1>3 DEF TaskShaped, Enc!Done
<1>5. /\ task[t].at = "wait" /\ img' = img
      /\ UNCHANGED << enc, shot, given, app, pc, job, out, orphaned, main >>
      /\ jpg' = [ jpg EXCEPT !.of = task[t].of ]
  BY DEF Enc!ThumbWait
<1>6. jpg'.of = task[t].of /\ DOMAIN jpg' = {"size", "of"} /\ task[t] # Enc!Idle
  BY <1>3, <1>5 DEF Enc!Idle
<1>7. ASSUME ~orphaned
      PROVE  /\ t \in Workers => task[t].of = shot /\ img.of = shot
             /\ t = Enc!Client /\ (pc = "separate" \/ (pc = "retry" /\ job.thumblen # 0))
                  => task[t].of = shot
  BY <1>5, <1>7 DEF EncoderInv, Owned, ThumbsOwn, OwnTask
<1> HIDE DEF done
<1>8. Step(t, done)
  BY <1>4, <1>5, <1>6 DEF Step
<1>9. task[t].of = shot => StepOwns(t, done)
  BY <1>4, <1>6 DEF StepOwns
<1>10. QED
  BY <1>2, <1>4, <1>5, <1>7, <1>8, <1>9, StepKeeps

-----------------------------------------------------------------------------
(* The end of a picture.                                                    *)

\* The picture's own length is a number.
LEMMA LengthTyped ==
    ASSUME EncoderParameters, NumbersKnown, pc = "device",
           NEW len \in {MainLength, job.max - app.main}
    PROVE  Enc!Least(len, job.max - app.main) \in Int
BY DEF EncoderParameters, NumbersKnown, EncoderNumbers, EncoderJobs, Enc!Least

\* The device ends with picture and thumbnail, or fails the call and leaves an orphan.
LEMMA DeviceDoneHolds ==
    ASSUME EncoderParameters, EncoderInv, DevicesKnown', Enc!DeviceDone
    PROVE  EncoderInv'
<1>1. PICK fail \in MainFailures \cap {"none", "error"}, len \in {MainLength, job.max - app.main} :
        LET run == Enc!DQBuf(main, fail)
            room == Enc!Least(len, job.max - app.main)
        IN /\ main' = run.dev
           /\ IF ~run.ok
              THEN Enc!Fail /\ jpg' = jpg /\ orphaned' = (orphaned \/ job.worker # Enc!Client)
              ELSE /\ pc' = "joining" /\ out' = out /\ orphaned' = orphaned
                   /\ IF Enc!IsB2BCompression(main)
                      THEN \E thumblen \in ThumbLengths :
                             /\ job' = [ job EXCEPT !.mainlen = room, !.thumblen = thumblen ]
                             /\ jpg' = [ jpg EXCEPT !.of = given ]
                      ELSE job' = [ job EXCEPT !.mainlen = room ] /\ jpg' = jpg
  BY DEF Enc!DeviceDone
<1> DEFINE room == Enc!Least(len, job.max - app.main)
<1>2. pc = "device" /\ UNCHANGED << enc, shot, given, img, app, task >>
  BY DEF Enc!DeviceDone
<1>3. /\ NumbersKnown /\ DOMAIN jpg = {"size", "of"} /\ job \in EncoderJobs /\ Known(main)
      /\ Alone(enc, main) /\ enc.pending = {} /\ (job.thumb /\ enc.nogen => given = shot)
      /\ orphaned \in BOOLEAN /\ enc.nogen \in BOOLEAN
  BY <1>2 DEF EncoderInv, NumbersKnown, DeviceThumbs, DevicesKnown, Settings
<1>4. room \in Int
  BY <1>1, <1>2, <1>3, LengthTyped
<1>5. Alone(enc, main)'
  BY <1>1, <1>2, <1>3, FormatStays DEF Alone, Enc!IsB2BCompression
<1> HIDE DEF room
<1>6. CASE Enc!Fail /\ jpg' = jpg /\ orphaned' = (orphaned \/ job.worker # Enc!Client)
  <2>1. orphaned' \in BOOLEAN /\ job' \in EncoderJobs
    BY <1>6, NoJobTyped DEF Enc!Fail
  <2>2. NumbersKnown'
    BY <1>2, <1>3, <1>6, <2>1 DEF NumbersKnown, Enc!Fail
  <2>3. DeviceThumbs' /\ Enc!EmbeddedIsOwn'
    BY <1>5, <1>6 DEF Enc!Fail, DeviceThumbs, Enc!EmbeddedIsOwn, Enc!NoPicture
  <2>4. ASSUME ~orphaned'
        PROVE  \A t \in Enc!Threads : task'[t] = Enc!Idle
    <3>1. ~orphaned /\ job.worker = Enc!Client
      BY <1>6, <2>4
    <3>2. WorkersJoined
      BY <3>1 DEF EncoderInv, Owned
    <3>3. QED
      BY <1>2, <3>1, <3>2, NoJobTyped DEF WorkersJoined, Enc!Threads
  <2>5. job' = Enc!NoJob /\ pc' = "idle"
    BY <1>6 DEF Enc!Fail
  <2>6. Owned'
    BY <2>4, <2>5 DEF EncoderParameters, Owned, WorkersJoined, ThumbsOwn, OwnTask, Enc!Idle,
         Enc!NoJob, Enc!Threads, Enc!Client
  <2>7. QED
    BY <2>2, <2>3, <2>6 DEF EncoderInv
<1>7. ASSUME pc' = "joining", out' = out, orphaned' = orphaned,
             \/ /\ Enc!IsB2BCompression(main)
                /\ \E thumblen \in ThumbLengths :
                      /\ job' = [ job EXCEPT !.mainlen = room, !.thumblen = thumblen ]
                      /\ jpg' = [ jpg EXCEPT !.of = given ]
             \/ job' = [ job EXCEPT !.mainlen = room ] /\ jpg' = jpg
      PROVE  EncoderInv'
  <2>1. /\ job' \in EncoderJobs /\ job'.thumb = job.thumb /\ job'.worker = job.worker
        /\ DOMAIN jpg' = {"size", "of"}
        /\ \/ Enc!IsB2BCompression(main) /\ jpg'.of = given
           \/ job'.thumblen = job.thumblen /\ jpg' = jpg
    BY <1>3, <1>4, <1>7 DEF EncoderJobs, EncoderParameters
  <2>2. NumbersKnown'
    BY <1>2, <1>3, <1>7, <2>1 DEF NumbersKnown
  <2>3. DeviceThumbs'
    BY <1>2, <1>3, <1>5, <2>1 DEF DeviceThumbs
  <2>4. Enc!EmbeddedIsOwn'
    BY <1>2, <1>7 DEF EncoderInv, Enc!EmbeddedIsOwn
  <2>5. ASSUME ~orphaned
        PROVE  WorkersJoined' /\ ThumbsOwn'
    <3>1. WorkersJoined /\ ThumbsOwn
      BY <2>5 DEF EncoderInv, Owned
    <3>2. WorkersJoined'
      BY <1>2, <1>7, <2>1, <3>1 DEF WorkersJoined
    <3>3. job.thumblen = 0
      BY <1>2, <3>1 DEF ThumbsOwn
    <3>4. CASE job'.thumblen = job.thumblen /\ jpg' = jpg
      <4>1. job'.thumblen = 0 /\ \A t : OwnTask(t) => OwnTask(t)'
        BY <1>2, <3>3, <3>4 DEF OwnTask
      <4>2. ThumbsOwn'
        BY <1>2, <1>7, <3>1, <4>1 DEF ThumbsOwn
      <4>3. QED
        BY <3>2, <4>2
    <3>5. CASE Enc!IsB2BCompression(main) /\ jpg'.of = given
      <4>1. enc.nogen /\ (job.thumb => jpg'.of = shot)
        BY <1>3, <3>5 DEF Alone
      <4>2. job.worker = Enc!Client
        BY <3>1, <4>1 DEF WorkersJoined
      <4>3. \A t \in Workers : task[t] = Enc!Idle
        BY <3>1, <4>2, NoJobTyped DEF WorkersJoined
      <4>4. pc' = "joining" /\ UNCHANGED << enc, shot, task >>
        BY <1>2, <1>7
      <4>5. \A t \in Workers : task'[t].at = "none"
        BY <4>3, <4>4 DEF Enc!Idle
      <4>6. ThumbsOwn'
        BY <2>1, <4>1, <4>2, <4>4, <4>5 DEF ThumbsOwn, OwnTask
      <4>7. QED
        BY <3>2, <4>6
    <3>6. QED
      BY <2>1, <3>4, <3>5
  <2>6. Owned'
    BY <1>7, <2>5 DEF Owned
  <2>7. QED
    BY <2>2, <2>3, <2>4, <2>6 DEF EncoderInv
<1>8. QED
  BY <1>1, <1>6, <1>7 DEF room

\* The client's own compression is of the image given, or of the one that was scaled.
LEMMA ClientTaskTyped ==
    ASSUME Settings(enc), NEW limit
    PROVE  /\ TaskShaped(Enc!ClientTask(limit)) /\ Enc!ClientTask(limit).at = "queue"
           /\ Enc!ClientTask(limit).limit = limit
           /\ enc.nogen => Enc!ClientTask(limit).of = given
           /\ ~enc.nogen => Enc!ClientTask(limit).of = img.of
<1> DEFINE of == IF Enc!IsThumbGenerationNeeded THEN img.of ELSE given
           k == [ at |-> "queue", kind |-> enc.inType, len |-> 0, limit |-> limit, of |-> of ]
<1>1. (enc.nogen => of = given) /\ (~enc.nogen => of = img.of)
  BY DEF Enc!IsThumbGenerationNeeded
<1>2. Enc!ClientTask(limit) = k
  BY DEF Enc!ClientTask
<1> HIDE DEF of
<1>3. /\ DOMAIN k = {"at", "kind", "limit", "of", "len"} /\ k.len = 0 /\ k.at = "queue"
      /\ k.limit = limit /\ k.of = of
  OBVIOUS
<1>4. TaskShaped(k)
  BY <1>3 DEF TaskShaped
<1>5. QED
  BY <1>1, <1>2, <1>3, <1>4

\* The worker is joined, the client compresses what it gave, or the device did both.
LEMMA JoinHolds ==
    ASSUME EncoderParameters, EncoderInv, DevicesKnown', Enc!Join
    PROVE  EncoderInv'
<1>1. /\ NumbersKnown /\ DeviceThumbs /\ job \in EncoderJobs /\ pc = "joining"
      /\ UNCHANGED << enc, main, shot, given, img, jpg, app, out, orphaned >>
      /\ DOMAIN task = Enc!Threads
  BY DEF EncoderInv, NumbersKnown, Enc!Join
<1>2. Enc!EmbeddedIsOwn'
  BY <1>1 DEF EncoderInv, Enc!EmbeddedIsOwn
<1>3. ASSUME job' \in EncoderJobs, job'.thumb = job.thumb, pc' \in {"placing", "separate"}
      PROVE  DeviceThumbs'
  BY <1>1, <1>3 DEF DeviceThumbs, Alone, Enc!IsB2BCompression
<1>4. CASE /\ job.thumb /\ Enc!IsThumbGenerationNeeded /\ task[job.worker].at = "done"
           /\ job' = [ job EXCEPT !.thumblen = task[job.worker].len, !.worker = Enc!Client ]
           /\ task' = [ task EXCEPT ![job.worker] = Enc!Idle ]
           /\ pc' = "placing"
  <2> DEFINE t == job.worker
  <2>1. t \in Enc!Threads /\ task[t].len \in Nat /\ ~enc.nogen
    BY <1>1, <1>4 DEF EncoderJobs, NumbersKnown, TaskShaped, Enc!IsThumbGenerationNeeded
  <2>2. /\ job' \in EncoderJobs /\ job'.thumb = job.thumb /\ job'.worker = Enc!Client
        /\ job'.thumblen = task[t].len
    BY <1>1, <1>4, <2>1, NoJobTyped DEF EncoderJobs
  <2>3. /\ task'[t] = Enc!Idle /\ (\A u \in Enc!Threads : u # t => task'[u] = task[u])
        /\ DOMAIN task' = Enc!Threads
    BY <1>1, <1>4, <2>1
  <2> HIDE DEF t
  <2>4. NumbersKnown'
    BY <1>1, <1>4, <2>2, <2>3 DEF NumbersKnown, TaskShaped, Enc!Idle
  <2>5. ASSUME ~orphaned
        PROVE  WorkersJoined' /\ ThumbsOwn'
    <3>1. WorkersJoined /\ ThumbsOwn
      BY <2>5 DEF EncoderInv, Owned
    <3>2. task[Enc!Client] = Enc!Idle /\ t # Enc!Client /\ t \in Workers
      BY <1>1, <1>4, <2>1, <3>1 DEF WorkersJoined, Enc!Idle, Enc!Threads, t
    <3>3. \A u \in Enc!Threads : task'[u] = Enc!Idle
      BY <2>3, <3>1, <3>2 DEF WorkersJoined, Enc!Threads, t
    <3>4. WorkersJoined'
      BY <1>4, <2>2, <3>3, NoJobTyped DEF WorkersJoined, Enc!Idle, Enc!Threads
    <3>5. task[t].len # 0 => jpg.of = shot /\ img.of = shot
      BY <1>4, <3>1, <3>2 DEF ThumbsOwn, OwnTask, t
    <3>6. ThumbsOwn'
      BY <1>1, <1>4, <2>2, <3>3, <3>5, NoJobTyped DEF ThumbsOwn, OwnTask, Enc!Idle, Enc!Threads
    <3>7. QED
      BY <3>4, <3>6
  <2>6. QED
    BY <1>1, <1>2, <1>3, <1>4, <2>2, <2>4, <2>5 DEF EncoderInv, Owned
<1>5. CASE /\ job.thumb /\ ~Enc!IsThumbGenerationNeeded
           /\ task' = [ task EXCEPT ![Enc!Client] = Enc!ClientTask(Enc!szMaxThumb(app.exif)) ]
           /\ pc' = "separate" /\ job' = job
  <2> DEFINE k == Enc!ClientTask(Enc!szMaxThumb(app.exif))
  <2>1. enc.nogen /\ given = shot
    BY <1>1, <1>5 DEF Enc!IsThumbGenerationNeeded, DeviceThumbs
  <2>2. TaskShaped(k) /\ k.at = "queue" /\ k.of = shot
    BY <1>1, <2>1, ClientTaskTyped DEF NumbersKnown
  <2> HIDE DEF k
  <2>3. /\ task'[Enc!Client] = k /\ (\A u \in Enc!Threads : u # Enc!Client => task'[u] = task[u])
        /\ DOMAIN task' = Enc!Threads
    BY <1>1, <1>5, NoJobTyped DEF k
  <2>4. NumbersKnown'
    BY <1>1, <1>5, <2>2, <2>3 DEF NumbersKnown
  <2>5. ASSUME ~orphaned
        PROVE  WorkersJoined' /\ ThumbsOwn'
    <3>1. WorkersJoined /\ ThumbsOwn
      BY <2>5 DEF EncoderInv, Owned
    <3>2. job.worker = Enc!Client /\ \A u \in Workers : task'[u] = Enc!Idle
      BY <2>1, <2>3, <3>1, NoJobTyped DEF WorkersJoined, Enc!Threads
    <3>3. WorkersJoined'
      BY <1>5, <2>2, <2>3, <3>2 DEF WorkersJoined
    <3>4. ThumbsOwn'
      BY <1>1, <1>5, <2>1, <2>2, <2>3, <3>1, <3>2 DEF ThumbsOwn, OwnTask, Enc!Idle
    <3>5. QED
      BY <3>3, <3>4
  <2>6. QED
    BY <1>1, <1>2, <1>3, <1>5, <2>4, <2>5 DEF EncoderInv, Owned
<1>6. CASE /\ job.thumb => ~Enc!IsThumbGenerationNeeded
           /\ pc' = "placing" /\ UNCHANGED << task, job >>
  <2>1. NumbersKnown'
    BY <1>1, <1>6 DEF NumbersKnown
  <2>2. ASSUME ~orphaned
        PROVE  WorkersJoined' /\ ThumbsOwn'
    <3>1. WorkersJoined /\ ThumbsOwn
      BY <2>2 DEF EncoderInv, Owned
    <3>2. job.worker = Enc!Client
      BY <1>6, <3>1 DEF WorkersJoined, Enc!IsThumbGenerationNeeded
    <3>3. QED
      BY <1>1, <1>6, <3>1, <3>2 DEF WorkersJoined, ThumbsOwn, OwnTask
  <2>3. QED
    BY <1>1, <1>2, <1>3, <1>6, <2>1, <2>2 DEF EncoderInv, Owned
<1>7. QED
  BY <1>4, <1>5, <1>6 DEF Enc!Join

\* A thumbnail that does not fit is compressed again from an image of the same shot.
LEMMA RetryHolds ==
    ASSUME EncoderParameters, EncoderInv, DevicesKnown', Enc!Retry
    PROVE  EncoderInv'
<1> DEFINE k == Enc!ClientTask(Enc!MaxThumbLength)
<1>1. /\ NumbersKnown /\ DeviceThumbs /\ job \in EncoderJobs /\ Settings(enc)
      /\ DOMAIN task = Enc!Threads
      /\ pc = "placing" /\ job.thumb /\ job.thumblen > Enc!MaxThumbLength
      /\ task' = [ task EXCEPT ![Enc!Client] = k ] /\ pc' = "retry"
      /\ UNCHANGED << enc, main, shot, given, img, jpg, app, job, out, orphaned >>
  BY DEF EncoderInv, NumbersKnown, Enc!Retry
<1>2. Enc!MaxThumbLength \in Int
  BY <1>1, MaxThumbLengthTyped
<1>3. /\ TaskShaped(k) /\ k.at = "queue" /\ k.limit = Enc!MaxThumbLength
      /\ enc.nogen => k.of = given
      /\ ~enc.nogen => k.of = img.of
  BY <1>1, ClientTaskTyped
<1> HIDE DEF k
<1>4. /\ task'[Enc!Client] = k /\ (\A u \in Enc!Threads : u # Enc!Client => task'[u] = task[u])
      /\ DOMAIN task' = Enc!Threads
  BY <1>1, NoJobTyped
<1>5. NumbersKnown'
  BY <1>1, <1>3, <1>4 DEF NumbersKnown
<1>6. DeviceThumbs' /\ Enc!EmbeddedIsOwn'
  BY <1>1 DEF EncoderInv, DeviceThumbs, Alone, Enc!IsB2BCompression, Enc!EmbeddedIsOwn
<1>7. ASSUME ~orphaned
      PROVE  WorkersJoined' /\ ThumbsOwn'
  <2>1. WorkersJoined /\ ThumbsOwn
    BY <1>7 DEF EncoderInv, Owned
  <2>2. job.worker = Enc!Client /\ \A u \in Workers : task'[u] = Enc!Idle
    BY <1>1, <1>4, <2>1, NoJobTyped DEF WorkersJoined, Enc!Threads
  <2>3. WorkersJoined'
    BY <1>1, <1>3, <1>4, <2>2 DEF WorkersJoined
  <2>4. job.thumblen # 0 => k.of = shot
    BY <1>1, <1>3, <2>1 DEF DeviceThumbs, ThumbsOwn
  <2>5. \A u \in Workers : task'[u].at = "none"
    BY <2>2 DEF Enc!Idle
  <2>6. job.thumblen \in Nat /\ Enc!MaxThumbLength < job.thumblen
    BY <1>1, <1>2 DEF EncoderJobs
  <2>7. ThumbsOwn'
    BY <1>1, <1>2, <1>3, <1>4, <2>1, <2>2, <2>4, <2>5, <2>6 DEF ThumbsOwn, OwnTask
  <2>8. QED
    BY <2>3, <2>7
<1>8. QED
  BY <1>1, <1>5, <1>6, <1>7 DEF EncoderInv, Owned

\* The picture ends, well or not, with nobody working.
LEMMA EndKeeps ==
    ASSUME EncoderParameters, EncoderInv, DevicesKnown', Enc!EmbeddedIsOwn',
           pc' = "idle", job' = Enc!NoJob,
           UNCHANGED << enc, main, jpg, orphaned >>,
           DOMAIN task' = Enc!Threads, \A t \in Enc!Threads : TaskShaped(task'[t]),
           ~orphaned => \A t \in Enc!Threads : task'[t] = Enc!Idle
    PROVE  EncoderInv'
<1>1. NumbersKnown'
  BY NoJobTyped DEF EncoderInv, NumbersKnown
<1>2. DeviceThumbs'
  BY DEF EncoderInv, DeviceThumbs, Alone, Enc!IsB2BCompression
<1>3. ASSUME ~orphaned
      PROVE  WorkersJoined' /\ ThumbsOwn'
  <2>1. \A t \in Enc!Threads : task'[t] = Enc!Idle
    BY <1>3
  <2>2. QED
    BY <2>1 DEF EncoderParameters, WorkersJoined, ThumbsOwn, OwnTask, Enc!Idle, Enc!NoJob,
         Enc!Threads, Enc!Client
<1>4. QED
  BY <1>1, <1>2, <1>3 DEF EncoderInv, Owned

\* A thumbnail fits, or the call fails.
LEMMA CompressedHolds ==
    ASSUME EncoderParameters, EncoderInv, DevicesKnown', Enc!Compressed
    PROVE  EncoderInv'
<1>1. /\ NumbersKnown /\ DeviceThumbs /\ job \in EncoderJobs /\ DOMAIN task = Enc!Threads
      /\ pc \in {"separate", "retry"} /\ task[Enc!Client].at = "done"
      /\ TaskShaped(task[Enc!Client])
      /\ task' = [ task EXCEPT ![Enc!Client] = Enc!Idle ]
      /\ UNCHANGED << enc, main, shot, given, img, jpg, app, orphaned >>
  BY NoJobTyped DEF EncoderInv, NumbersKnown, Enc!Compressed
<1>2. /\ task'[Enc!Client] = Enc!Idle
      /\ (\A u \in Enc!Threads : u # Enc!Client => task'[u] = task[u])
      /\ DOMAIN task' = Enc!Threads /\ \A t \in Enc!Threads : TaskShaped(task'[t])
  BY <1>1, NoJobTyped DEF NumbersKnown, TaskShaped, Enc!Idle
<1>3. ASSUME ~orphaned
      PROVE  job.worker = Enc!Client /\ \A t \in Enc!Threads : task'[t] = Enc!Idle
  BY <1>1, <1>2, <1>3, NoJobTyped DEF EncoderInv, Owned, WorkersJoined, Enc!Threads
<1>4. CASE Enc!Fail
  <2>1. Enc!EmbeddedIsOwn'
    BY <1>4 DEF Enc!Fail, Enc!EmbeddedIsOwn, Enc!NoPicture
  <2>2. QED
    BY <1>1, <1>2, <1>3, <1>4, <2>1, EndKeeps DEF Enc!Fail
<1>5. CASE /\ ~(pc = "retry" /\ task[Enc!Client].len = 0)
           /\ pc' = "placing" /\ out' = out
           /\ job' = [ job EXCEPT !.thumblen = task[Enc!Client].len ]
  <2>1. /\ job' \in EncoderJobs /\ job'.thumb = job.thumb /\ job'.worker = job.worker
        /\ job'.thumblen = task[Enc!Client].len
    BY <1>1, <1>5 DEF EncoderJobs, TaskShaped
  <2>2. NumbersKnown'
    BY <1>1, <1>2, <1>5, <2>1 DEF NumbersKnown
  <2>3. DeviceThumbs' /\ Enc!EmbeddedIsOwn'
    BY <1>1, <1>5, <2>1 DEF EncoderInv, DeviceThumbs, Alone, Enc!IsB2BCompression, Enc!EmbeddedIsOwn
  <2>4. ASSUME ~orphaned
        PROVE  WorkersJoined' /\ ThumbsOwn'
    <3>1. WorkersJoined /\ ThumbsOwn
      BY <2>4 DEF EncoderInv, Owned
    <3>2. job'.worker = Enc!Client /\ \A t \in Enc!Threads : task'[t] = Enc!Idle
      BY <1>3, <2>1, <2>4
    <3>3. WorkersJoined'
      BY <1>5, <3>2, NoJobTyped DEF WorkersJoined, Enc!Idle, Enc!Threads
    <3>4. pc = "retry" => job.thumblen # 0
      BY <1>1, <1>5, <3>1 DEF ThumbsOwn, TaskShaped, EncoderJobs
    <3>5. task[Enc!Client].len # 0 => jpg.of = shot
      BY <1>1, <3>1, <3>4 DEF ThumbsOwn, OwnTask
    <3>6. job.thumb /\ ~enc.nogen => img.of = shot
      BY <1>1, <3>1, <3>4 DEF ThumbsOwn
    <3>7. \A t \in Workers : task'[t].at = "none"
      BY <3>2 DEF Enc!Idle, Enc!Threads
    <3>8. ThumbsOwn'
      BY <1>1, <1>5, <2>1, <3>2, <3>5, <3>6, <3>7 DEF ThumbsOwn, OwnTask
    <3>9. QED
      BY <3>3, <3>8
  <2>5. QED
    BY <1>1, <2>2, <2>3, <2>4 DEF EncoderInv, Owned
<1>6. QED
  BY <1>4, <1>5 DEF Enc!Compressed

\* The picture is answered with the thumbnail that counts.
LEMMA PlaceHolds ==
    ASSUME EncoderParameters, EncoderInv, DevicesKnown', Enc!Place
    PROVE  EncoderInv'
<1>1. /\ NumbersKnown /\ job \in EncoderJobs /\ pc = "placing"
      /\ UNCHANGED << enc, main, shot, jpg, task, orphaned >>
      /\ pc' = "idle" /\ job' = Enc!NoJob /\ out' \in {Enc!NoPicture, Enc!Picture}
  BY DEF EncoderInv, NumbersKnown, Enc!Place, Enc!Fail
<1>2. DOMAIN task' = Enc!Threads /\ \A t \in Enc!Threads : TaskShaped(task'[t])
  BY <1>1 DEF NumbersKnown
<1>3. ASSUME ~orphaned
      PROVE  \A t \in Enc!Threads : task'[t] = Enc!Idle
  BY <1>1, <1>3, NoJobTyped DEF EncoderInv, Owned, WorkersJoined, Enc!Threads
<1>4. CASE out' = Enc!NoPicture
  BY <1>1, <1>2, <1>3, <1>4, EndKeeps DEF Enc!EmbeddedIsOwn, Enc!NoPicture
<1>5. CASE out' = Enc!Picture
  <2> DEFINE thumblen == IF job.thumb THEN job.thumblen ELSE 0
  <2>1. out'.shot = shot /\ out'.thumb = IF thumblen > 0 THEN jpg.of ELSE 0
    BY <1>5 DEF Enc!Picture
  <2>2. ASSUME ~orphaned, out'.thumb # 0
        PROVE  out'.thumb = out'.shot
    <3>1. ThumbsOwn
      BY <2>2 DEF EncoderInv, Owned
    <3>2. thumblen > 0 /\ out'.thumb = jpg.of
      BY <2>1, <2>2
    <3>3. job.thumb /\ job.thumblen # 0
      BY <3>2
    <3>4. QED
      BY <1>1, <2>1, <3>1, <3>2, <3>3 DEF ThumbsOwn
  <2>3. Enc!EmbeddedIsOwn'
    BY <1>1, <2>2 DEF Enc!EmbeddedIsOwn
  <2>4. QED
    BY <1>1, <1>2, <1>3, <2>3, EndKeeps
<1>6. QED
  BY <1>1, <1>4, <1>5

-----------------------------------------------------------------------------
\* A new encoder is idle.
LEMMA EncoderInit ==
    ASSUME EncoderParameters, Enc!Init
    PROVE  EncoderInv
<1>1. NumbersKnown
  <2>1. \A t \in Enc!Threads : TaskShaped(task[t])
    BY DEF Enc!Init, TaskShaped, Enc!Idle
  <2>2. /\ Settings(enc) /\ DOMAIN jpg = {"size", "of"} /\ job \in EncoderJobs
        /\ DOMAIN task = Enc!Threads
    BY NoJobTyped DEF Enc!Init, Settings
  <2>3. pc = "idle" /\ orphaned = FALSE
    BY DEF Enc!Init
  <2>4. QED
    BY <2>1, <2>2, <2>3 DEF NumbersKnown
<1>2. DevicesKnown
  BY DEF Enc!Init, DevicesKnown, Enc!NewDevice, Known, Shaped
<1>3. DeviceThumbs
  <2>1. enc.pending # {} /\ pc = "idle"
    BY DEF Enc!Init
  <2>2. QED
    BY <2>1 DEF DeviceThumbs, Alone
<1>4. Owned
  BY IdleOwns DEF Enc!Init
<1>5. Enc!EmbeddedIsOwn
  BY DEF Enc!Init, Enc!EmbeddedIsOwn, Enc!NoPicture
<1>6. QED
  BY <1>1, <1>2, <1>3, <1>4, <1>5 DEF EncoderInv

\* The invariant is inductive.
LEMMA EncoderNext ==
    ASSUME EncoderParameters, EncoderInv, [Enc!Next]_(Enc!vars)
    PROVE  EncoderInv'
<1>1. DevicesKnown'
  BY DevicesStep DEF EncoderInv
<1>2. CASE Enc!Setter
  BY <1>1, <1>2, SettersHold
<1>3. CASE \E r \in Requests : Enc!Encode(r.exif, r.debug, r.max)
  BY <1>1, <1>3, EncodeHolds
<1>4. CASE Enc!Thread
  BY <1>1, <1>4, ScaleKeeps, ThumbQueueHolds, ThumbWaitHolds DEF Enc!Thread
<1>5. CASE Enc!DeviceDone
  BY <1>1, <1>5, DeviceDoneHolds
<1>6. CASE Enc!Join \/ Enc!Retry \/ Enc!Compressed \/ Enc!Place
  BY <1>1, <1>6, JoinHolds, RetryHolds, CompressedHolds, PlaceHolds
<1>7. CASE UNCHANGED Enc!vars
  <2>1. NumbersKnown' /\ DeviceThumbs' /\ Enc!EmbeddedIsOwn'
    BY <1>7 DEF Enc!vars, EncoderInv, NumbersKnown, DeviceThumbs, Alone, Enc!IsB2BCompression,
         Enc!EmbeddedIsOwn
  <2>2. Owned'
    BY <1>7 DEF Enc!vars, EncoderInv, Owned, WorkersJoined, ThumbsOwn, OwnTask
  <2>3. QED
    BY <1>1, <2>1, <2>2 DEF EncoderInv
<1>8. QED
  BY <1>2, <1>3, <1>4, <1>5, <1>6, <1>7 DEF Enc!Next

\* EmbeddedIsOwn of JpegEncoder: whatever fails, and however often the thumbnail is
\* compressed, a thumbnail that is answered shows the picture it is in, unless a call has
\* failed with its worker running.
THEOREM EmbeddedOwn ==
    ASSUME EncoderParameters
    PROVE  Enc!Spec => []Enc!EmbeddedIsOwn
<1>1. Enc!Init => EncoderInv
  BY EncoderInit
<1>2. EncoderInv /\ [Enc!Next]_(Enc!vars) => EncoderInv'
  BY EncoderNext
<1>3. EncoderInv => Enc!EmbeddedIsOwn
  BY DEF EncoderInv
<1>4. QED
  BY <1>1, <1>2, <1>3, PTL DEF Enc!Spec

-----------------------------------------------------------------------------
(* The stream an answered picture is: its sizes as announced and as written. *)

\* The head of the stream that is being written: room for a thumbnail or none,
\* no more than the buffer has, and what is remembered of it agrees.
HeadHolds(a, thumb, max) ==
    /\ a.exif \in Enc!Exif \cup {Enc!NoExif}
    /\ thumb => Enc!Has(a.exif) /\ a.exif.thumb
    /\ Enc!Has(a.exif) => Enc!App1Size(a.exif) <= Enc!MaxSegment
    /\ Enc!WriteAPPX(a.debug) \in Nat
    /\ \E room \in {0, Enc!szMaxThumb(a.exif)} :
          /\ a.len = Enc!szApp1(a.exif) + room
          /\ a.app1End = Enc!Marker
                          + (IF Enc!Has(a.exif) THEN Enc!Marker + Enc!szApp1(a.exif) ELSE 0)
                          + room
    /\ a.main = a.app1End + Enc!WriteAPPX(a.debug) + a.szApp11 - Enc!Marker
    /\ a.reserved = Enc!IsThumbSpaceReserved(a.exif, a.app1End)
    /\ max \in Nat /\ a.main <= max

HeadInv ==
    /\ app.szApp11 \in Nat
    /\ pc # "idle" => HeadHolds(app, job.thumb, job.max)
    /\ pc \in {"joining", "separate", "retry", "placing"}
          => job.mainlen \in Int /\ job.mainlen >= 0 /\ job.mainlen <= job.max - app.main
    /\ Enc!PartsFit

-----------------------------------------------------------------------------
\* A value, in or behind its directory, is counted as it is written.
LEMMA ValuesAgree ==
    ASSUME NEW n \in Nat
    PROVE  /\ Enc!Optional(n, 3, n + 1) = Enc!Field * Enc!One(n > 0) + Enc!Text(n)
           /\ Enc!Optional(n, 4, n) = Enc!Field * Enc!One(n > 0) + Enc!Blob(n)
           /\ Enc!One(n > 0) \in Nat /\ Enc!Text(n) \in Nat /\ Enc!Blob(n) \in Nat
BY DEF Enc!Optional, Enc!Field, Enc!One, Enc!Text, Enc!Blob, Enc!Outside

\* The main directory is as long as its size says.
LEMMA MainDirectoryAgrees ==
    ASSUME NEW e \in Enc!Exif
    PROVE  Enc!Size0th(e) = Enc!Directory(Enc!Fields0th(e)) + Enc!Rationals(2) + Enc!Text(e.maker)
                           + Enc!Text(e.model) + Enc!Text(e.software) + Enc!Outside(Enc!DateTime)
<1>1. e.maker \in Nat /\ e.model \in Nat /\ e.software \in Nat /\ Enc!One(e.gps) \in Nat
  BY DEF Enc!Exif, Enc!One
<1> DEFINE m == Enc!One(e.maker > 0)
           s == Enc!One(e.software > 0)
           o == Enc!One(e.model > 0)
           g == Enc!One(e.gps)
           tm == Enc!Text(e.maker)
           ts == Enc!Text(e.software)
           to == Enc!Text(e.model)
<1>2. {m, s, o, g, tm, ts, to} \subseteq Nat
  BY <1>1, ValuesAgree
<1>3. Enc!Size0th(e) = 2 + 4 + 12 * 7 + 2 * 8 + 20 + (12 * m + tm) + (12 * s + ts) + (12 * o + to)
                   + 12 * g
  BY <1>1, ValuesAgree DEF Enc!Size0th, Enc!Field, Enc!DateTime
<1>4. Enc!Fields0th(e) = 7 + m + s + o + g
  BY DEF Enc!Fields0th
<1>5. Enc!Rationals(2) = 16 /\ Enc!Outside(Enc!DateTime) = 20
  BY DEF Enc!Rationals, Enc!Outside, Enc!DateTime
<1> HIDE DEF m, s, o, g, tm, ts, to
<1>6. Enc!Directory(Enc!Fields0th(e)) = 2 + 12 * (7 + m + s + o + g) + 4
  BY <1>4 DEF Enc!Directory, Enc!Field
<1>7. Enc!Size0th(e) = Enc!Directory(Enc!Fields0th(e)) + Enc!Rationals(2) + tm + to + ts
                       + Enc!Outside(Enc!DateTime)
  BY <1>2, <1>3, <1>5, <1>6
<1>8. QED
  BY <1>7 DEF tm, to, ts

\* So is the Exif directory, with that of its interoperability index.
LEMMA ExifDirectoryAgrees ==
    ASSUME NEW e \in Enc!Exif
    PROVE  Enc!SizeExif(e) = Enc!WriteExif(e)
<1>1. e.unique_id \in Nat /\ e.maker_note \in Nat /\ e.user_comment \in Nat
  BY DEF Enc!Exif
<1> DEFINE u == Enc!One(e.unique_id > 0)
           n == Enc!One(e.maker_note > 0)
           c == Enc!One(e.user_comment > 0)
           tu == Enc!Text(e.unique_id)
           bn == Enc!Blob(e.maker_note)
           bc == Enc!Blob(e.user_comment)
<1>2. {u, n, c, tu, bn, bc} \subseteq Nat
  BY <1>1, ValuesAgree
<1>3. Enc!SizeExif(e) = 2 + 4 + 12 * 20 + 8 * 8 + (12 + 20) * 2 + (12 + 5) * 3 + (12 * u + tu)
                    + (12 * n + bn) + (12 * c + bc) + 12 + 2 + 4 + 12 * 2
  BY <1>1, ValuesAgree DEF Enc!SizeExif, Enc!Field, Enc!DateTime, Enc!SubsecTime
<1>4. Enc!FieldsExif(e) = 26 + u + n + c
  BY DEF Enc!FieldsExif
<1>5. /\ Enc!Rationals(2) = 16 /\ Enc!Rationals(5) = 40 /\ Enc!Rationals(1) = 8
      /\ Enc!Outside(4) = 0 /\ Enc!Outside(Enc!DateTime) = 20
      /\ Enc!Outside(Enc!SubsecTime) = 5 /\ Enc!WriteInterop = 30
  BY DEF Enc!Rationals, Enc!Outside, Enc!DateTime, Enc!SubsecTime, Enc!WriteInterop,
       Enc!Directory, Enc!Field
<1> HIDE DEF u, n, c, tu, bn, bc
<1>6. Enc!Directory(Enc!FieldsExif(e)) = 2 + 12 * (26 + u + n + c) + 4
  BY <1>4 DEF Enc!Directory, Enc!Field
<1>7. Enc!WriteExif(e) = (2 + 12 * (26 + u + n + c) + 4) + 16 + 0 + 20 + 20 + 40 + 8 + 5 + 5 + 5
                     + bn + bc + tu + 30
  BY <1>5, <1>6 DEF Enc!WriteExif, bn, bc, tu
<1>8. /\ u \in Nat /\ n \in Nat /\ c \in Nat /\ tu \in Nat /\ bn \in Nat /\ bc \in Nat
  BY <1>2
<1>9. QED
  BY <1>3, <1>7, <1>8

\* And the GPS directory, whose method is cut to MaxMethod characters.
LEMMA GpsDirectoryAgrees ==
    ASSUME NEW e \in Enc!Exif
    PROVE  Enc!SizeGps(e) = Enc!WriteGps(e)
<1>1. e.gps_method \in Nat
  BY DEF Enc!Exif
<1> DEFINE len == Enc!Least(e.gps_method, 99)
           rest == IF len > 0 THEN len + 8 + 1 ELSE 0
<1>2. len \in Nat /\ (len > 0 <=> e.gps_method > 0) /\ rest \in Nat
  BY <1>1 DEF Enc!Least
<1>3. Enc!SizeGps(e) = 2 + 4 + 12 * 8 + 8 * 10 + 12 + 11 + 12 * Enc!One(len > 0) + rest
  BY <1>2 DEF Enc!SizeGps, Enc!MaxMethod, Enc!Field, Enc!DateStamp, Enc!Prefix, Enc!One
<1>4. /\ Enc!Rationals(3) = 24 /\ Enc!Rationals(1) = 8 /\ Enc!Outside(4) = 0 /\ Enc!Outside(2) = 0
      /\ Enc!Outside(1) = 0 /\ Enc!Outside(Enc!DateStamp) = 11
  BY DEF Enc!Rationals, Enc!Outside, Enc!DateStamp
<1>5. Enc!FieldsGps(e) = 9 + Enc!One(len > 0)
  BY DEF Enc!FieldsGps, Enc!MaxMethod
<1>6. (IF e.gps_method > 0 THEN Enc!Outside(len + Enc!Prefix + 1) ELSE 0) = rest
  BY <1>2 DEF Enc!Outside, Enc!Prefix
<1>7. Enc!One(len > 0) \in Nat
  BY DEF Enc!One
<1> HIDE DEF len, rest
<1>8. Enc!WriteGps(e) = (2 + 12 * (9 + Enc!One(len > 0)) + 4) + 0 + 0 + 24 + 0 + 24 + 0 + 8
                         + 11 + 24 + rest
  BY <1>4, <1>5, <1>6 DEF Enc!WriteGps, Enc!Directory, Enc!Field, len
<1>9. QED
  BY <1>2, <1>3, <1>7, <1>8

\* APP1 is announced, in CalculateAPPSize, with the length WriteAPP1 writes, whatever the
\* attributes are.
THEOREM SizesAgree ==
    ASSUME NEW e \in Enc!Exif
    PROVE  Enc!WriteAPP1(e) = Enc!Marker + Enc!App1Size(e)
<1>1. /\ Enc!Size0th(e) = Enc!Directory(Enc!Fields0th(e)) + Enc!Rationals(2) + Enc!Text(e.maker)
                         + Enc!Text(e.model) + Enc!Text(e.software) + Enc!Outside(Enc!DateTime)
      /\ Enc!SizeExif(e) = Enc!WriteExif(e) /\ Enc!SizeGps(e) = Enc!WriteGps(e)
  BY MainDirectoryAgrees, ExifDirectoryAgrees, GpsDirectoryAgrees
<1>2. Enc!Size1st = Enc!Directory(6)
  BY DEF Enc!Size1st, Enc!Directory, Enc!Field
<1>3. /\ Enc!Fields0th(e) \in Nat /\ e.maker \in Nat /\ e.model \in Nat /\ e.software \in Nat
  BY DEF Enc!Fields0th, Enc!One, Enc!Exif
<1>4. /\ Enc!Text(e.maker) \in Nat /\ Enc!Text(e.model) \in Nat /\ Enc!Text(e.software) \in Nat
      /\ Enc!Directory(Enc!Fields0th(e)) \in Nat /\ Enc!Rationals(2) \in Nat
      /\ Enc!Outside(Enc!DateTime) \in Nat
  BY <1>3, SizesTyped DEF Enc!DateTime
<1>5. /\ Enc!SizeExif(e) \in Nat /\ Enc!SizeGps(e) \in Nat /\ Enc!Directory(6) \in Nat
  BY AttributesTyped, SizesTyped
<1>6. QED
  BY <1>1, <1>2, <1>4, <1>5 DEF Enc!WriteAPP1, Enc!App1Size, Enc!LenField, Enc!Identifier,
       Enc!Tiff, Enc!Marker

\* Without its thumbnail the directories are shorter by that of the thumbnail.
LEMMA WithoutThumb ==
    ASSUME NEW e \in Enc!Exif
    PROVE  /\ Enc!WriteAPP1([ e EXCEPT !.thumb = FALSE ])
                = Enc!Marker + Enc!App1Size(e) - (IF e.thumb THEN Enc!Size1st ELSE 0)
           /\ Enc!App1Size(e) >= 16 + (IF e.thumb THEN Enc!Size1st ELSE 0)
<1> DEFINE f == [ e EXCEPT !.thumb = FALSE ]
<1>1. f \in Enc!Exif /\ f.thumb = FALSE
  BY DEF Enc!Exif
<1>2. /\ f.maker = e.maker /\ f.model = e.model /\ f.software = e.software /\ f.gps = e.gps
      /\ f.unique_id = e.unique_id /\ f.maker_note = e.maker_note
      /\ f.user_comment = e.user_comment /\ f.gps_method = e.gps_method
  BY DEF Enc!Exif
<1> HIDE DEF f
<1>3. /\ Enc!Size0th(f) = Enc!Size0th(e) /\ Enc!SizeExif(f) = Enc!SizeExif(e)
      /\ Enc!SizeGps(f) = Enc!SizeGps(e)
  BY <1>2 DEF Enc!Size0th, Enc!SizeExif, Enc!SizeGps
<1>4. Enc!Size0th(e) \in Nat /\ Enc!SizeExif(e) \in Nat /\ Enc!SizeGps(e) \in Nat
  BY AttributesTyped
<1>5. Enc!App1Size(f) = Enc!App1Size(e) - (IF e.thumb THEN Enc!Size1st ELSE 0)
  BY <1>1, <1>2, <1>3, <1>4 DEF Enc!App1Size, Enc!LenField, Enc!Identifier, Enc!Tiff, Enc!Size1st,
       Enc!Field
<1>6. Enc!App1Size(e) >= 16 + (IF e.thumb THEN Enc!Size1st ELSE 0)
  BY <1>4 DEF Enc!App1Size, Enc!LenField, Enc!Identifier, Enc!Tiff, Enc!Size1st, Enc!Field
<1>7. Enc!App1Size(e) \in Nat
  BY AttributesTyped
<1>8. Enc!WriteAPP1(f) = Enc!Marker + Enc!App1Size(f)
  BY <1>1, SizesAgree
<1>9. Enc!WriteAPP1(f) = Enc!Marker + Enc!App1Size(e) - (IF e.thumb THEN Enc!Size1st ELSE 0)
  BY <1>5, <1>7, <1>8 DEF Enc!Marker, Enc!Size1st, Enc!Field
<1>10. QED
  BY <1>6, <1>9 DEF f

\* The sizes of attributes that fit.
LEMMA AttributesFit ==
    ASSUME NEW e \in Enc!Exif \cup {Enc!NoExif}, Enc!Has(e) => Enc!App1Size(e) <= Enc!MaxSegment
    PROVE  /\ Enc!szApp1(e) \in Nat /\ Enc!szMaxThumb(e) \in Nat
           /\ Enc!szApp1(e) + Enc!szMaxThumb(e) <= Enc!MaxSegment
           /\ ~Enc!Has(e) => Enc!szApp1(e) = 0 /\ Enc!szMaxThumb(e) = 0
           /\ Enc!Has(e) => Enc!szApp1(e) = Enc!App1Size(e) /\ Enc!szApp1(e) >= 16 /\ e \in Enc!Exif
<1>1. CASE Enc!Has(e)
  <2>1. e \in Enc!Exif
    BY <1>1 DEF Enc!Has
  <2>2. Enc!App1Size(e) \in Nat /\ Enc!App1Size(e) >= 16 /\ Enc!App1Size(e) <= Enc!MaxSegment
    <3>1. (IF e.thumb THEN Enc!Size1st ELSE 0) \in Nat
      BY DEF Enc!Size1st, Enc!Field
    <3>2. Enc!App1Size(e) >= 16 + (IF e.thumb THEN Enc!Size1st ELSE 0)
      BY <2>1, WithoutThumb
    <3>3. Enc!App1Size(e) \in Nat
      BY <2>1, AttributesTyped
    <3>4. Enc!App1Size(e) >= 16
      BY <3>1, <3>2, <3>3
    <3>5. QED
      BY <1>1, <3>3, <3>4
  <2>3. Enc!MaxThumb(e) \in Nat /\ Enc!App1Size(e) + Enc!MaxThumb(e) <= Enc!MaxSegment
    BY <2>2 DEF Enc!MaxThumb, Enc!MaxSegment
  <2>4. QED
    BY <1>1, <2>1, <2>2, <2>3 DEF Enc!szApp1, Enc!szMaxThumb
<1>2. CASE ~Enc!Has(e)
  BY <1>2 DEF Enc!szApp1, Enc!szMaxThumb, Enc!MaxSegment
<1>3. QED
  BY <1>1, <1>2

\* APP11 ends where the device is to write.
LEMMA AlignmentFits ==
    ASSUME NEW e, NEW debug, NEW current \in Int
    PROVE  /\ Enc!WriteAPP11(e, debug, current, Enc!Align) \in Nat
           /\ Enc!WriteAPP11(e, debug, current, Enc!Align) <= 21
<1> DEFINE n == (-(current + Enc!Marker + Enc!LenField)) % Enc!Align
<1>1. n \in 0..15
  BY DEF Enc!Marker, Enc!LenField, Enc!Align
<1> HIDE DEF n
<1>2. Enc!WriteAPP11(e, debug, current, Enc!Align) \in {0, 2 * Enc!Marker + Enc!LenField + n}
  BY DEF Enc!WriteAPP11, n
<1>3. QED
  BY <1>1, <1>2 DEF Enc!Marker, Enc!LenField

\* A buffer that is not too small has room for the head, whichever segment of a
\* stream before was counted.
LEMMA HeadIsWritten ==
    ASSUME Enc!SegmentsFit, EncoderParameters, app.szApp11 \in Nat, NEW r \in Requests,
           ~Enc!BufferTooSmall(r.exif, r.debug, r.max)
    PROVE  LET a == Enc!Written(r.exif, r.debug, r.max)
           IN HeadHolds(a, Enc!Has(r.exif) /\ r.exif.thumb, r.max) /\ a.szApp11 \in Nat
<1> DEFINE e == r.exif
           w == Enc!WriteAPPX(r.debug)
           a == Enc!Written(e, r.debug, r.max)
           reserve == Enc!Has(e) /\ e.thumb /\ r.max >= Enc!ReserveFrom
           room == IF reserve THEN Enc!szMaxThumb(e) ELSE 0
           end == Enc!Marker + (IF Enc!Has(e) THEN Enc!Marker + Enc!szApp1(e) ELSE 0) + room
           app11 == Enc!WriteAPP11(e, r.debug, end + w, Enc!Align)
<1>1. /\ e \in Enc!Exif \cup {Enc!NoExif} /\ r.max \in Nat
      /\ Enc!Has(e) => Enc!App1Size(e) <= Enc!MaxSegment
      /\ w \in Nat /\ w <= 6 * (Enc!MaxSegment + Enc!Marker)
  <2>1. /\ w \in 0..(6 * (Enc!MaxSegment + Enc!Marker))
        /\ (Enc!Has(e) => Enc!App1Size(e) <= Enc!MaxSegment)
    BY DEF Enc!SegmentsFit
  <2>2. 6 * (Enc!MaxSegment + Enc!Marker) \in Int
    BY DEF Enc!MaxSegment, Enc!Marker
  <2>3. e \in Enc!Exif \cup {Enc!NoExif} /\ r.max \in Nat
    BY DEF EncoderParameters
  <2> HIDE DEF w, e
  <2>4. QED
    BY <2>1, <2>2, <2>3
<1>2. /\ Enc!szApp1(e) \in Nat /\ Enc!szMaxThumb(e) \in Nat
      /\ Enc!szApp1(e) + Enc!szMaxThumb(e) <= Enc!MaxSegment
      /\ ~Enc!Has(e) => Enc!szApp1(e) = 0 /\ Enc!szMaxThumb(e) = 0
      /\ Enc!Has(e) => Enc!szApp1(e) = Enc!App1Size(e) /\ e \in Enc!Exif
  BY <1>1, AttributesFit
<1>3. Enc!Has(e) => /\ Enc!WriteAPP1(e) = Enc!Marker + Enc!szApp1(e)
                    /\ Enc!MaxThumb(e) = Enc!szMaxThumb(e)
  BY <1>2, SizesAgree DEF Enc!szMaxThumb
<1>4. room \in {0, Enc!szMaxThumb(e)} /\ room \in Nat
  BY <1>2
<1>5. /\ a.exif = e /\ a.debug = r.debug
      /\ a.app1End = Enc!Marker
                       + (IF Enc!Has(e)
                          THEN Enc!WriteAPP1(e) + (IF reserve THEN Enc!MaxThumb(e) ELSE 0)
                          ELSE 0)
      /\ a.szApp11 = Enc!WriteAPP11(e, r.debug, a.app1End + w, Enc!Align)
      /\ a.main = a.app1End + w + a.szApp11 - Enc!Marker
      /\ a.len = Enc!szApp1(e) + (IF reserve THEN Enc!szMaxThumb(e) ELSE 0)
      /\ a.reserved = Enc!IsThumbSpaceReserved(e, a.app1End)
  BY DEF Enc!Written, Enc!Write
<1> HIDE DEF a
<1>6. a.app1End = end
  <2>1. CASE Enc!Has(e)
    BY <1>2, <1>3, <1>5, <2>1 DEF Enc!Marker
  <2>2. CASE ~Enc!Has(e)
    BY <1>2, <1>5, <2>2 DEF Enc!Marker
  <2>3. QED
    BY <2>1, <2>2
<1>7. end \in Int
  BY <1>2, <1>4 DEF Enc!Marker
<1>8. app11 \in Nat /\ app11 <= 21 /\ a.szApp11 = app11
  BY <1>1, <1>5, <1>6, <1>7, AlignmentFits
<1>9. ~Enc!IsThumbSpaceReserved(e, -1) /\ Enc!Least(Enc!szMaxThumb(e), 0) = 0
  BY <1>2 DEF Enc!IsThumbSpaceReserved, Enc!Least, Enc!Marker
<1>10. r.max > (IF Enc!Has(e) THEN Enc!szApp1(e) + Enc!Marker ELSE 0) + w + app.szApp11
                 + Enc!Necessary
  <2>1. Enc!CalculateAPPSize(e, r.debug, -1, app.szApp11, 0)
          = (IF Enc!Has(e) THEN Enc!szApp1(e) + Enc!Marker ELSE 0) + w + 0 + app.szApp11
    BY <1>9 DEF Enc!CalculateAPPSize
  <2>2. (IF Enc!Has(e) THEN Enc!szApp1(e) + Enc!Marker ELSE 0) \in Nat
    BY <1>2 DEF Enc!Marker
  <2>3. QED
    BY <1>1, <2>1, <2>2 DEF Enc!BufferTooSmall, Enc!Necessary
<1> HIDE DEF w, app11
<1>11. a.main = end + w + app11 - Enc!Marker
  BY <1>5, <1>6, <1>8
<1>12. a.main <= r.max
  <2>1. CASE reserve
    <3>1. end <= 4 + Enc!MaxSegment
      BY <1>2, <2>1 DEF Enc!Marker, Enc!MaxSegment
    <3>2. r.max >= 10 * Enc!MaxSegment
      BY <2>1 DEF Enc!ReserveFrom
    <3>3. QED
      BY <1>1, <1>7, <1>8, <1>11, <3>1, <3>2 DEF Enc!Marker, Enc!MaxSegment
  <2>2. CASE ~reserve
    BY <1>1, <1>2, <1>8, <1>10, <1>11, <2>2 DEF Enc!Marker, Enc!Necessary
  <2>3. QED
    BY <2>1, <2>2
<1>13. a.len = Enc!szApp1(e) + room
  BY <1>5
<1> HIDE DEF reserve, room
<1>14. HeadHolds(a, Enc!Has(e) /\ e.thumb, r.max)
  BY <1>1, <1>4, <1>5, <1>6, <1>8, <1>11, <1>12, <1>13 DEF HeadHolds, w
<1>15. QED
  BY <1>8, <1>14 DEF a

-----------------------------------------------------------------------------
\* What an answered picture is made of fits, given a thumbnail that fits.
LEMMA PictureFits ==
    ASSUME HeadHolds(app, job.thumb, job.max), job \in EncoderJobs,
           job.mainlen >= 0, job.mainlen <= job.max - app.main, app.szApp11 \in Nat,
           ~(job.thumb /\ job.thumblen > Enc!MaxThumbLength), out' = Enc!Picture
    PROVE  Enc!PartsFit'
<1> DEFINE e == app.exif
           s == Enc!szApp1(e)
           m == Enc!szMaxThumb(e)
           w == Enc!WriteAPPX(app.debug)
           head == IF Enc!Has(e) THEN Enc!Marker + s ELSE 0
           t == IF job.thumb THEN job.thumblen ELSE 0
           moved == IF job.thumb /\ ~app.reserved THEN t ELSE 0
<1>1. /\ e \in Enc!Exif \cup {Enc!NoExif} /\ (Enc!Has(e) => Enc!App1Size(e) <= Enc!MaxSegment)
      /\ w \in Nat
      /\ job.thumb => Enc!Has(e) /\ e.thumb
      /\ app.main = app.app1End + w + app.szApp11 - Enc!Marker
      /\ app.reserved = Enc!IsThumbSpaceReserved(e, app.app1End)
  BY DEF HeadHolds
<1>2. PICK room \in {0, m} : app.len = s + room /\ app.app1End = Enc!Marker + head + room
  BY DEF HeadHolds
<1>3. /\ s \in Nat /\ m \in Nat /\ s + m <= Enc!MaxSegment
      /\ ~Enc!Has(e) => s = 0 /\ m = 0
      /\ Enc!Has(e) => s = Enc!App1Size(e) /\ s >= 16 /\ e \in Enc!Exif
  BY <1>1, AttributesFit
<1>4. /\ job.thumb \in BOOLEAN /\ job.thumblen \in Nat /\ job.mainlen \in Nat /\ job.max \in Nat
      /\ app.szApp11 \in Nat
  BY DEF EncoderJobs
<1>5. app.reserved <=> (app.app1End = Enc!Marker + s + m + Enc!Marker)
  BY <1>1 DEF Enc!IsThumbSpaceReserved
<1>6. /\ head \in Nat /\ room \in Nat
      /\ (Enc!Has(e) => head = s + Enc!Marker) /\ (~Enc!Has(e) => head = 0)
  BY <1>2, <1>3 DEF Enc!Marker
<1>7. ASSUME NEW thumb \in Nat
      PROVE  Enc!CalculateAPPSize(e, app.debug, app.app1End, app.szApp11, thumb)
               = head + w + (IF app.reserved THEN m ELSE Enc!Least(m, thumb)) + app.szApp11
  BY <1>1, <1>3 DEF Enc!CalculateAPPSize, Enc!Marker
<1> HIDE DEF e, s, m, w, head
<1>8. /\ app.reserved => Enc!Has(e) /\ room = m
      /\ ~app.reserved => room = 0
  BY <1>2, <1>3, <1>5, <1>6 DEF Enc!Marker
<1>9. app.main = head + room + w + app.szApp11 /\ app.main \in Nat
  BY <1>1, <1>2, <1>4, <1>6 DEF Enc!Marker
<1>10. t \in Nat /\ t <= m /\ (~app.reserved => t <= job.max - app.main - job.mainlen)
  <2>1. CASE ~job.thumb
    BY <1>3, <1>4, <1>9, <2>1
  <2>2. CASE job.thumb
    <3> DEFINE left == job.max - (head + w + (IF app.reserved THEN m ELSE Enc!Least(m, 0))
                                  + app.szApp11) - job.mainlen
    <3>1. Enc!MaxThumbLength = IF left < 0 THEN m ELSE Enc!Least(m, left)
      BY <1>7 DEF Enc!MaxThumbLength, e, m
    <3>2. Enc!Least(m, 0) = 0
      BY <1>3 DEF Enc!Least
    <3>3. left = job.max - app.main - job.mainlen /\ left >= 0
      BY <1>1, <1>3, <1>4, <1>6, <1>8, <1>9, <3>2
    <3> HIDE DEF left
    <3>4. left \in Int
      BY <1>4, <1>9, <3>3
    <3>5. Enc!MaxThumbLength \in Int /\ Enc!MaxThumbLength <= m /\ Enc!MaxThumbLength <= left
      BY <1>3, <3>1, <3>3, <3>4 DEF Enc!Least
    <3>6. t = job.thumblen /\ job.thumblen <= Enc!MaxThumbLength
      BY <1>4, <2>2, <3>5
    <3>7. QED
      BY <1>3, <1>4, <3>3, <3>4, <3>5, <3>6
  <2>3. QED
    BY <1>4, <2>1, <2>2
<1>11. /\ out'.exif = e /\ out'.max = job.max
       /\ out'.len = (IF job.thumb /\ ~app.reserved THEN s + t ELSE app.len)
       /\ out'.app1End = app.app1End + moved
       /\ out'.thumblen = t
       /\ out'.thumb # 0 => t > 0 /\ out'.thumbAt = Enc!ThumbBase(e)
       /\ out'.main = app.main + moved /\ out'.mainlen = job.mainlen
       /\ out'.size = Enc!CalculateAPPSize(e, app.debug, app.app1End, app.szApp11, t) + job.mainlen
  BY DEF Enc!Picture, Enc!UpdateApp1Size, e, s
<1>12. ~job.thumb => t = 0
  OBVIOUS
<1> HIDE DEF t
<1>13. Enc!CalculateAPPSize(e, app.debug, app.app1End, app.szApp11, t)
         = head + w + (IF app.reserved THEN m ELSE t) + app.szApp11
  <2>1. Enc!Least(m, t) = t
    BY <1>3, <1>10 DEF Enc!Least
  <2>2. QED
    BY <1>7, <1>10, <2>1
<1> DEFINE grown == IF app.reserved THEN m ELSE t
<1>14. /\ grown = room + moved /\ grown \in Nat /\ moved \in Nat /\ t <= grown
       /\ out'.len = s + grown
  BY <1>2, <1>3, <1>4, <1>8, <1>10, <1>11, <1>12
<1>15. s + grown <= Enc!MaxSegment
  BY <1>3, <1>10, <1>14 DEF Enc!MaxSegment
<1> HIDE DEF moved
<1>16. /\ out'.app1End = Enc!Marker + head + grown
       /\ out'.main = head + grown + w + app.szApp11
       /\ out'.size = out'.main + out'.mainlen
  BY <1>1, <1>2, <1>3, <1>4, <1>6, <1>9, <1>10, <1>11, <1>13, <1>14 DEF Enc!Marker
<1>17. out'.size <= out'.max
  BY <1>3, <1>4, <1>6, <1>8, <1>9, <1>10, <1>11, <1>14, <1>16
<1> HIDE DEF grown
<1>18. Enc!Has(e) => /\ Enc!ThumbBase(e) = 2 * Enc!Marker + s
                     /\ Enc!WriteAPP1(e) = Enc!Marker + s
  BY <1>3, SizesAgree DEF Enc!ThumbBase, Enc!Marker
<1>19. out'.thumb # 0 => Enc!Has(e) /\ e.thumb
  BY <1>1, <1>11, <1>12
<1>20. Enc!Has(out'.exif) => out'.app1End = 2 * Enc!Marker + out'.len
  BY <1>3, <1>6, <1>11, <1>14, <1>16 DEF Enc!Marker
<1>21. out'.len < 65536
  BY <1>3, <1>14, <1>15 DEF Enc!MaxSegment
<1>22. out'.thumb # 0 => /\ out'.thumbAt = Enc!Marker + Enc!WriteAPP1(out'.exif)
                         /\ out'.thumbAt + out'.thumblen <= out'.app1End
  BY <1>3, <1>6, <1>10, <1>11, <1>14, <1>16, <1>18, <1>19 DEF Enc!Marker
<1>23. out'.app1End <= out'.main + Enc!Marker
  BY <1>1, <1>4, <1>6, <1>14, <1>16 DEF Enc!Marker
<1>24. Enc!Has(out'.exif) =>
          Enc!UpdateExif(out'.exif, out'.size, out'.len)
              \in 1..(IF out'.thumb = 0 THEN out'.app1End ELSE out'.thumbAt - Enc!Size1st)
  <2> SUFFICES ASSUME Enc!Has(e)
               PROVE  Enc!UpdateExif(e, out'.size, out'.len)
                        \in 1..(IF out'.thumb = 0 THEN out'.app1End ELSE out'.thumbAt - Enc!Size1st)
    BY <1>11
  <2> DEFINE short == IF e.thumb THEN Enc!Size1st ELSE 0
             end == 2 * Enc!Marker + s - short
  <2>1. /\ out'.size >= 2 * Enc!Marker + Enc!LenField /\ out'.size >= out'.len
    BY <1>1, <1>3, <1>4, <1>6, <1>11, <1>14, <1>16 DEF Enc!Marker, Enc!LenField
  <2>2. out'.size \in Int /\ out'.len \in Int
    BY <1>1, <1>3, <1>4, <1>6, <1>11, <1>14, <1>16
  <2>3. Enc!UpdateExif(e, out'.size, out'.len)
          = Enc!Marker + Enc!WriteAPP1([ e EXCEPT !.thumb = FALSE ])
    BY <2>1, <2>2 DEF Enc!UpdateExif, Enc!Marker, Enc!LenField
  <2>4. /\ Enc!WriteAPP1([ e EXCEPT !.thumb = FALSE ]) = Enc!Marker + s - short
        /\ s >= 16 + short
    BY <1>3, WithoutThumb
  <2>5. short \in Nat /\ (e.thumb => short = Enc!Size1st) /\ Enc!Size1st \in Nat
    BY DEF Enc!Size1st, Enc!Field
  <2> HIDE DEF short
  <2>6. Enc!UpdateExif(e, out'.size, out'.len) = end /\ end \in Int /\ end >= 1
    BY <1>3, <2>3, <2>4, <2>5 DEF Enc!Marker
  <2>7. CASE out'.thumb = 0
    <3>1. end <= out'.app1End /\ out'.app1End \in Int
      BY <1>3, <1>6, <1>14, <1>16, <2>5 DEF Enc!Marker
    <3>2. QED
      BY <2>6, <2>7, <3>1
  <2>8. CASE out'.thumb # 0
    <3>1. end = out'.thumbAt - Enc!Size1st
      BY <1>3, <1>11, <1>18, <1>19, <2>5, <2>8 DEF Enc!Marker
    <3>2. QED
      BY <2>6, <2>8, <3>1
  <2>9. QED
    BY <2>7, <2>8
<1>25. QED
  BY <1>16, <1>17, <1>20, <1>21, <1>22, <1>23, <1>24 DEF Enc!PartsFit

-----------------------------------------------------------------------------
\* A step that leaves the head alone, and answers no picture of its own.
LEMMA HeadStays ==
    ASSUME HeadInv, app' = app, out' \in {out, Enc!NoPicture},
           pc' # "idle" => pc # "idle" /\ job'.thumb = job.thumb /\ job'.max = job.max,
           pc' \in {"joining", "separate", "retry", "placing"}
             => \/ /\ pc \in {"joining", "separate", "retry", "placing"}
                   /\ job'.mainlen = job.mainlen
                \/ job'.mainlen \in Int /\ job'.mainlen >= 0 /\ job'.mainlen <= job.max - app.main
    PROVE  HeadInv'
<1>1. app'.szApp11 \in Nat
  BY DEF HeadInv
<1>2. (pc # "idle" => HeadHolds(app, job.thumb, job.max))'
  BY DEF HeadInv, HeadHolds
<1>3. Enc!PartsFit'
  BY DEF HeadInv, Enc!PartsFit, Enc!NoPicture
<1>4. (pc \in {"joining", "separate", "retry", "placing"}
          => job.mainlen \in Int /\ job.mainlen >= 0 /\ job.mainlen <= job.max - app.main)'
  BY DEF HeadInv
<1>5. QED
  BY <1>1, <1>2, <1>3, <1>4 DEF HeadInv

\* encode writes the head of the stream it starts.
LEMMA EncodeWrites ==
    ASSUME Enc!SegmentsFit, EncoderParameters, EncoderInv, HeadInv, NEW r \in Requests,
           Enc!Encode(r.exif, r.debug, r.max)
    PROVE  HeadInv'
<1> DEFINE thumb == Enc!Has(r.exif) /\ r.exif.thumb
           a == Enc!Written(r.exif, r.debug, r.max)
<1>1. ASSUME NEW fail, Enc!Start(r.max, thumb, fail)
      PROVE  /\ out' = Enc!NoPicture
             /\ pc' = "idle" \/ (pc' = "device" /\ job'.thumb = thumb /\ job'.max = r.max)
  <2>1. \/ Enc!Fail
        \/ /\ pc' = "device" /\ out' = Enc!NoPicture
           /\ \E t : job' = [ Enc!NoJob EXCEPT !.max = r.max, !.thumb = thumb, !.worker = t ]
    BY <1>1 DEF Enc!Start
  <2>2. QED
    BY <2>1 DEF Enc!Fail, Enc!NoJob
<1> HIDE DEF thumb
<1>2. \/ app' = app /\ Enc!Fail
      \/ /\ ~Enc!BufferTooSmall(r.exif, r.debug, r.max) /\ app' = a
         /\ Enc!Fail \/ \E fail \in MainFailures : Enc!Start(r.max, thumb, fail)
  BY DEF Enc!Encode, thumb
<1>3. CASE app' = app /\ Enc!Fail
  BY <1>3, HeadStays DEF Enc!Fail
<1>4. CASE /\ ~Enc!BufferTooSmall(r.exif, r.debug, r.max) /\ app' = a
           /\ Enc!Fail \/ \E fail \in MainFailures : Enc!Start(r.max, thumb, fail)
  <2>1. /\ out' = Enc!NoPicture
        /\ pc' = "idle" \/ (pc' = "device" /\ job'.thumb = thumb /\ job'.max = r.max)
    BY <1>1, <1>4 DEF Enc!Fail
  <2>2. HeadHolds(a, thumb, r.max) /\ a.szApp11 \in Nat
    BY <1>4, HeadIsWritten DEF HeadInv, thumb
  <2>3. Enc!PartsFit'
    BY <2>1 DEF Enc!PartsFit, Enc!NoPicture
  <2> HIDE DEF a
  <2>4. pc' # "idle" => HeadHolds(app', job'.thumb, job'.max)
    BY <1>4, <2>1, <2>2
  <2>5. QED
    BY <1>4, <2>1, <2>2, <2>3, <2>4 DEF HeadInv
<1>5. QED
  BY <1>2, <1>3, <1>4

\* The device writes no more than the buffer has left.
LEMMA DeviceDoneFits ==
    ASSUME EncoderParameters, EncoderInv, HeadInv, Enc!DeviceDone
    PROVE  HeadInv'
<1>1. pc = "device" /\ app' = app /\ job \in EncoderJobs /\ MainLength \in Nat
  BY DEF Enc!DeviceDone, EncoderInv, NumbersKnown, EncoderParameters
<1>2. job.max \in Nat /\ app.main \in Int /\ app.main <= job.max
  BY <1>1 DEF HeadInv, HeadHolds, EncoderInv, NumbersKnown, EncoderNumbers, EncoderJobs
<1>3. ASSUME NEW len \in {MainLength, job.max - app.main}
      PROVE  LET room == Enc!Least(len, job.max - app.main)
             IN room \in Int /\ room >= 0 /\ room <= job.max - app.main
  BY <1>1, <1>2 DEF Enc!Least
<1>4. \/ Enc!Fail
      \/ /\ pc' = "joining" /\ out' = out
         /\ \E len \in {MainLength, job.max - app.main} : \E thumblen :
              job' = [ job EXCEPT !.mainlen = Enc!Least(len, job.max - app.main),
                                  !.thumblen = thumblen ]
      \/ /\ pc' = "joining" /\ out' = out
         /\ \E len \in {MainLength, job.max - app.main} :
              job' = [ job EXCEPT !.mainlen = Enc!Least(len, job.max - app.main) ]
  BY DEF Enc!DeviceDone
<1>5. CASE Enc!Fail
  BY <1>1, <1>5, HeadStays DEF Enc!Fail
<1>6. CASE /\ pc' = "joining" /\ out' = out
           /\ \E len \in {MainLength, job.max - app.main} : \E thumblen :
                job' = [ job EXCEPT !.mainlen = Enc!Least(len, job.max - app.main),
                                    !.thumblen = thumblen ]
  <2>1. PICK len \in {MainLength, job.max - app.main} : \E thumblen :
          job' = [ job EXCEPT !.mainlen = Enc!Least(len, job.max - app.main),
                              !.thumblen = thumblen ]
    BY <1>6
  <2>2. /\ job'.thumb = job.thumb /\ job'.max = job.max
        /\ job'.mainlen = Enc!Least(len, job.max - app.main)
    BY <1>1, <2>1 DEF EncoderJobs
  <2>3. job'.mainlen \in Int /\ job'.mainlen >= 0 /\ job'.mainlen <= job.max - app.main
    BY <1>3, <2>2
  <2>4. QED
    BY <1>1, <1>6, <2>2, <2>3, HeadStays
<1>7. CASE /\ pc' = "joining" /\ out' = out
           /\ \E len \in {MainLength, job.max - app.main} :
                job' = [ job EXCEPT !.mainlen = Enc!Least(len, job.max - app.main) ]
  <2>1. PICK len \in {MainLength, job.max - app.main} :
          job' = [ job EXCEPT !.mainlen = Enc!Least(len, job.max - app.main) ]
    BY <1>7
  <2>2. /\ job'.thumb = job.thumb /\ job'.max = job.max
        /\ job'.mainlen = Enc!Least(len, job.max - app.main)
    BY <1>1, <2>1 DEF EncoderJobs
  <2>3. job'.mainlen \in Int /\ job'.mainlen >= 0 /\ job'.mainlen <= job.max - app.main
    BY <1>3, <2>2
  <2>4. QED
    BY <1>1, <1>7, <2>2, <2>3, HeadStays
<1>8. QED
  BY <1>4, <1>5, <1>6, <1>7

\* The client's other steps leave the lengths of head and picture alone.
LEMMA ClientStays ==
    ASSUME EncoderInv, HeadInv, Enc!Join \/ Enc!Retry \/ Enc!Compressed
    PROVE  HeadInv'
<1>1. job \in EncoderJobs
  BY DEF EncoderInv, NumbersKnown
<1>2. app' = app /\ pc \in {"joining", "separate", "retry", "placing"}
  BY DEF Enc!Join, Enc!Retry, Enc!Compressed
<1>3. \/ Enc!Fail
      \/ /\ out' = out
         /\ job' = job \/ (\E n, t : job' = [ job EXCEPT !.thumblen = n, !.worker = t ])
                       \/ (\E n : job' = [ job EXCEPT !.thumblen = n ])
  BY DEF Enc!Join, Enc!Retry, Enc!Compressed
<1>4. CASE Enc!Fail
  BY <1>2, <1>4, HeadStays DEF Enc!Fail
<1>5. ASSUME out' = out,
             job' = job \/ (\E n, t : job' = [ job EXCEPT !.thumblen = n, !.worker = t ])
                        \/ (\E n : job' = [ job EXCEPT !.thumblen = n ])
      PROVE  HeadInv'
  <2>1. job'.thumb = job.thumb /\ job'.max = job.max /\ job'.mainlen = job.mainlen
    BY <1>1, <1>5 DEF EncoderJobs
  <2>2. QED
    BY <1>2, <1>5, <2>1, HeadStays
<1>6. QED
  BY <1>3, <1>4, <1>5

\* The picture that is answered is whole.
LEMMA PlaceFits ==
    ASSUME EncoderInv, HeadInv, Enc!Place
    PROVE  HeadInv'
<1>1. /\ pc = "placing" /\ pc' = "idle" /\ app' = app
      /\ ~(job.thumb /\ job.thumblen > Enc!MaxThumbLength)
      /\ out' \in {Enc!NoPicture, Enc!Picture}
  BY DEF Enc!Place, Enc!Fail
<1>2. CASE out' = Enc!NoPicture
  BY <1>1, <1>2, HeadStays
<1>3. CASE out' = Enc!Picture
  <2>1. /\ HeadHolds(app, job.thumb, job.max) /\ job \in EncoderJobs
        /\ job.mainlen >= 0 /\ job.mainlen <= job.max - app.main /\ app.szApp11 \in Nat
    BY <1>1 DEF HeadInv, EncoderInv, NumbersKnown
  <2>2. Enc!PartsFit'
    BY <1>1, <1>3, <2>1, PictureFits
  <2>3. app'.szApp11 \in Nat
    BY <1>1, <2>1
  <2>4. QED
    BY <1>1, <2>2, <2>3 DEF HeadInv
<1>4. QED
  BY <1>1, <1>2, <1>3

\* PartsFit, of PictureIsWhole of JpegEncoder: the sizes encode and UpdateExif compute from the
\* attributes are those of the stream that is written, whether the thumbnail's place was
\* reserved or is opened when it is known, and the picture is in the caller's buffer.
THEOREM WholePicture ==
    ASSUME EncoderParameters, Enc!SegmentsFit
    PROVE  Enc!Spec => []Enc!PartsFit
<1>1. Enc!Init => EncoderInv
  BY EncoderInit
<1>2. EncoderInv /\ [Enc!Next]_(Enc!vars) => EncoderInv'
  BY EncoderNext
<1>3. Enc!Init => HeadInv
  <2> SUFFICES ASSUME Enc!Init PROVE HeadInv
    OBVIOUS
  <2>1. app.szApp11 \in Nat
    BY DEF Enc!Init
  <2>2. pc = "idle" /\ out = Enc!NoPicture
    BY DEF Enc!Init
  <2>3. QED
    BY <2>1, <2>2 DEF HeadInv, Enc!PartsFit, Enc!NoPicture
<1>4. EncoderInv /\ HeadInv /\ [Enc!Next]_(Enc!vars) => HeadInv'
  <2> SUFFICES ASSUME EncoderInv, HeadInv, [Enc!Next]_(Enc!vars) PROVE HeadInv'
    OBVIOUS
  <2>1. CASE Enc!Setter
    BY <2>1, HeadStays DEF Enc!Setter, Enc!SetSize, Enc!SetThumbnailSize, Enc!SetInBuf,
         Enc!SetInBuf2
  <2>2. CASE \E r \in Requests : Enc!Encode(r.exif, r.debug, r.max)
    BY <2>2, EncodeWrites
  <2>3. CASE Enc!Thread
    BY <2>3, HeadStays DEF Enc!Thread, Enc!Scale, Enc!ThumbQueue, Enc!ThumbWait
  <2>4. CASE Enc!DeviceDone
    BY <2>4, DeviceDoneFits
  <2>5. CASE Enc!Join \/ Enc!Retry \/ Enc!Compressed
    BY <2>5, ClientStays
  <2>6. CASE Enc!Place
    BY <2>6, PlaceFits
  <2>7. CASE UNCHANGED Enc!vars
    BY <2>7, HeadStays DEF Enc!vars
  <2>8. QED
    BY <2>1, <2>2, <2>3, <2>4, <2>5, <2>6, <2>7 DEF Enc!Next
<1>5. HeadInv => Enc!PartsFit
  BY DEF HeadInv
<1>6. QED
  BY <1>1, <1>2, <1>3, <1>4, <1>5, PTL DEF Enc!Spec
=============================================================================

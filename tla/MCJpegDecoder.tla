---------------------------- MODULE MCJpegDecoder ----------------------------
(* An instance of JpegDecoder for TLC. *)
EXTENDS JpegDecoder

Frame(width, height, h, v) ==
    [ bits |-> 8, width |-> width, height |-> height, components |-> 3, h |-> h, v |-> v ]

Content(markers, frame, len) ==
    [ soi |-> TRUE, markers |-> markers, frame |-> frame, len |-> len ]

(* Two pictures that can be decoded, the second of which cannot be reduced *)
(* to an eighth, and a progressive one.                                    *)
ThreeContents ==
    { Content(<< "segment", "SOF0" >>, Frame(32, 16, 2, 2), 600),
      Content(<< "SOF0" >>, Frame(16, 24, 2, 2), 500),
      Content(<< "segment", "SOFn" >>, Frame(16, 24, 1, 1), 500) }
=============================================================================

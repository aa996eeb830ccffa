------------------------------ MODULE AppMarkers ------------------------------
(***************************************************************************)
(* The APP segments in front of a JPEG stream, as the class               *)
(* CAppMarkerWriter of the camera's encoder lays them out, in bytes from  *)
(* the start of the stream.  PrepareAppWriter adds up the size of APP1    *)
(* from the lengths of the Exif attributes; WriteAPP1 then writes it field *)
(* by field through CIFDWriter, which places every value that is longer   *)
(* than four bytes behind its directory.  Nothing in the code compares the *)
(* two: the thumbnail is copied to the place the first one computed.      *)
(*                                                                         *)
(* An Exif attribute is its length; a debug attribute is the sequence of  *)
(* the lengths of its segments.                                            *)
(***************************************************************************)
EXTENDS Integers, SequencesExt

Exif == [ gps : BOOLEAN, thumb : BOOLEAN,
          maker : Nat, model : Nat, software : Nat, unique_id : Nat,
          gps_method : Nat, maker_note : Nat, user_comment : Nat ]

MaxSegment == 65435           \* JPEG_MAX_SEGMENT_SIZE
Marker == 2
LenField == 2
Field == 12
DateTime == 20
SubsecTime == 5
DateStamp == 11
MaxMethod == 99               \* what is kept of the GPS processing method
Prefix == 8                   \* ExifAsciiPrefix
Identifier == 6               \* ExifIdentifierCode
Tiff == 8

One(b) == IF b THEN 1 ELSE 0
Least(a, b) == IF a < b THEN a ELSE b

\* An attribute that is not empty takes a field, and room of its own when it
\* is longer than `inline'.
Optional(size, inline, room) ==
    IF size = 0 THEN 0 ELSE Field + (IF size > inline THEN room ELSE 0)

-----------------------------------------------------------------------------
(* What PrepareAppWriter computes.                                         *)

Fields0th(e) == 7 + One(e.maker > 0) + One(e.software > 0) + One(e.model > 0) + One(e.gps)

FieldsExif(e) == 26 + One(e.unique_id > 0) + One(e.maker_note > 0) + One(e.user_comment > 0)

FieldsGps(e) == 9 + One(Least(e.gps_method, MaxMethod) > 0)

Size0th(e) ==
    2 + 4 + Field * 7 + 2 * 8 + DateTime
    + Optional(e.maker, 3, e.maker + 1)
    + Optional(e.software, 3, e.software + 1)
    + Optional(e.model, 3, e.model + 1)
    + Field * One(e.gps)

SizeExif(e) ==
    2 + 4 + Field * 20 + 8 * 8
    + (Field + DateTime) * 2 + (Field + SubsecTime) * 3
    + Optional(e.unique_id, 3, e.unique_id + 1)
    + Optional(e.maker_note, 4, e.maker_note)
    + Optional(e.user_comment, 4, e.user_comment)
    + Field + 2 + 4 + Field * 2

SizeGps(e) ==
    LET len == Least(e.gps_method, MaxMethod)
    IN 2 + 4 + Field * 8 + 8 * 10 + Field + DateStamp
       + (IF len > 0 THEN Field + len + Prefix + 1 ELSE 0)

Size1st == 2 + 4 + Field * 6

\* PrepareAppWriter's applen: APP1 without its marker and its thumbnail.
App1Size(e) ==
    LenField + Identifier + Tiff + Size0th(e) + SizeExif(e)
    + (IF e.gps THEN SizeGps(e) ELSE 0)
    + (IF e.thumb THEN Size1st ELSE 0)

\* m_pThumbBase and m_szMaxThumbSize.
ThumbBase(e) == Marker + Marker + App1Size(e)
MaxThumb(e) == IF e.thumb THEN MaxSegment - App1Size(e) ELSE 0

-----------------------------------------------------------------------------
(* What WriteAPP1 writes.                                                  *)

\* A directory of n fields, up to where its values begin (CIFDWriter).
Directory(n) == 2 + Field * n + 4

\* What WriteASCII, WriteCString, WriteUndef and WriteByte place outside the
\* directory for a value of so many bytes.
Outside(count) == IF count > 4 THEN count ELSE 0

\* WriteRational and WriteSRational always write outside.
Rationals(n) == 8 * n

\* A string of the 0th or the Exif directory, with its terminator.
Text(size) == IF size > 0 THEN Outside(size + 1) ELSE 0

Blob(size) == IF size > 0 THEN Outside(size) ELSE 0

WriteGps(e) ==
    LET len == Least(e.gps_method, 99)
    IN Directory(FieldsGps(e))
       + Outside(4) + Outside(2) + Rationals(3) + Outside(2) + Rationals(3)
       + Outside(1) + Rationals(1) + Outside(DateStamp) + Rationals(3)
       + (IF e.gps_method > 0 THEN Outside(len + Prefix + 1) ELSE 0)

WriteInterop == Directory(2) + Outside(4) + Outside(4)

WriteExif(e) ==
    Directory(FieldsExif(e))
    + Rationals(2) + Outside(4) + Outside(DateTime) + Outside(DateTime)
    + Rationals(5) + Rationals(1)
    + Outside(SubsecTime) + Outside(SubsecTime) + Outside(SubsecTime)
    + Blob(e.maker_note) + Blob(e.user_comment) + Text(e.unique_id)
    + WriteInterop

\* Where WriteAPP1 stops, counted from the marker, without room for a thumbnail.
WriteAPP1(e) ==
    Marker + LenField + Identifier + Tiff
    + Directory(Fields0th(e)) + Rationals(2)
    + Text(e.maker) + Text(e.model) + Text(e.software) + Outside(DateTime)
    + WriteExif(e)
    + (IF e.gps THEN WriteGps(e) ELSE 0)
    + (IF e.thumb THEN Directory(6) ELSE 0)

-----------------------------------------------------------------------------
(* The whole head of a stream that begins with the two bytes of SOI.       *)

NoExif == [ none |-> TRUE ]

Has(e) == e # NoExif

szApp1(e) == IF Has(e) THEN App1Size(e) ELSE 0

szMaxThumb(e) == IF Has(e) THEN MaxThumb(e) ELSE 0

\* WriteAPPX: a marker, a length and the data of every debug segment.
WriteAPPX(debug) == FoldLeft(LAMBDA n, len : n + Marker + LenField + len, 0, debug)

\* WriteAPP11: a segment that ends with room for the SOI the device writes, so
\* that the device writes at an aligned place.
WriteAPP11(e, debug, current, align) ==
    IF ~Has(e) /\ debug = << >>
    THEN 0
    ELSE 2 * Marker + LenField + ((-(current + Marker + LenField)) % align)

\* Write: the ends of APP1 and of APP11, and where the device writes.
Write(e, debug, reserve, align) ==
    LET app1 == Marker + (IF Has(e) THEN WriteAPP1(e) + (IF reserve THEN MaxThumb(e) ELSE 0) ELSE 0)
        appX == app1 + WriteAPPX(debug)
        app11 == WriteAPP11(e, debug, appX, align)
    IN [ app1End |-> app1, szApp11 |-> app11, main |-> appX + app11 - Marker ]

\* IsThumbSpaceReserved and CalculateAPPSize look at where APP1 ended.
IsThumbSpaceReserved(e, app1End) == app1End = Marker + szApp1(e) + szMaxThumb(e) + Marker

CalculateAPPSize(e, debug, app1End, szApp11, thumb) ==
    (IF Has(e) THEN szApp1(e) + Marker ELSE 0)
    + WriteAPPX(debug)
    + (IF IsThumbSpaceReserved(e, app1End) THEN szMaxThumb(e) ELSE Least(szMaxThumb(e), thumb))
    + szApp11

-----------------------------------------------------------------------------
(* A finished stream, by the segments in front of its picture.  The debug   *)
(* data of index i is in the i-th of the extra APP segments.                *)

FirstExtra == 4               \* EXTRA_APPMARKER_MIN

Segments(e, debug, app1Len, app1End, szApp11) ==
    LET extra(i) == [ at |-> app1End + WriteAPPX(SubSeq(debug, 1, i - 1)),
                      app |-> FirstExtra + i - 1, len |-> LenField + debug[i] ]
    IN (IF Has(e) THEN << [ at |-> Marker, app |-> 1, len |-> app1Len ] >> ELSE << >>)
       \o [ i \in DOMAIN debug |-> extra(i) ]
       \o (IF szApp11 = 0 THEN << >>
           ELSE << [ at |-> app1End + WriteAPPX(debug), app |-> 11, len |-> szApp11 - Marker ] >>)

\* UpdateDebugData goes from length field to length field, writes the segments
\* that have new data, and stops at what is no marker; it answers TRUE then.
\* Behind the segments is only the picture, whose SOS makes it give up.
UpdateDebugData(segments, jpeglen, debug) ==
    LET sizes == [ app \in FirstExtra..(FirstExtra + Len(debug) - 1) |-> debug[app - FirstExtra + 1] ]
        Next(walk, s) ==
            LET hit == s.app \in DOMAIN sizes
                fits == hit => s.len >= sizes[s.app] + LenField
            IN IF walk.end \/ walk.at # s.at \/ walk.missing = 0 \/ walk.left <= walk.missing
               THEN [ walk EXCEPT !.end = TRUE ]
               ELSE [ at |-> s.at + Marker + s.len, left |-> walk.left - Marker - s.len,
                      end |-> ~fits, ok |-> fits,
                      missing |-> walk.missing
                                  - (IF hit /\ fits THEN sizes[s.app] + Marker + LenField ELSE 0),
                      written |-> walk.written \cup (IF hit /\ fits THEN {s.app} ELSE {}) ]
        last == FoldLeft(Next, [ at |-> Marker, left |-> jpeglen - Marker, end |-> FALSE, ok |-> TRUE,
                                 missing |-> WriteAPPX(debug), written |-> {} ], segments)
    IN IF jpeglen < WriteAPPX(debug) + Marker
       THEN [ ok |-> FALSE, written |-> {} ]
       ELSE [ ok |-> last.ok /\ (last.end \/ last.missing = 0 \/ last.left <= last.missing),
              written |-> last.written ]

\* Where UpdateExif stops writing, 0 when it writes nothing: the thumbnail's
\* directory and the length of APP1 stay as they are.
UpdateExif(e, jpeglen, app1Len) ==
    IF ~Has(e) \/ jpeglen < 2 * Marker + LenField \/ jpeglen < app1Len
    THEN 0
    ELSE Marker + WriteAPP1([ e EXCEPT !.thumb = FALSE ])
=============================================================================

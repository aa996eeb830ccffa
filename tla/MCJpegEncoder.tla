---------------------------- MODULE MCJpegEncoder ----------------------------
(* The encoder with the requests that differ in their segments and room.    *)
EXTENDS JpegEncoder

MCPlain == [ gps |-> FALSE, thumb |-> TRUE, maker |-> 3, model |-> 0, software |-> 4,
             unique_id |-> 0, gps_method |-> 0, maker_note |-> 4, user_comment |-> 5 ]

MCFull == [ gps |-> TRUE, thumb |-> TRUE, maker |-> 7, model |-> 8, software |-> 0,
            unique_id |-> 29, gps_method |-> 3, maker_note |-> 98, user_comment |-> 0 ]

Request(e, debug, max) == [ exif |-> e, debug |-> debug, max |-> max ]

MCRequests == { Request(NoExif, << 1000 >>, 40000), Request(MCPlain, << >>, 40000),
                Request(MCFull, << 1000, 20 >>, 700000) }

MCThumbLengths == { 9000, 60000 }
=============================================================================

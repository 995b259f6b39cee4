------------------------------ MODULE MCCodec ------------------------------
(***************************************************************************)
(* Codec for TLC.  The lengths are those around which a variable byte      *)
(* integer grows (an identifier and two bytes come on top of a string),    *)
(* zero, which the code treats specially, lengths whose first byte is the  *)
(* identifier of a property (300 is 0x012C, 5377 is 0x1501, 2817 is        *)
(* 0x0B01, 9729 is 0x2601), a payload that looks like a property and one   *)
(* that is too long for a packet.                                          *)
(***************************************************************************)
EXTENDS Codec

MCPayloadLengths == {0, 1, Marked, 16384, maxRemainingLength}
MCPropertyLists == {<<1>>, <<1, 2>>, <<0, 16379>>}
MCCodeLists == {<<0>>, <<1, 17>>, <<128, 2>>}
=============================================================================

---------------------------- MODULE MCSoftSerial ----------------------------
(* Instances of SoftSerial with the low five bits of each character: the   *)
(* end of a line, and a letter behind which the board is pulled out.       *)
EXTENDS SoftSerial

a == <<1, 0, 0, 0, 0>>
MCCR == <<1, 0, 1, 1, 0>>
MCLF == <<0, 1, 0, 1, 0>>
MCControl == {MCCR, MCLF}
MCAnswers == {<<MCCR, MCLF>>, <<a>>}
=============================================================================

---------------------------- MODULE LineProtocol ----------------------------
(***************************************************************************)
(* The text lines that hub, bridge and boards exchange, as CheckStream     *)
(* writes them and as checksumOk() and parseMessage() of libraries/Sensaur *)
(* read them.                                                              *)
(*                                                                         *)
(* A line is a sequence of pieces, the groups of characters the readers    *)
(* tell apart: the command letter, the arguments from ':' on, '|' with the *)
(* checksum, CR and LF.  Every piece knows the message it was written for; *)
(* a checksum fits what stands before it when that is the body of its own  *)
(* message (two bodies with one CRC are taken for impossible).             *)
(***************************************************************************)
EXTENDS Naturals, Sequences

CONSTANTS
  Levels      (* what an argument can say: values of outputs, of sensors   *)

(* A message: its command letter, its argument, who wrote it (0 is the hub *)
(* side, otherwise the plug) and the number of the request it is about.    *)
NoMsg == [cmd |-> "none", arg |-> 0, by |-> 0, nr |-> 0]

HasArg(m) == m.cmd = "s" \/ (m.by # 0 /\ m.cmd \in {"v", "m"})

Piece(t, m) == [t |-> t, of |-> m]
CR   == Piece("cr", NoMsg)
LF   == Piece("lf", NoMsg)
Junk == Piece("junk", NoMsg)

Body(m) == IF HasArg(m) THEN <<Piece("cmd", m), Piece("arg", m)>> ELSE <<Piece("cmd", m)>>

(* CheckStream::write: the body from its buffer, then '|', the CRC and a   *)
(* line end.  A body longer than the buffer is cut, its CRC is not.        *)
Written(m, cut) ==
  (IF cut THEN <<Piece("cmd", m), Junk>> ELSE Body(m)) \o <<Piece("sum", m), CR, LF>>

(* What noise makes of a piece, unless it swallows it.  Bound: it makes no *)
(* CR or LF of another character.                                          *)
Garbles(x) ==
  IF x.t = "arg" THEN {[x EXCEPT !.of.arg = v] : v \in Levels \ {x.of.arg}}
  ELSE IF x.t = "sum" THEN {Piece("sum", NoMsg)}
  ELSE {Junk}

(* Lines that can arrive when one piece of line s is lost or damaged.      *)
Damaged(s) ==
  {SubSeq(s, 1, k - 1) \o SubSeq(s, k + 1, Len(s)) : k \in 1 .. Len(s)}
  \cup UNION {{[s EXCEPT ![k] = g] : g \in Garbles(s[k])} : k \in 1 .. Len(s)}

-----------------------------------------------------------------------------
Sums(s)    == {k \in 1 .. Len(s) : s[k].t = "sum"}
Fits(s, k) == SubSeq(s, 1, k - 1) = Body(s[k].of)

(* checksumOk(): decided at the first '|'; a line without one is refused.  *)
ChecksumOk(s) ==
  \E k \in Sums(s) : Fits(s, k) /\ \A j \in Sums(s) : k <= j

(* The message a reader finds before the first '|' of an accepted line.    *)
Content(s) == s[CHOOSE k \in Sums(s) : \A j \in Sums(s) : k <= j].of

(* parseMessage(): every '|' is held against all that stands before it; a  *)
(* line without one is accepted.                                           *)
Refused(s) == \E k \in Sums(s) : ~Fits(s, k)

(* What parseMessage has cut up when it returns: all of the line, or what  *)
(* precedes the first checksum that does not fit.                          *)
Parsed(s) ==
  IF Refused(s)
  THEN SubSeq(s, 1, (CHOOSE k \in Sums(s) : ~Fits(s, k)
                       /\ \A j \in Sums(s) : j < k => Fits(s, j)) - 1)
  ELSE s

(* The command: the text up to the first ':' or '|'.                       *)
Command(s) ==
  IF /\ s[1].t = "cmd"
     /\ Len(s) > 1 => s[2].t \in {"arg", "sum"}
  THEN s[1].of.cmd ELSE "unknown"

(* Every ':' sets args[0] anew.                                            *)
ArgPieces(s) == {k \in 1 .. Len(Parsed(s)) : s[k].t = "arg"}
Arg0(s) == s[CHOOSE k \in ArgPieces(s) : \A j \in ArgPieces(s) : j <= k].of.arg

(* parseMessage returns a byte: its -1 reads as 255 arguments.             *)
ArgCount(s) == IF Refused(s) THEN 255 ELSE IF ArgPieces(s) = {} THEN 0 ELSE 1
=============================================================================

---------------------------- MODULE HubBridgeProofs ----------------------------
(***************************************************************************)
(* Proofs about HubBridge, for any boards, sketches and faults: what the   *)
(* bridge passes on is the board's own and was measured, a board keeps its *)
(* ID, every variable its kind, answers are passed on in the order of the  *)
(* requests, and a plug that nothing disturbs is answered.                 *)
(***************************************************************************)
EXTENDS HubBridge, SequenceTheorems, WellFoundedInduction, TLAPS

(* The first of some positions in a line.                                  *)
LEMMA FirstIsOne ==
  ASSUME NEW K, K # {}, NEW n \in Nat, K \subseteq 1 .. n
  PROVE  FirstOf(K) \in K /\ \A j \in K : FirstOf(K) <= j
<1>1. PICK x \in K : \A y \in K : ~(<<y, x>> \in OpToRel(<, Nat))
  <2>1. K \subseteq Nat
    OBVIOUS
  <2> QED BY <2>1, NatLessThanWellFounded, WFMin
<1>2. ASSUME NEW y \in K
      PROVE  x <= y
  <2>1. x \in Nat /\ y \in Nat
    OBVIOUS
  <2>2. ~(y < x)
    BY <1>1, <2>1 DEF OpToRel
  <2> QED BY <2>1, <2>2
<1> QED BY <1>2 DEF FirstOf

-----------------------------------------------------------------------------
(* A board that reads its sensor on request and is not the CO2 board.      *)
Measures(p) == Does[Sketch[p]].reads /\ Sketch[p] # "co2"

(* A message that plug p's board may write.                                *)
Good(m, p) ==
  m = NoMsg \/ (m.by = p /\ (Measures(p) /\ m.cmd = "v" => m.arg # Nothing))

(* A piece of what it writes; it is the checksum that vouches for it.      *)
OwnPiece(x, p) ==
  x = [t |-> x.t, of |-> x.of] /\ (x.t = "sum" => Good(x.of, p))

OwnLine(s, p) == \E S : s \in Seq(S) /\ \A x \in S : OwnPiece(x, p)

LEMMA EmptyLine == ASSUME NEW p PROVE OwnLine(<< >>, p)
BY EmptySeq DEF OwnLine

LEMMA JoinedLine ==
  ASSUME NEW p, NEW s, NEW u, OwnLine(s, p), OwnLine(u, p)
  PROVE  OwnLine(s \o u, p)
<1>1. PICK S : s \in Seq(S) /\ \A x \in S : OwnPiece(x, p)
  BY DEF OwnLine
<1>2. PICK U : u \in Seq(U) /\ \A x \in U : OwnPiece(x, p)
  BY DEF OwnLine
<1> DEFINE B == S \cup U
<1>3. s \in Seq(B) /\ u \in Seq(B)
  BY <1>1, <1>2, SeqMonotonic
<1>4. \A x \in B : OwnPiece(x, p)
  BY <1>1, <1>2
<1> HIDE DEF B
<1>5. s \o u \in Seq(B)
  BY <1>3, ConcatProperties
<1> QED BY <1>4, <1>5 DEF OwnLine

LEMMA PartOfLine ==
  ASSUME NEW p, NEW s, OwnLine(s, p), NEW a \in Nat \ {0}, NEW b \in Int, b <= Len(s)
  PROVE  OwnLine(SubSeq(s, a, b), p)
<1>1. PICK S : s \in Seq(S) /\ \A x \in S : OwnPiece(x, p)
  BY DEF OwnLine
<1>2. \A i \in a .. b : s[i] \in S
  BY <1>1, LenProperties
<1>3. SubSeq(s, a, b) \in Seq(S)
  BY <1>2, SubSeqProperties
<1> QED BY <1>1, <1>3 DEF OwnLine

LEMMA ChangedLine ==
  ASSUME NEW p, NEW s, OwnLine(s, p), NEW k \in 1 .. Len(s), NEW g, OwnPiece(g, p)
  PROVE  OwnLine([s EXCEPT ![k] = g], p)
<1>1. PICK S : s \in Seq(S) /\ \A x \in S : OwnPiece(x, p)
  BY DEF OwnLine
<1> DEFINE B == S \cup {g}
<1>2. s \in Seq(B) /\ g \in B
  BY <1>1, SeqMonotonic
<1>3. \A x \in B : OwnPiece(x, p)
  BY <1>1
<1> HIDE DEF B
<1>4. [s EXCEPT ![k] = g] \in Seq(B)
  BY <1>2, ExceptSeq
<1> QED BY <1>3, <1>4 DEF OwnLine

LEMMA LineIsSeq ==
  ASSUME NEW p, NEW s, OwnLine(s, p)
  PROVE  Len(s) \in Nat /\ \A k \in 1 .. Len(s) : OwnPiece(s[k], p)
<1>1. PICK S : s \in Seq(S) /\ \A x \in S : OwnPiece(x, p)
  BY DEF OwnLine
<1>2. Len(s) \in Nat /\ \A k \in 1 .. Len(s) : s[k] \in S
  BY <1>1, LenProperties
<1> QED BY <1>1, <1>2

(* Noise forges no checksum.                                               *)
LEMMA DamagedLine ==
  ASSUME NEW p, NEW s, OwnLine(s, p), NEW d \in Damaged(s)
  PROVE  OwnLine(d, p)
<1>1. Len(s) \in Nat /\ \A k \in 1 .. Len(s) : OwnPiece(s[k], p)
  BY LineIsSeq
<1>2. ASSUME NEW k \in 1 .. Len(s)
      PROVE  OwnLine(SubSeq(s, 1, k - 1) \o SubSeq(s, k + 1, Len(s)), p)
  <2>1. OwnLine(SubSeq(s, 1, k - 1), p)
    BY <1>1, PartOfLine
  <2>2. OwnLine(SubSeq(s, k + 1, Len(s)), p)
    BY <1>1, PartOfLine
  <2> QED BY <2>1, <2>2, JoinedLine
<1>3. ASSUME NEW k \in 1 .. Len(s), NEW g \in Garbles(s[k])
      PROVE  OwnLine([s EXCEPT ![k] = g], p)
  <2> DEFINE x == s[k]
  <2>1. OwnPiece(x, p)
    BY <1>1
  <2> HIDE DEF x
  <2>2. OwnPiece(Piece("sum", NoMsg), p) /\ OwnPiece(Junk, p)
    BY DEF OwnPiece, Piece, Junk, Good
  <2>3. ASSUME NEW v, x.t = "arg"
        PROVE  OwnPiece([x EXCEPT !.of.arg = v], p)
    BY <2>1, <2>3 DEF OwnPiece
  <2>4. OwnPiece(g, p)
    BY <1>3, <2>2, <2>3 DEF Garbles, x
  <2> QED BY <2>4, ChangedLine
<1>4. \/ \E k \in 1 .. Len(s) : d = SubSeq(s, 1, k - 1) \o SubSeq(s, k + 1, Len(s))
      \/ \E k \in 1 .. Len(s) : \E g \in Garbles(s[k]) : d = [s EXCEPT ![k] = g]
  <2>1. d \in Damaged(s)
    OBVIOUS
  <2> HIDE DEF OwnLine
  <2> QED BY <2>1 DEF Damaged
<1> QED BY <1>2, <1>3, <1>4, Zenon

LEMMA WrittenLine ==
  ASSUME NEW p, NEW m, Good(m, p), NEW cut \in BOOLEAN
  PROVE  OwnLine(Written(m, cut), p)
<1> DEFINE S == {Piece("cmd", m), Piece("arg", m), Junk, Piece("sum", m), CR, LF}
<1>1. \A x \in S : OwnPiece(x, p)
  BY DEF OwnPiece, Piece, Junk, CR, LF
<1>2. /\ Piece("cmd", m) \in S /\ Piece("arg", m) \in S /\ Junk \in S
      /\ Piece("sum", m) \in S /\ CR \in S /\ LF \in S
  OBVIOUS
<1> HIDE DEF S
<1>3. \A x, y, z \in S : <<x>> \in Seq(S) /\ <<x, y>> \in Seq(S) /\ <<x, y, z>> \in Seq(S)
  OBVIOUS
<1>4. <<Piece("cmd", m), Junk>> \in Seq(S) /\ <<Piece("sum", m), CR, LF>> \in Seq(S)
  BY <1>2, <1>3
<1>5. Body(m) \in Seq(S)
  <2>1. CASE HasArg(m)
    BY <1>2, <1>3, <2>1 DEF Body
  <2>2. CASE ~HasArg(m)
    BY <1>2, <1>3, <2>2 DEF Body
  <2> QED BY <2>1, <2>2
<1>6. (IF cut THEN <<Piece("cmd", m), Junk>> ELSE Body(m)) \in Seq(S)
  BY <1>4, <1>5
<1>7. Written(m, cut) \in Seq(S)
  BY <1>4, <1>6, ConcatProperties DEF Written
<1> QED BY <1>1, <1>7 DEF OwnLine

(* What an accepted line says.                                             *)
LEMMA ContentGood ==
  ASSUME NEW p, NEW s, OwnLine(s, p), ChecksumOk(s)
  PROVE  Good(Content(s), p)
<1>1. PICK k \in Sums(s) : \A j \in Sums(s) : k <= j
  BY DEF ChecksumOk
<1> DEFINE first == CHOOSE c \in Sums(s) : \A j \in Sums(s) : c <= j
<1>2. first \in Sums(s)
  BY <1>1
<1>3. first \in 1 .. Len(s) /\ s[first].t = "sum"
  BY <1>2 DEF Sums
<1> HIDE DEF first
<1>4. OwnPiece(s[first], p)
  BY <1>3, LineIsSeq
<1> QED BY <1>3, <1>4 DEF OwnPiece, Content, first

(* A board that answers with readings has no outputs.                      *)
LEMMA SketchKinds ==
  ASSUME NEW p \in Plugs, Does[Sketch[p]].reads
  PROVE  ~Does[Sketch[p]].outputs
<1>1. Sketch[p] \in {"relay", "test", "o2", "co2", "dht22", "tsl2561", "veml7700"}
  BY BridgeAssumption DEF Does
<1> QED BY <1>1 DEF Does, Relay, Test, O2, Co2, Dht, Tsl, Veml

-----------------------------------------------------------------------------
(* Everything on a line, and everything the bridge has taken from it, was  *)
(* written by the board at that line, or is damage no checksum fits.       *)
Lines ==
  /\ OwnLine(ring, active) /\ OwnLine(deviceMessage, active)
  /\ DOMAIN tx = Plugs /\ \A p \in Plugs : OwnLine(tx[p], p)

(* doPolling() listens to the plug it has asked.                           *)
Listening == waiting => active = cur /\ pollMessage # "none"

(* A board that has a reading has measured it.                             *)
Read ==
  /\ DOMAIN reading = Plugs /\ DOMAIN valid = Plugs
  /\ \A p \in Plugs : Measures(p) /\ valid[p] => reading[p] # Nothing

Passed == DOMAIN heard = Plugs /\ \A p \in Plugs : Good(heard[p], p)

LineInv == Lines /\ Listening /\ Read /\ Passed

LEMMA LineInvInit == Init => LineInv
<1> SUFFICES ASSUME Init PROVE LineInv
  OBVIOUS
<1>1. Lines
  BY EmptyLine DEF Init, Lines
<1>2. Listening
  BY DEF Init, Listening
<1>3. Read
  BY DEF Init, Read
<1>4. Passed
  BY DEF Init, Passed, Good
<1> QED BY <1>1, <1>2, <1>3, <1>4 DEF LineInv

(* A line end, or what came before it.                                     *)
LEMMA HeardPieces ==
  ASSUME NEW p, OwnLine(ring, p), OwnLine(deviceMessage, p), LineEnd(p) \/ Characters
  PROVE  /\ OwnLine(ring', p) /\ OwnLine(deviceMessage', p)
         /\ \/ heard' = heard
            \/ \E m : Good(m, p) /\ heard' = [heard EXCEPT ![p] = m]
<1>1. CASE Characters
  BY <1>1, EmptyLine, JoinedLine DEF Characters
<1>2. CASE LineEnd(p)
  <2> DEFINE k == FirstOf(Control(ring))
             s == deviceMessage \o Upto(ring, k)
  <2>1. Len(ring) \in Nat
    BY LineIsSeq
  <2>2. Control(ring) \subseteq 1 .. Len(ring) /\ Control(ring) # {}
    BY <1>2 DEF LineEnd, Control
  <2>3. k \in 1 .. Len(ring)
    BY <2>1, <2>2, FirstIsOne
  <2>4. OwnLine(Upto(ring, k), p)
    BY <2>1, <2>3, PartOfLine DEF Upto
  <2>5. OwnLine(Beyond(ring, k), p)
    BY <2>1, <2>3, PartOfLine DEF Beyond
  <2>6. OwnLine(s, p)
    BY <2>4, JoinedLine
  <2> HIDE DEF k
  <2>7. /\ ring' = Beyond(ring, k) /\ deviceMessage' = << >>
        /\ \/ Forward(p, s)
           \/ heard' = heard
    BY <1>2 DEF LineEnd, k
  <2> HIDE DEF s
  <2>8. \/ heard' = heard
        \/ \E m : Good(m, p) /\ heard' = [heard EXCEPT ![p] = m]
    BY <2>6, <2>7, ContentGood DEF Forward
  <2> QED BY <2>5, <2>7, <2>8, EmptyLine
<1> QED BY <1>1, <1>2

(* What a collision leaves of an answer is still the board's.              *)
LEMMA SpoiltLine ==
  ASSUME NEW p, NEW s, OwnLine(s, p), s # << >>
  PROVE  OwnLine([s EXCEPT ![1] = Junk], p)
<1>1. PICK S : s \in Seq(S) /\ \A x \in S : OwnPiece(x, p)
  BY DEF OwnLine
<1>2. 1 \in 1 .. Len(s)
  BY <1>1, EmptySeq, LenProperties
<1>3. OwnPiece(Junk, p)
  BY DEF OwnPiece, Piece, Junk
<1> QED BY <1>2, <1>3, ChangedLine

(* A request disturbs only an answer that is being written.                *)
LEMMA AskedLines ==
  ASSUME Lines, NEW p, NEW m, NEW noise \in BOOLEAN, Println(p, m, noise)
  PROVE  DOMAIN tx' = Plugs /\ \A q \in Plugs : OwnLine(tx'[q], q)
<1>1. CASE tx' = tx
  BY <1>1 DEF Lines
<1>2. CASE tx[p] # << >> /\ tx' = [tx EXCEPT ![p][1] = Junk]
  <2>1. DOMAIN tx' = Plugs
    BY <1>2 DEF Lines
  <2>2. ASSUME NEW q \in Plugs PROVE OwnLine(tx'[q], q)
    <3>1. CASE q # p
      BY <1>2, <2>2, <3>1 DEF Lines
    <3>2. CASE q = p
      <4>1. tx'[q] = [tx[q] EXCEPT ![1] = Junk]
        BY <1>2, <2>2, <3>2 DEF Lines
      <4>2. OwnLine(tx[q], q) /\ tx[q] # << >>
        BY <1>2, <2>2, <3>2 DEF Lines
      <4> QED BY <4>1, <4>2, SpoiltLine
    <3> QED BY <3>1, <3>2
  <2> QED BY <2>1, <2>2
<1> QED BY <1>1, <1>2 DEF Println

(* A change of the line empties the buffer.                                *)
LEMMA NewListener ==
  ASSUME Lines, NEW p, Listen(p), deviceMessage' = << >>
  PROVE  OwnLine(ring', active') /\ OwnLine(deviceMessage', active')
<1>1. CASE active = p
  BY <1>1, EmptyLine DEF Lines, Listen
<1>2. CASE active # p
  BY <1>2, EmptyLine DEF Listen
<1> QED BY <1>1, <1>2

(* What a board says.                                                      *)
LEMMA SaidLines ==
  ASSUME Lines, NEW p \in Plugs, NEW m, Good(m, p), NEW cut \in BOOLEAN,
         tx' = [tx EXCEPT ![p] = Written(m, cut)]
  PROVE  DOMAIN tx' = Plugs /\ \A q \in Plugs : OwnLine(tx'[q], q)
BY WrittenLine DEF Lines

LEMMA GoodAnswer ==
  ASSUME NEW p \in Plugs, NEW c, NEW v, NEW n,
         Measures(p) /\ c = "v" => v # Nothing
  PROVE  Good(Answer(c, v, p, n), p)
BY DEF Good, Answer

(* processMessage() of every sketch.                                       *)
LEMMA ServedLines ==
  ASSUME LineInv, NEW p \in Plugs, NEW s, Serve(p, s)
  PROVE  /\ DOMAIN tx' = Plugs /\ \A q \in Plugs : OwnLine(tx'[q], q)
         /\ reading' = reading /\ valid' = valid
<1>1. CASE SayValue(p, s)
  <2>1. PICK v \in IF Does[Sketch[p]].outputs THEN {level[p]}
                   ELSE IF Does[Sketch[p]].reads THEN {reading[p]} ELSE {Nothing, Measured} :
          Say(p, "v", v, Nr(s))
    BY <1>1 DEF SayValue
  <2>2. Measures(p) => v # Nothing
    <3> SUFFICES ASSUME Measures(p) PROVE v # Nothing
      OBVIOUS
    <3>1. Does[Sketch[p]].reads /\ ~Does[Sketch[p]].outputs
      BY SketchKinds DEF Measures
    <3>2. v = reading[p]
      BY <2>1, <3>1
    <3>3. valid[p]
      BY <1>1, <3>1 DEF SayValue
    <3> QED BY <3>2, <3>3 DEF LineInv, Read
  <2>3. Good(Answer("v", v, p, Nr(s)), p)
    BY <2>2, GoodAnswer
  <2>4. DOMAIN tx' = Plugs /\ \A q \in Plugs : OwnLine(tx'[q], q)
    BY <2>1, <2>3, SaidLines DEF LineInv, Say
  <2>5. reading' = reading /\ valid' = valid
    BY <1>1 DEF SayValue, dataVars
  <2> QED BY <2>4, <2>5
<1>2. CASE ReadFirst(p, s)
  BY <1>2 DEF ReadFirst, dataVars, LineInv, Lines
<1>3. CASE SetValues(p, s)
  <2>1. PICK v : Say(p, "s", v, Nr(s))
    BY <1>3 DEF SetValues
  <2>2. Good(Answer("s", v, p, Nr(s)), p)
    BY GoodAnswer
  <2>3. DOMAIN tx' = Plugs /\ \A q \in Plugs : OwnLine(tx'[q], q)
    BY <2>1, <2>2, SaidLines DEF LineInv, Say
  <2> QED BY <1>3, <2>3 DEF SetValues
<1>4. CASE SayId(p, s)
  <2>1. Good(Answer("m", deviceId[p], p, Nr(s)), p)
    BY GoodAnswer
  <2>2. DOMAIN tx' = Plugs /\ \A q \in Plugs : OwnLine(tx'[q], q)
    BY <1>4, <2>1, SaidLines DEF LineInv, SayId, Say
  <2> QED BY <1>4, <2>2 DEF SayId, dataVars
<1>5. CASE SayError(p, s)
  <2>1. PICK cut \in BOOLEAN : tx' = [tx EXCEPT ![p] = Written(Answer("e", 0, p, Nr(s)), cut)]
    BY <1>5 DEF SayError
  <2>2. Good(Answer("e", 0, p, Nr(s)), p)
    BY GoodAnswer
  <2>3. DOMAIN tx' = Plugs /\ \A q \in Plugs : OwnLine(tx'[q], q)
    BY <2>1, <2>2, SaidLines DEF LineInv
  <2> QED BY <1>5, <2>3 DEF SayError, dataVars
<1> QED BY <1>1, <1>2, <1>3, <1>4, <1>5 DEF Serve

(* readSensor() measures, whatever the sensor does.                        *)
LEMMA SensorRead ==
  ASSUME LineInv, NEW p \in Plugs, ReadSensor(p)
  PROVE  Read' /\ (Measures(p) => reading'[p] # Nothing)
<1>1. Measured # Nothing /\ NaN # Nothing
  BY DEF Measured, NaN, Nothing
<1>2. /\ valid' = [valid EXCEPT ![p] = TRUE]
      /\ \/ reading' = [reading EXCEPT ![p] = Measured]
         \/ /\ Sketch[p] = "co2" /\ reading' = [reading EXCEPT ![p] = reading[p]]
         \/ /\ Sketch[p] # "co2" /\ reading' = [reading EXCEPT ![p] = NaN]
  BY DEF ReadSensor
<1>3. DOMAIN reading' = Plugs /\ DOMAIN valid' = Plugs
  BY <1>2 DEF LineInv, Read
<1>4. Measures(p) => reading'[p] # Nothing
  BY <1>1, <1>2 DEF LineInv, Read, Measures
<1>5. ASSUME NEW q \in Plugs, q # p
      PROVE  reading'[q] = reading[q] /\ (valid'[q] <=> valid[q])
  BY <1>2, <1>5 DEF LineInv, Read
<1>6. ASSUME NEW q \in Plugs, Measures(q), valid'[q]
      PROVE  reading'[q] # Nothing
  BY <1>4, <1>5, <1>6 DEF LineInv, Read
<1> QED BY <1>3, <1>4, <1>6 DEF Read

-----------------------------------------------------------------------------
(* The actions, each with what it does to LineInv.                         *)

LEMMA PassOnSafe == ASSUME LineInv, PassOn PROVE LineInv'
<1>1. PICK o \in Orders, noise \in BOOLEAN :
        Listen(o.plug) /\ \E m : Println(o.plug, m, noise)
  BY DEF PassOn
<1>2. OwnLine(ring', active') /\ OwnLine(deviceMessage', active')
  BY <1>1, NewListener DEF PassOn, LineInv
<1>3. DOMAIN tx' = Plugs /\ \A q \in Plugs : OwnLine(tx'[q], q)
  BY <1>1, AskedLines DEF LineInv
<1>4. Listening'
  BY DEF LineInv, Listening, PassOn, Free
<1>5. reading' = reading /\ valid' = valid /\ heard' = heard
  BY DEF PassOn, dataVars
<1> QED BY <1>2, <1>3, <1>4, <1>5 DEF LineInv, Lines, Read, Passed

LEMMA PollSafe == ASSUME LineInv, Poll PROVE LineInv'
<1>1. Listen(cur) /\ \E noise \in BOOLEAN : \E m : Println(cur, m, noise)
  BY DEF Poll
<1>2. OwnLine(ring', active') /\ OwnLine(deviceMessage', active')
  BY <1>1, NewListener DEF Poll, LineInv
<1>3. DOMAIN tx' = Plugs /\ \A q \in Plugs : OwnLine(tx'[q], q)
  BY <1>1, AskedLines DEF LineInv
<1>4. Listening'
  BY DEF Listening, Poll, Listen
<1>5. reading' = reading /\ valid' = valid /\ heard' = heard
  BY DEF Poll, dataVars
<1> QED BY <1>2, <1>3, <1>4, <1>5 DEF LineInv, Lines, Read, Passed

LEMMA HeardGood ==
  ASSUME Passed, NEW p,
         \/ heard' = heard
         \/ \E m : Good(m, p) /\ heard' = [heard EXCEPT ![p] = m]
  PROVE  Passed'
BY DEF Passed

LEMMA PollHearsSafe == ASSUME LineInv, PollHears PROVE LineInv'
<1>1. active' = active /\ tx' = tx /\ reading' = reading /\ valid' = valid
  BY DEF PollHears, boardVars, wireVars, dataVars
<1>2. active = cur /\ (LineEnd(cur) \/ Characters)
  BY DEF LineInv, Listening, PollHears
<1>3. /\ OwnLine(ring', cur) /\ OwnLine(deviceMessage', cur)
      /\ \/ heard' = heard
         \/ \E m : Good(m, cur) /\ heard' = [heard EXCEPT ![cur] = m]
  BY <1>2, HeardPieces DEF LineInv, Lines
<1>4. Lines'
  BY <1>1, <1>2, <1>3 DEF LineInv, Lines
<1>5. Passed'
  BY <1>3, HeardGood DEF LineInv
<1>6. Listening'
  BY <1>1 DEF LineInv, Listening, PollHears, NextPlug
<1>7. Read'
  BY <1>1 DEF LineInv, Read
<1> QED BY <1>4, <1>5, <1>6, <1>7 DEF LineInv

LEMMA LoopHearsSafe == ASSUME LineInv, LoopHears PROVE LineInv'
<1>1. /\ active' = active /\ tx' = tx /\ reading' = reading /\ valid' = valid
      /\ waiting' = waiting /\ cur' = cur /\ pollMessage' = pollMessage
  BY DEF LoopHears, bridgeVars, boardVars, wireVars, dataVars
<1>2. LineEnd(active) \/ Characters
  BY DEF LoopHears, LoopCanHear
<1>3. /\ OwnLine(ring', active) /\ OwnLine(deviceMessage', active)
      /\ \/ heard' = heard
         \/ \E m : Good(m, active) /\ heard' = [heard EXCEPT ![active] = m]
  BY <1>2, HeardPieces DEF LineInv, Lines
<1>4. Lines'
  BY <1>1, <1>3 DEF LineInv, Lines
<1>5. Passed'
  BY <1>3, HeardGood DEF LineInv
<1>6. Listening'
  BY <1>1 DEF LineInv, Listening
<1>7. Read'
  BY <1>1 DEF LineInv, Read
<1> QED BY <1>4, <1>5, <1>6, <1>7 DEF LineInv

(* A step that leaves lines, readings and what was heard alone.            *)
Untouched == UNCHANGED <<ring, active, deviceMessage, tx, reading, valid, heard>>

LEMMA UntouchedSafe == ASSUME LineInv, Untouched, Listening' PROVE LineInv'
BY DEF LineInv, Untouched, Lines, Read, Passed

(* The other steps of the bridge.                                          *)
LEMMA RestOfBridge ==
  ASSUME LineInv,
         \/ PollOnCommand \/ RepeatOnCommand \/ NoMoreInput
         \/ RepeatDue \/ RepeatNotDue \/ PollTimesOut \/ LoopHearsNothing
  PROVE  LineInv'
<1> USE DEF Untouched, hearVars, boardVars, wireVars, dataVars, seenVars, LineInv, Listening
<1>1. CASE PollOnCommand
  BY <1>1, UntouchedSafe DEF PollOnCommand, Free
<1>2. CASE RepeatOnCommand
  BY <1>2, UntouchedSafe DEF RepeatOnCommand
<1>3. CASE NoMoreInput
  BY <1>3, UntouchedSafe DEF NoMoreInput
<1>4. CASE RepeatDue
  BY <1>4, UntouchedSafe DEF RepeatDue, Free
<1>5. CASE RepeatNotDue
  BY <1>5, UntouchedSafe DEF RepeatNotDue
<1>6. CASE PollTimesOut
  BY <1>6, UntouchedSafe DEF PollTimesOut, NextPlug
<1>7. CASE LoopHearsNothing
  BY <1>7, UntouchedSafe DEF LoopHearsNothing
<1> QED BY <1>1, <1>2, <1>3, <1>4, <1>5, <1>6, <1>7

(* A step of a board that leaves what the bridge holds alone.              *)
LEMMA AtBoard ==
  ASSUME LineInv, UNCHANGED <<bridgeVars, hearVars, heard>>,
         DOMAIN tx' = Plugs, \A q \in Plugs : OwnLine(tx'[q], q), Read'
  PROVE  LineInv'
BY DEF LineInv, bridgeVars, hearVars, Lines, Listening, Passed

LEMMA PowerSafe ==
  ASSUME LineInv, NEW p \in Plugs, PowerCut(p) \/ ReadMarker(p) \/ WriteId(p)
  PROVE  LineInv'
<1>1. CASE PowerCut(p)
  <2>1. UNCHANGED <<bridgeVars, hearVars, heard>>
    BY <1>1 DEF PowerCut, seenVars
  <2>2. DOMAIN tx' = Plugs /\ \A q \in Plugs : OwnLine(tx'[q], q)
    BY <1>1, EmptyLine DEF PowerCut, LineInv, Lines
  <2>3. Read'
    BY <1>1 DEF PowerCut, LineInv, Read
  <2> QED BY <2>1, <2>2, <2>3, AtBoard
<1>2. CASE ReadMarker(p) \/ WriteId(p)
  <2>1. UNCHANGED <<bridgeVars, hearVars, heard, tx, reading, valid>>
    BY <1>2 DEF ReadMarker, WriteId, seenVars, dataVars, wireVars
  <2> QED BY <2>1, AtBoard DEF LineInv, Lines, Read
<1> QED BY <1>1, <1>2

LEMMA TakeSafe ==
  ASSUME LineInv, NEW p \in Plugs, TakeBytes(p) \/ TakeLine(p)
  PROVE  LineInv'
<1>1. UNCHANGED <<bridgeVars, hearVars, heard>>
  BY DEF TakeBytes, TakeLine, seenVars
<1>2. \/ UNCHANGED <<tx, reading, valid>>
      \/ Serve(p, NextLine(p))
  BY DEF TakeBytes, TakeLine, dataVars
<1>3. /\ DOMAIN tx' = Plugs /\ \A q \in Plugs : OwnLine(tx'[q], q)
      /\ reading' = reading /\ valid' = valid
  BY <1>2, ServedLines DEF LineInv, Lines
<1> QED BY <1>1, <1>3, AtBoard DEF LineInv, Read

LEMMA SensorSafe ==
  ASSUME LineInv, NEW p \in Plugs, FirstReading(p) \/ PauseEnds(p)
  PROVE  LineInv'
<1>1. CASE FirstReading(p)
  <2>1. UNCHANGED <<bridgeVars, hearVars, heard>>
    BY <1>1 DEF FirstReading, seenVars
  <2>2. Read' /\ (Measures(p) => reading'[p] # Nothing)
    BY <1>1, SensorRead DEF FirstReading
  <2>3. Good(Answer("v", reading'[p], p, job[p].nr), p)
    BY <2>2, GoodAnswer
  <2>4. DOMAIN tx' = Plugs /\ \A q \in Plugs : OwnLine(tx'[q], q)
    BY <1>1, <2>3, SaidLines DEF LineInv, FirstReading, Say
  <2> QED BY <2>1, <2>2, <2>4, AtBoard
<1>2. CASE PauseEnds(p)
  <2>1. UNCHANGED <<bridgeVars, hearVars, heard, tx>>
    BY <1>2 DEF PauseEnds, seenVars
  <2>2. ReadSensor(p) \/ UNCHANGED <<reading, valid>>
    BY <1>2 DEF PauseEnds
  <2>3. Read'
    BY <2>2, SensorRead DEF LineInv, Read
  <2> QED BY <2>1, <2>3, AtBoard DEF LineInv, Lines
<1> QED BY <1>1, <1>2

LEMMA WriteSafe ==
  ASSUME LineInv, NEW p \in Plugs, Write(p)
  PROVE  LineInv'
<1> DEFINE k == Chunk(tx[p])
           c == SubSeq(tx[p], 1, k)
<1>1. OwnLine(tx[p], p) /\ Len(tx[p]) \in Nat
  BY LineIsSeq DEF LineInv, Lines
<1>2. k \in 0 .. Len(tx[p])
  <2>1. Control(tx[p]) \subseteq 1 .. Len(tx[p])
    BY DEF Control
  <2>2. CASE Control(tx[p]) = {}
    BY <1>1, <2>2 DEF Chunk
  <2>3. CASE Control(tx[p]) # {}
    <3>1. FirstOf(Control(tx[p])) \in 1 .. Len(tx[p])
      BY <1>1, <2>1, <2>3, FirstIsOne
    <3> QED BY <1>1, <2>3, <3>1 DEF Chunk
  <2> QED BY <2>2, <2>3
<1> HIDE DEF k
<1>3. OwnLine(c, p) /\ OwnLine(Beyond(tx[p], k), p)
  BY <1>1, <1>2, PartOfLine DEF Beyond
<1>4. /\ tx' = [tx EXCEPT ![p] = Beyond(tx[p], k)]
      /\ \/ active = p /\ ring' = ring \o c
         \/ ring' = ring
         \/ active = p /\ \E s \in Damaged(c) : ring' = ring \o s
      /\ UNCHANGED <<bridgeVars, active, deviceMessage, dataVars, heard>>
  BY DEF Write, seenVars, k
<1> HIDE DEF c
<1>5. OwnLine(ring', active')
  <2>1. OwnLine(ring, active)
    BY DEF LineInv, Lines
  <2>2. CASE active = p /\ ring' = ring \o c
    BY <1>3, <1>4, <2>1, <2>2, JoinedLine
  <2>3. CASE ring' = ring
    BY <1>4, <2>1, <2>3
  <2>4. ASSUME active = p, NEW s \in Damaged(c), ring' = ring \o s
        PROVE  OwnLine(ring', active')
    <3>1. OwnLine(s, p)
      BY <1>3, DamagedLine
    <3> QED BY <1>4, <2>1, <2>4, <3>1, JoinedLine
  <2> QED BY <1>4, <2>2, <2>3, <2>4
<1>6. Lines'
  BY <1>3, <1>4, <1>5 DEF LineInv, Lines
<1>7. Listening' /\ Read' /\ Passed'
  BY <1>4 DEF LineInv, bridgeVars, dataVars, Listening, Read, Passed
<1> QED BY <1>6, <1>7 DEF LineInv

LEMMA LineInvNext == LineInv /\ [Next]_vars => LineInv'
<1> SUFFICES ASSUME LineInv, [Next]_vars PROVE LineInv'
  OBVIOUS
<1>1. CASE Bridge
  BY <1>1, PassOnSafe, PollSafe, PollHearsSafe, LoopHearsSafe, RestOfBridge DEF Bridge
<1>2. ASSUME NEW p \in Plugs, Board(p) PROVE LineInv'
  BY <1>2, PowerSafe, TakeSafe, SensorSafe, WriteSafe DEF Board
<1>3. CASE UNCHANGED vars
  BY <1>3, UntouchedSafe DEF vars, bridgeVars, hearVars, boardVars, wireVars, dataVars,
     seenVars, Untouched, LineInv, Listening
<1> QED BY <1>1, <1>2, <1>3 DEF Next

(* Only what a board wrote, or damage no checksum fits, is ever on a line. *)
THEOREM LineInvHolds == Spec => []LineInv
BY LineInvInit, LineInvNext, PTL DEF Spec

(* Whatever noise, power cuts and lines passed on: what the bridge passes  *)
(* on as plug p's was written by the board at plug p.                      *)
THEOREM ForwardedOwnHolds == Spec => []ForwardedOwn
<1>1. LineInv => ForwardedOwn
  BY DEF LineInv, Passed, Good, NoMsg, ForwardedOwn
<1> QED BY <1>1, LineInvHolds, PTL

(* No board that reads on request, but the CO2 board, answers with the     *)
(* value it woke up with.                                                  *)
THEOREM ReadingMeasuredHolds == Spec => []ReadingMeasured
<1>1. LineInv => ReadingMeasured
  BY DEF LineInv, Passed, Good, NoMsg, Measures, ReadingMeasured
<1> QED BY <1>1, LineInvHolds, PTL

-----------------------------------------------------------------------------
(* The ID in the EEPROM is the one the board goes by, from the marker on:  *)
(* before that, and while the ID is chosen, it has gone by none.           *)
IdAt(pow, mark, id, used) ==
  IF pow = "id" THEN mark = TRUE /\ used = {}
  ELSE /\ mark = TRUE => used \subseteq {id}
       /\ mark = FALSE => pow = "off" /\ used = {}

IdInv ==
  /\ power \in [Plugs -> {"off", "id", "up"}] /\ marker \in [Plugs -> BOOLEAN]
  /\ DOMAIN eeId = Plugs /\ DOMAIN usedIds = Plugs
  /\ \A p \in Plugs : IdAt(power[p], marker[p], eeId[p], usedIds[p])

LEMMA IdInvInit == Init => IdInv
BY DEF Init, IdInv, IdAt

(* The steps that no ID depends on.                                        *)
LEMMA NoIdStep ==
  ASSUME IdInv, UNCHANGED <<power, marker, eeId, usedIds>>
  PROVE  IdInv'
BY DEF IdInv

(* The steps that change one board's.                                      *)
LEMMA IdStep ==
  ASSUME IdInv, NEW p \in Plugs,
         power' \in [Plugs -> {"off", "id", "up"}], marker' \in [Plugs -> BOOLEAN],
         DOMAIN eeId' = Plugs, DOMAIN usedIds' = Plugs,
         \A q \in Plugs : q # p => /\ power'[q] = power[q] /\ marker'[q] = marker[q]
                                  /\ eeId'[q] = eeId[q] /\ usedIds'[q] = usedIds[q],
         IdAt(power'[p], marker'[p], eeId'[p], usedIds'[p])
  PROVE  IdInv'
<1>1. ASSUME NEW q \in Plugs PROVE IdAt(power'[q], marker'[q], eeId'[q], usedIds'[q])
  BY DEF IdInv
<1> QED BY <1>1 DEF IdInv

LEMMA IdInvNext == IdInv /\ [Next]_vars => IdInv'
<1> SUFFICES ASSUME IdInv, [Next]_vars PROVE IdInv'
  OBVIOUS
<1>1. CASE Bridge
  <2>1. UNCHANGED <<power, marker, eeId, usedIds>>
    BY <1>1 DEF Bridge, PollOnCommand, RepeatOnCommand, PassOn, NoMoreInput, RepeatDue,
       RepeatNotDue, Poll, PollHears, PollTimesOut, LoopHears, LoopHearsNothing, boardVars, idVars
  <2> QED BY <2>1, NoIdStep
<1>2. ASSUME NEW p \in Plugs, PowerCut(p) PROVE IdInv'
  <2>1. /\ power' = [power EXCEPT ![p] = "off"]
        /\ UNCHANGED <<marker, eeId, usedIds>>
    BY <1>2 DEF PowerCut
  <2>2. IdAt("off", marker[p], eeId[p], usedIds[p])
    BY DEF IdInv, IdAt
  <2> QED BY <2>1, <2>2, IdStep DEF IdInv
<1>3. ASSUME NEW p \in Plugs, ReadMarker(p) PROVE IdInv'
  <2>1. CASE marker[p] = TRUE
    <3>1. /\ power' = [power EXCEPT ![p] = "up"]
          /\ usedIds' = [usedIds EXCEPT ![p] = usedIds[p] \cup {eeId[p]}]
          /\ UNCHANGED <<marker, eeId>> /\ power[p] = "off"
      BY <1>3, <2>1 DEF ReadMarker, GoByIds
    <3>2. IdAt("up", marker[p], eeId[p], usedIds[p] \cup {eeId[p]})
      BY <2>1, <3>1 DEF IdInv, IdAt
    <3> QED BY <3>1, <3>2, IdStep DEF IdInv
  <2>2. CASE marker[p] = FALSE
    <3>1. /\ power' = [power EXCEPT ![p] = "id"] /\ marker' = [marker EXCEPT ![p] = TRUE]
          /\ UNCHANGED <<eeId, usedIds>> /\ power[p] = "off"
      BY <1>3, <2>2 DEF ReadMarker
    <3>2. IdAt("id", TRUE, eeId[p], usedIds[p])
      BY <2>2, <3>1 DEF IdInv, IdAt
    <3> QED BY <3>1, <3>2, IdStep DEF IdInv
  <2> QED BY <2>1, <2>2 DEF IdInv
<1>4. ASSUME NEW p \in Plugs, WriteId(p) PROVE IdInv'
  <2>1. PICK id \in Ids : eeId' = [eeId EXCEPT ![p] = id] /\ GoByIds(p, id)
    BY <1>4 DEF WriteId
  <2>2. /\ power' = [power EXCEPT ![p] = "up"]
        /\ usedIds' = [usedIds EXCEPT ![p] = usedIds[p] \cup {id}]
        /\ marker' = marker /\ power[p] = "id"
    BY <1>4, <2>1 DEF WriteId, GoByIds
  <2>3. IdAt("up", marker[p], id, usedIds[p] \cup {id})
    BY <2>2 DEF IdInv, IdAt
  <2> QED BY <2>1, <2>2, <2>3, IdStep DEF IdInv
<1>5. ASSUME NEW p \in Plugs,
             TakeBytes(p) \/ TakeLine(p) \/ FirstReading(p) \/ PauseEnds(p) \/ Write(p)
      PROVE  IdInv'
  BY <1>5, NoIdStep DEF TakeBytes, TakeLine, FirstReading, PauseEnds, Write, idVars
<1>6. CASE UNCHANGED vars
  BY <1>6, NoIdStep DEF vars, boardVars, idVars
<1> QED BY <1>1, <1>2, <1>3, <1>4, <1>5, <1>6 DEF Next, Board

(* A board keeps its ID over any number of power cuts, also one between    *)
(* marker and ID.                                                          *)
THEOREM IdKeptHolds == Spec => []IdKept
<1>1. IdInv => IdKept
  <2> SUFFICES ASSUME IdInv, NEW p \in Plugs, NEW a \in usedIds[p], NEW b \in usedIds[p]
               PROVE  a = b
    BY DEF IdKept
  <2>1. usedIds[p] \subseteq {eeId[p]}
    BY DEF IdInv, IdAt
  <2> QED BY <2>1
<1> QED BY <1>1, IdInvInit, IdInvNext, PTL DEF Spec

-----------------------------------------------------------------------------
(* Types.  What a board has been told and has not yet served is numbered   *)
(* up to the last request to it: this bounds what the board takes its      *)
(* answer's number from.                                                   *)
PiecesTo(n) == {x \in Pieces : x.of.nr <= n}

ToldAt(r, g, n) ==
  /\ r \in Seq(PiecesTo(n)) /\ g \in Seq(PiecesTo(n))
  /\ r # << >> => Len(r) <= RxBuff

BridgeTypes ==
  /\ stage \in {"computer", "device", "repeat"}
  /\ pollMessage \in {"none", "v", "m"} /\ cur \in 0 .. MAX_DEVICE_COUNT
  /\ pollMessage = "none" <=> cur = 0
  /\ waiting => cur # 0 /\ active = cur
  /\ listenDevice \in 0 .. MAX_DEVICE_COUNT /\ active \in Plugs

RingTypes == ring \in Seq(Pieces) /\ deviceMessage \in Seq(Pieces)

ToldTypes ==
  /\ asked \in [Plugs -> Nat]
  /\ rx \in [Plugs -> Seq(Pieces)] /\ message \in [Plugs -> Seq(Pieces)]
  /\ \A p \in Plugs : ToldAt(rx[p], message[p], asked[p])

SaidTypes == tx \in [Plugs -> Seq(Pieces)]

BoardTypes ==
  /\ power \in [Plugs -> {"off", "id", "up"}]
  /\ level \in [Plugs -> Nat] /\ reading \in [Plugs -> Nat]
  /\ eeId \in [Plugs -> Nat] /\ deviceId \in [Plugs -> Nat]
  /\ job \in [Plugs -> Messages]

HeardTypes == heard \in [Plugs -> Messages]

TypeInv ==
  BridgeTypes /\ RingTypes /\ ToldTypes /\ SaidTypes /\ BoardTypes /\ HeardTypes

(* The kinds of pieces and messages.                                       *)
LEMMA MessageKinds ==
  /\ NoMsg \in Messages /\ MAX_DEVICE_COUNT \in Nat \ {0, 1}
  /\ \A c \in {"v", "m", "s"}, v, n \in Nat : Request(c, v, n) \in Messages
  /\ \A c \in {"v", "m", "s", "e"}, v, n \in Nat, p \in Plugs : Answer(c, v, p, n) \in Messages
BY BridgeAssumption DEF NoMsg, Messages, Request, Answer, Plugs

LEMMA PieceKinds ==
  ASSUME NEW n \in Nat, NEW m \in Messages, m.nr <= n
  PROVE  /\ Piece("cmd", m) \in PiecesTo(n) /\ Piece("arg", m) \in PiecesTo(n)
         /\ Piece("sum", m) \in PiecesTo(n) /\ Junk \in PiecesTo(n)
         /\ CR \in PiecesTo(n) /\ LF \in PiecesTo(n)
<1>1. NoMsg \in Messages /\ NoMsg.nr = 0
  BY MessageKinds DEF NoMsg
<1> QED BY <1>1 DEF Piece, PiecesTo, Pieces, Junk, CR, LF

LEMMA PartIn ==
  ASSUME NEW S, NEW s \in Seq(S), NEW a \in Nat \ {0}, NEW b \in Int, b <= Len(s)
  PROVE  SubSeq(s, a, b) \in Seq(S)
<1>1. \A i \in a .. b : s[i] \in S
  BY LenProperties
<1> QED BY <1>1, SubSeqProperties

LEMMA BeyondIn ==
  ASSUME NEW S, NEW s \in Seq(S), NEW k \in Nat
  PROVE  Beyond(s, k) \in Seq(S)
BY PartIn, LenProperties DEF Beyond

LEMMA UptoIn ==
  ASSUME NEW S, NEW s \in Seq(S), NEW k \in 1 .. Len(s) + 1
  PROVE  Upto(s, k) \in Seq(S)
<1>1. Len(s) \in Nat
  BY LenProperties
<1> QED BY <1>1, PartIn DEF Upto

(* Noise keeps a line within pieces that noise keeps.                      *)
LEMMA DamagedIn ==
  ASSUME NEW S, NEW s \in Seq(S), \A x \in S : Garbles(x) \subseteq S, NEW d \in Damaged(s)
  PROVE  d \in Seq(S)
<1>1. Len(s) \in Nat /\ \A k \in 1 .. Len(s) : s[k] \in S
  BY LenProperties
<1>2. ASSUME NEW k \in 1 .. Len(s)
      PROVE  SubSeq(s, 1, k - 1) \o SubSeq(s, k + 1, Len(s)) \in Seq(S)
  <2>1. SubSeq(s, 1, k - 1) \in Seq(S) /\ SubSeq(s, k + 1, Len(s)) \in Seq(S)
    BY <1>1, PartIn
  <2> QED BY <2>1, ConcatProperties
<1>3. ASSUME NEW k \in 1 .. Len(s), NEW g \in Garbles(s[k])
      PROVE  [s EXCEPT ![k] = g] \in Seq(S)
  <2>1. g \in S
    BY <1>1
  <2> QED BY <2>1, ExceptSeq
<1>4. \/ \E k \in 1 .. Len(s) : d = SubSeq(s, 1, k - 1) \o SubSeq(s, k + 1, Len(s))
      \/ \E k \in 1 .. Len(s) : \E g \in Garbles(s[k]) : d = [s EXCEPT ![k] = g]
  BY DEF Damaged
<1> QED BY <1>2, <1>3, <1>4

LEMMA GarbledIn ==
  ASSUME NEW n \in Nat, NEW x \in PiecesTo(n)
  PROVE  Garbles(x) \subseteq PiecesTo(n)
<1>1. Piece("sum", NoMsg) \in PiecesTo(n) /\ Junk \in PiecesTo(n)
  BY MessageKinds, PieceKinds DEF NoMsg
<1>2. ASSUME NEW v \in Levels
      PROVE  [x EXCEPT !.of.arg = v] \in PiecesTo(n)
  BY BridgeAssumption DEF PiecesTo, Pieces, Messages
<1> QED BY <1>1, <1>2 DEF Garbles

LEMMA WrittenIn ==
  ASSUME NEW n \in Nat, NEW m \in Messages, m.nr <= n, NEW cut \in BOOLEAN
  PROVE  Written(m, cut) \in Seq(PiecesTo(n))
<1> DEFINE S == PiecesTo(n)
<1>1. /\ Piece("cmd", m) \in S /\ Piece("arg", m) \in S /\ Junk \in S
      /\ Piece("sum", m) \in S /\ CR \in S /\ LF \in S
  BY PieceKinds
<1> HIDE DEF S
<1>2. \A x, y, z \in S : <<x>> \in Seq(S) /\ <<x, y>> \in Seq(S) /\ <<x, y, z>> \in Seq(S)
  OBVIOUS
<1>3. <<Piece("cmd", m), Junk>> \in Seq(S) /\ <<Piece("sum", m), CR, LF>> \in Seq(S)
  BY <1>1, <1>2
<1>4. Body(m) \in Seq(S)
  BY <1>1, <1>2 DEF Body
<1>5. (IF cut THEN <<Piece("cmd", m), Junk>> ELSE Body(m)) \in Seq(S)
  BY <1>3, <1>4
<1>6. Written(m, cut) \in Seq(S)
  BY <1>3, <1>5, ConcatProperties DEF Written
<1> QED BY <1>6 DEF S

(* The pieces of any number.                                               *)
LEMMA AllPieces ==
  ASSUME NEW n \in Nat
  PROVE  PiecesTo(n) \subseteq Pieces /\ Seq(PiecesTo(n)) \subseteq Seq(Pieces)
BY SeqMonotonic DEF PiecesTo

LEMMA MorePieces ==
  ASSUME NEW n \in Nat, NEW k \in Nat, n <= k
  PROVE  Seq(PiecesTo(n)) \subseteq Seq(PiecesTo(k))
<1>1. PiecesTo(n) \subseteq PiecesTo(k)
  BY DEF PiecesTo, Pieces, Messages
<1> QED BY <1>1, SeqMonotonic

(* The last of some positions.                                             *)
LEMMA LastIsOne ==
  ASSUME NEW K, K # {}, NEW n \in Nat, K \subseteq 0 .. n
  PROVE  \E x \in K : \A y \in K : y <= x
<1> DEFINE D == {n + 1 - k : k \in K}
           z == FirstOf(D)
<1>1. D # {}
  OBVIOUS
<1>2. D \subseteq 1 .. n + 1
  <2> SUFFICES ASSUME NEW k \in K PROVE n + 1 - k \in 1 .. n + 1
    OBVIOUS
  <2>1. k \in 0 .. n
    OBVIOUS
  <2> QED BY <2>1
<1> HIDE DEF D
<1>3. z \in D /\ \A j \in D : z <= j
  <2>1. n + 1 \in Nat
    OBVIOUS
  <2> HIDE DEF z
  <2>2. FirstOf(D) \in D /\ \A j \in D : FirstOf(D) <= j
    BY <1>1, <1>2, <2>1, FirstIsOne
  <2> QED BY <2>2 DEF z
<1> HIDE DEF z
<1>4. PICK x \in K : z = n + 1 - x
  BY <1>3 DEF D
<1>5. ASSUME NEW y \in K PROVE y <= x
  <2>1. n + 1 - y \in D
    BY DEF D
  <2>2. n + 1 - x <= n + 1 - y /\ x \in 0 .. n /\ y \in 0 .. n
    BY <1>3, <1>4, <2>1
  <2> QED BY <2>2
<1> QED BY <1>5

(* An answer is numbered like the newest piece of its line.                *)
LEMMA Newest ==
  ASSUME NEW n \in Nat, NEW s \in Seq(PiecesTo(n)), s # << >>
  PROVE  /\ Nr(s) \in 0 .. n
         /\ \E k \in 1 .. Len(s) : Nr(s) = s[k].of.nr
         /\ \A k \in 1 .. Len(s) : s[k].of.nr <= Nr(s)
<1> DEFINE K == {s[k].of.nr : k \in 1 .. Len(s)}
<1>1. Len(s) \in Nat /\ 1 \in 1 .. Len(s) /\ \A k \in 1 .. Len(s) : s[k] \in PiecesTo(n)
  BY EmptySeq, LenProperties
<1>2. \A k \in 1 .. Len(s) : s[k].of.nr \in 0 .. n
  BY <1>1 DEF PiecesTo, Pieces, Messages
<1>3. K # {} /\ K \subseteq 0 .. n
  BY <1>1, <1>2
<1>4. \E x \in K : \A y \in K : y <= x
  BY <1>3, LastIsOne
<1>5. \E x \in K : \A k \in 1 .. Len(s) : s[k].of.nr <= x
  BY <1>4
<1>6. Nr(s) \in K /\ \A k \in 1 .. Len(s) : s[k].of.nr <= Nr(s)
  BY <1>5 DEF Nr
<1> QED BY <1>3, <1>6

(* The arguments parseMessage leaves are the line's.                       *)
LEMMA ParsedArgument ==
  ASSUME NEW n \in Nat, NEW s \in Seq(PiecesTo(n)), ArgPieces(s) # {}
  PROVE  Arg0(s) \in Nat
<1>1. Len(s) \in Nat /\ \A k \in 1 .. Len(s) : s[k] \in PiecesTo(n)
  BY LenProperties
<1>2. Len(Parsed(s)) \in Nat /\ Len(Parsed(s)) <= Len(s)
  <2>1. CASE ~Refused(s)
    BY <1>1, <2>1 DEF Parsed
  <2>2. CASE Refused(s)
    <3> DEFINE K == {k \in Sums(s) : ~Fits(s, k)}
               c == CHOOSE k \in Sums(s) : ~Fits(s, k) /\ \A j \in Sums(s) : j < k => Fits(s, j)
    <3>1. Sums(s) \subseteq 1 .. Len(s) /\ K # {} /\ K \subseteq 1 .. Len(s)
      BY <2>2 DEF Refused, Sums
    <3>2. FirstOf(K) \in K /\ \A j \in K : FirstOf(K) <= j
      BY <1>1, <3>1, FirstIsOne
    <3>3. ASSUME NEW j \in Sums(s), j < FirstOf(K) PROVE Fits(s, j)
      <4>1. FirstOf(K) \in 1 .. Len(s) /\ j \in 1 .. Len(s)
        BY <3>1, <3>2
      <4>2. ~(FirstOf(K) <= j)
        BY <1>1, <3>3, <4>1
      <4>3. j \notin K
        BY <3>2, <4>2
      <4> QED BY <4>3
    <3>4. FirstOf(K) \in Sums(s) /\ ~Fits(s, FirstOf(K))
      BY <3>2
    <3>5. c \in Sums(s)
      BY <3>3, <3>4
    <3>6. Parsed(s) = SubSeq(s, 1, c - 1)
      BY <2>2 DEF Parsed
    <3> HIDE DEF c
    <3> QED BY <1>1, <3>1, <3>5, <3>6, SubSeqProperties
  <2> QED BY <2>1, <2>2
<1>3. ArgPieces(s) \subseteq 0 .. Len(s) /\ ArgPieces(s) \subseteq 1 .. Len(s)
  BY <1>1, <1>2 DEF ArgPieces
<1>4. \E x \in ArgPieces(s) : \A y \in ArgPieces(s) : y <= x
  BY <1>1, <1>3, LastIsOne
<1>5. PICK k \in ArgPieces(s) : Arg0(s) = s[k].of.arg
  BY <1>4 DEF Arg0
<1>6. s[k] \in PiecesTo(n)
  BY <1>1, <1>3
<1> QED BY <1>5, <1>6 DEF PiecesTo, Pieces, Messages

-----------------------------------------------------------------------------
LEMMA TypeInvInit == Init => TypeInv
<1> SUFFICES ASSUME Init PROVE TypeInv
  OBVIOUS
<1>1. MAX_DEVICE_COUNT \in Plugs /\ MAX_DEVICE_COUNT \in Nat /\ MAX_DEVICE_COUNT # 0
  BY MessageKinds DEF Plugs
<1>2. BridgeTypes
  BY <1>1 DEF Init, BridgeTypes
<1>3. RingTypes
  BY EmptySeq DEF Init, RingTypes
<1>4. ToldTypes
  BY EmptySeq DEF Init, ToldTypes, ToldAt
<1>5. SaidTypes
  BY EmptySeq DEF Init, SaidTypes
<1>6. BoardTypes
  <2>1. (CHOOSE id \in Ids : TRUE) \in Nat
    BY BridgeAssumption
  <2>2. eeId \in [Plugs -> Nat]
    BY <2>1 DEF Init
  <2> QED BY <2>2, MessageKinds DEF Init, BoardTypes
<1>7. HeardTypes
  BY MessageKinds DEF Init, HeardTypes
<1> QED BY <1>2, <1>3, <1>4, <1>5, <1>6, <1>7 DEF TypeInv

LEMMA CutIn ==
  ASSUME NEW S, NEW s \in Seq(S)
  PROVE  Cut(s, RxBuff) \in Seq(S) /\ Len(Cut(s, RxBuff)) <= RxBuff
<1> DEFINE b == IF Len(s) < RxBuff THEN Len(s) ELSE RxBuff
<1>1. Len(s) \in Nat /\ RxBuff \in Nat
  BY LenProperties, BridgeAssumption
<1>2. b \in Nat /\ b <= Len(s) /\ b <= RxBuff
  BY <1>1
<1>3. Cut(s, RxBuff) = SubSeq(s, 1, b)
  BY DEF Cut
<1> HIDE DEF b
<1>4. \A i \in 1 .. b : s[i] \in S
  BY <1>1, <1>2, LenProperties
<1>5. SubSeq(s, 1, b) \in Seq(S) /\ Len(SubSeq(s, 1, b)) = b
  BY <1>2, <1>4, SubSeqProperties
<1> QED BY <1>2, <1>3, <1>5

(* A request, whole or damaged, reaches the board, or spoils its answer.   *)
LEMMA AskedTypes ==
  ASSUME ToldTypes, SaidTypes, NEW p \in Plugs, NEW m \in Messages, m.nr = asked[p] + 1,
         NEW noise \in BOOLEAN, Println(p, m, noise), message' = message
  PROVE  ToldTypes' /\ SaidTypes'
<1> DEFINE n == asked[p] + 1
<1>1. n \in Nat /\ asked[p] \in Nat /\ asked[p] <= n /\ m.nr <= n
  BY DEF ToldTypes
<1>2. asked' = [asked EXCEPT ![p] = n]
  BY DEF Println
<1>3. asked' \in [Plugs -> Nat]
  BY <1>1, <1>2 DEF ToldTypes
<1> HIDE DEF n
<1>4. ToldAt(rx[p], message[p], asked[p]) /\ ToldAt(rx[p], message[p], n)
  BY <1>1, MorePieces DEF ToldTypes, ToldAt
<1>5. ASSUME rx' = rx PROVE ToldTypes'
  <2>1. ASSUME NEW q \in Plugs PROVE ToldAt(rx'[q], message'[q], asked'[q])
    BY <1>2, <1>4, <1>5 DEF ToldTypes
  <2> QED BY <1>3, <1>5, <2>1 DEF ToldTypes
<1>6. ASSUME NEW s \in IF noise THEN Damaged(Written(m, FALSE)) ELSE {Written(m, FALSE)},
             rx' = [rx EXCEPT ![p] = Cut(rx[p] \o s, RxBuff)]
      PROVE  ToldTypes'
  <2>1. Written(m, FALSE) \in Seq(PiecesTo(n))
    BY <1>1, WrittenIn
  <2>2. s \in Seq(PiecesTo(n))
    BY <1>1, <2>1, GarbledIn, DamagedIn
  <2>3. rx[p] \o s \in Seq(PiecesTo(n))
    BY <1>4, <2>2, ConcatProperties DEF ToldAt
  <2>4. ToldAt(Cut(rx[p] \o s, RxBuff), message[p], n)
    BY <1>4, <2>3, CutIn DEF ToldAt
  <2>5. ASSUME NEW q \in Plugs PROVE ToldAt(rx'[q], message'[q], asked'[q])
    BY <1>2, <1>6, <2>4 DEF ToldTypes
  <2>6. rx' \in [Plugs -> Seq(Pieces)]
    BY <1>1, <1>6, <2>4, AllPieces DEF ToldTypes, ToldAt
  <2> QED BY <1>3, <2>5, <2>6 DEF ToldTypes
<1>7. ToldTypes'
  BY <1>5, <1>6 DEF Println
<1>8. ASSUME tx' = tx PROVE SaidTypes'
  BY <1>8 DEF SaidTypes
<1>9. ASSUME tx[p] # << >>, tx' = [tx EXCEPT ![p][1] = Junk] PROVE SaidTypes'
  <2>1. tx[p] \in Seq(Pieces) /\ 1 \in 1 .. Len(tx[p])
    BY <1>9, EmptySeq, LenProperties DEF SaidTypes
  <2>2. Junk \in Pieces
    BY <1>1, PieceKinds, AllPieces
  <2>3. [tx[p] EXCEPT ![1] = Junk] \in Seq(Pieces)
    BY <2>1, <2>2, ExceptSeq
  <2> QED BY <1>9, <2>3 DEF SaidTypes
<1>10. SaidTypes'
  BY <1>8, <1>9 DEF Println
<1> QED BY <1>7, <1>10

(* The bridge's own steps.                                                 *)
LEMMA ListenTypes ==
  ASSUME RingTypes, NEW p, Listen(p), deviceMessage' = << >>
  PROVE  RingTypes'
BY EmptySeq DEF RingTypes, Listen

LEMMA PassOnTypes == ASSUME TypeInv, PassOn PROVE TypeInv'
<1>1. PICK o \in Orders : \E noise \in BOOLEAN :
        /\ o.k \in {"s", "m>"} /\ listenDevice' = o.plug /\ Listen(o.plug)
        /\ Println(o.plug, Request(IF o.k = "s" THEN "s" ELSE "m", o.level, asked[o.plug] + 1), noise)
  BY DEF PassOn
<1>2. o.plug \in Plugs /\ o.level \in Nat
  BY BridgeAssumption
<1> DEFINE m == Request(IF o.k = "s" THEN "s" ELSE "m", o.level, asked[o.plug] + 1)
<1>3. asked[o.plug] + 1 \in Nat
  BY <1>2 DEF TypeInv, ToldTypes
<1>4. m \in Messages /\ m.nr = asked[o.plug] + 1
  BY <1>2, <1>3, MessageKinds DEF Request
<1> HIDE DEF m
<1>5. ToldTypes' /\ SaidTypes'
  BY <1>1, <1>2, <1>4, AskedTypes DEF TypeInv, PassOn, m
<1>6. RingTypes'
  BY <1>1, ListenTypes DEF TypeInv, PassOn
<1>7. o.plug \in 0 .. MAX_DEVICE_COUNT
  BY <1>2, MessageKinds DEF Plugs
<1>8. BridgeTypes'
  BY <1>1, <1>2, <1>7 DEF TypeInv, BridgeTypes, PassOn, Free, Listen
<1>9. BoardTypes' /\ HeardTypes'
  BY DEF TypeInv, BoardTypes, HeardTypes, PassOn, idVars, dataVars
<1> QED BY <1>5, <1>6, <1>8, <1>9 DEF TypeInv

LEMMA PollTypes == ASSUME TypeInv, Poll PROVE TypeInv'
<1>1. PICK noise \in BOOLEAN : Println(cur, Request(pollMessage, 0, asked[cur] + 1), noise)
  BY DEF Poll
<1>2. cur \in Plugs /\ pollMessage \in {"v", "m", "s"} /\ cur # 0
  BY MessageKinds DEF TypeInv, BridgeTypes, Poll, Plugs
<1> DEFINE m == Request(pollMessage, 0, asked[cur] + 1)
<1>3. asked[cur] + 1 \in Nat
  BY <1>2 DEF TypeInv, ToldTypes
<1>4. m \in Messages /\ m.nr = asked[cur] + 1
  BY <1>2, <1>3, MessageKinds DEF Request
<1> HIDE DEF m
<1>5. ToldTypes' /\ SaidTypes'
  BY <1>1, <1>2, <1>4, AskedTypes DEF TypeInv, Poll, m
<1>6. RingTypes'
  BY ListenTypes DEF TypeInv, Poll
<1>7. BridgeTypes'
  BY <1>2 DEF TypeInv, BridgeTypes, Poll, Listen
<1>8. BoardTypes' /\ HeardTypes'
  BY DEF TypeInv, BoardTypes, HeardTypes, Poll, idVars, dataVars
<1> QED BY <1>5, <1>6, <1>7, <1>8 DEF TypeInv

LEMMA HeardIn ==
  ASSUME RingTypes, HeardTypes, NEW p \in Plugs, LineEnd(p) \/ Characters
  PROVE  RingTypes' /\ HeardTypes'
<1>1. CASE Characters
  BY <1>1, EmptySeq, ConcatProperties DEF Characters, RingTypes, HeardTypes
<1>2. CASE LineEnd(p)
  <2> DEFINE k == FirstOf(Control(ring))
             s == deviceMessage \o Upto(ring, k)
  <2>1. Len(ring) \in Nat
    BY LenProperties DEF RingTypes
  <2>2. Control(ring) \subseteq 1 .. Len(ring) /\ Control(ring) # {}
    BY <1>2 DEF LineEnd, Control
  <2>3. k \in 1 .. Len(ring)
    BY <2>1, <2>2, FirstIsOne
  <2>4. Upto(ring, k) \in Seq(Pieces) /\ Beyond(ring, k) \in Seq(Pieces)
    BY <2>1, <2>3, UptoIn, BeyondIn DEF RingTypes
  <2>5. s \in Seq(Pieces)
    BY <2>4, ConcatProperties DEF RingTypes
  <2>6. /\ ring' = Beyond(ring, k) /\ deviceMessage' = << >>
        /\ Forward(p, s) \/ heard' = heard
    BY <1>2 DEF LineEnd
  <2>7. RingTypes'
    BY <2>4, <2>6, EmptySeq DEF RingTypes
  <2> HIDE DEF s
  <2>8. ASSUME ChecksumOk(s) PROVE Content(s) \in Messages
    <3>1. PICK c \in Sums(s) : \A j \in Sums(s) : c <= j
      BY <2>8 DEF ChecksumOk
    <3>2. PICK c2 \in Sums(s) : Content(s) = s[c2].of
      BY <3>1 DEF Content
    <3>3. s[c2] \in Pieces
      BY <2>5, <3>2, LenProperties DEF Sums
    <3> QED BY <3>2, <3>3 DEF Pieces
  <2>9. HeardTypes'
    BY <2>6, <2>8 DEF HeardTypes, Forward
  <2> QED BY <2>7, <2>9
<1> QED BY <1>1, <1>2

LEMMA NextPlugTypes ==
  ASSUME BridgeTypes, NextPlug, cur \in Plugs, UNCHANGED <<stage, listenDevice, active>>
  PROVE  BridgeTypes'
<1>1. MAX_DEVICE_COUNT \in Nat /\ cur \in 1 .. MAX_DEVICE_COUNT
  BY MessageKinds DEF Plugs
<1>2. CASE cur < MAX_DEVICE_COUNT
  BY <1>1, <1>2 DEF BridgeTypes, NextPlug
<1>3. CASE ~(cur < MAX_DEVICE_COUNT)
  BY <1>1, <1>3 DEF BridgeTypes, NextPlug
<1> QED BY <1>2, <1>3

(* What the boards hold, and what they were told.                          *)
LEMMA BoardsUntouched ==
  ASSUME TypeInv, UNCHANGED <<boardVars, asked>>
  PROVE  ToldTypes' /\ SaidTypes' /\ BoardTypes'
BY DEF TypeInv, ToldTypes, SaidTypes, BoardTypes, boardVars, idVars, dataVars, wireVars

LEMMA BridgeStepTypes == ASSUME TypeInv, Bridge PROVE TypeInv'
<1>1. MAX_DEVICE_COUNT \in Nat /\ 1 \in 0 .. MAX_DEVICE_COUNT
  BY MessageKinds
<1>2. waiting => cur \in Plugs
  BY <1>1 DEF TypeInv, BridgeTypes, Plugs
<1>3. CASE PassOn \/ Poll
  BY <1>3, PassOnTypes, PollTypes
<1>4. CASE PollHears
  <2>1. HeardTypes' /\ RingTypes'
    BY <1>2, <1>4, HeardIn DEF TypeInv, PollHears
  <2>2. BridgeTypes'
    <3>1. CASE NextPlug
      BY <1>2, <1>4, <3>1, NextPlugTypes DEF TypeInv, PollHears
    <3>2. CASE UNCHANGED <<cur, pollMessage, waiting>>
      BY <1>4, <3>2 DEF TypeInv, BridgeTypes, PollHears
    <3> QED BY <1>4, <3>1, <3>2 DEF PollHears
  <2> QED BY <1>4, <2>1, <2>2, BoardsUntouched DEF PollHears, TypeInv
<1>5. CASE LoopHears
  <2>1. listenDevice \in Plugs
    BY <1>1, <1>5 DEF LoopHears, LoopCanHear, TypeInv, BridgeTypes, Plugs
  <2>2. HeardTypes' /\ RingTypes'
    BY <1>5, <2>1, HeardIn DEF TypeInv, LoopHears
  <2>3. BridgeTypes'
    BY <1>5 DEF TypeInv, BridgeTypes, LoopHears, bridgeVars
  <2> QED BY <1>5, <2>2, <2>3, BoardsUntouched DEF LoopHears, TypeInv
<1>6. ASSUME UNCHANGED <<hearVars, boardVars, seenVars>>, BridgeTypes' PROVE TypeInv'
  BY <1>6, BoardsUntouched DEF TypeInv, RingTypes, HeardTypes, hearVars, seenVars
<1>7. CASE PollTimesOut
  <2>1. BridgeTypes'
    BY <1>2, <1>7, NextPlugTypes DEF PollTimesOut, TypeInv, hearVars
  <2> QED BY <1>6, <1>7, <2>1 DEF PollTimesOut
<1>8. CASE PollOnCommand
  <2>1. BridgeTypes'
    BY <1>1, <1>8 DEF PollOnCommand, StartPolling, Free, TypeInv, BridgeTypes, hearVars
  <2> QED BY <1>6, <1>8, <2>1 DEF PollOnCommand
<1>9. CASE RepeatDue
  <2>1. BridgeTypes'
    BY <1>1, <1>9 DEF RepeatDue, StartPolling, Free, TypeInv, BridgeTypes, hearVars
  <2> QED BY <1>6, <1>9, <2>1 DEF RepeatDue
<1>10. CASE RepeatOnCommand \/ NoMoreInput \/ RepeatNotDue \/ LoopHearsNothing
  <2>1. BridgeTypes'
    BY <1>10 DEF RepeatOnCommand, NoMoreInput, RepeatNotDue, LoopHearsNothing, TypeInv,
       BridgeTypes, hearVars
  <2> QED BY <1>6, <1>10, <2>1 DEF RepeatOnCommand, NoMoreInput, RepeatNotDue, LoopHearsNothing
<1> QED BY <1>3, <1>4, <1>5, <1>7, <1>8, <1>9, <1>10 DEF Bridge

(* What a board says.                                                      *)
LEMMA SayTypes ==
  ASSUME SaidTypes, NEW p \in Plugs, NEW m \in Messages, NEW cut \in BOOLEAN,
         tx' = [tx EXCEPT ![p] = Written(m, cut)]
  PROVE  SaidTypes'
<1>1. m.nr \in Nat
  BY DEF Messages
<1>2. Written(m, cut) \in Seq(Pieces)
  BY <1>1, WrittenIn, AllPieces
<1> QED BY <1>2 DEF SaidTypes

LEMMA AnswerTypes ==
  ASSUME SaidTypes, NEW p \in Plugs, NEW c \in {"v", "m", "s", "e"}, NEW v \in Nat,
         NEW n \in Nat, NEW cut \in BOOLEAN, tx' = [tx EXCEPT ![p] = Written(Answer(c, v, p, n), cut)]
  PROVE  SaidTypes'
BY MessageKinds, SayTypes

(* processMessage() answers at once, or keeps the request for the sensor.  *)
LEMMA ServedAs ==
  ASSUME BoardTypes, NEW p \in Plugs, NEW n \in Nat, NEW s \in Seq(PiecesTo(n)),
         s # << >>, Serve(p, s)
  PROVE  /\ level' \in [Plugs -> Nat] /\ reading' = reading
         /\ \/ /\ job' = job
               /\ \E m \in Messages, cut \in BOOLEAN :
                    m.nr = Nr(s) /\ tx' = [tx EXCEPT ![p] = Written(m, cut)]
            \/ /\ tx' = tx
               /\ \E m \in Messages : m.nr = Nr(s) /\ job' = [job EXCEPT ![p] = m]
<1>1. Nr(s) \in Nat
  BY Newest
<1>2. ASSUME NEW c \in {"v", "m", "s", "e"}, NEW v \in Nat, NEW cut \in BOOLEAN,
             tx' = [tx EXCEPT ![p] = Written(Answer(c, v, p, Nr(s)), cut)]
      PROVE  \E m \in Messages, x \in BOOLEAN :
               m.nr = Nr(s) /\ tx' = [tx EXCEPT ![p] = Written(m, x)]
  <2>1. Answer(c, v, p, Nr(s)) \in Messages /\ Answer(c, v, p, Nr(s)).nr = Nr(s)
    BY <1>1, MessageKinds DEF Answer
  <2> QED BY <1>2, <2>1
<1>3. CASE SayValue(p, s)
  <2>1. PICK v \in IF Does[Sketch[p]].outputs THEN {level[p]}
                   ELSE IF Does[Sketch[p]].reads THEN {reading[p]} ELSE {Nothing, Measured} :
          Say(p, "v", v, Nr(s))
    BY <1>3 DEF SayValue
  <2>2. v \in Nat
    BY <2>1 DEF BoardTypes, Nothing, Measured
  <2> QED BY <1>2, <1>3, <2>1, <2>2 DEF Say, SayValue, BoardTypes, dataVars
<1>4. CASE ReadFirst(p, s)
  <2>1. Request("v", 0, Nr(s)) \in Messages /\ Request("v", 0, Nr(s)).nr = Nr(s)
    BY <1>1, MessageKinds DEF Request
  <2> QED BY <1>4, <2>1 DEF ReadFirst, BoardTypes, dataVars
<1>5. CASE SetValues(p, s)
  <2>1. PICK v \in IF ArgPieces(s) # {} THEN {Arg0(s)} ELSE Levels :
          /\ level' = [level EXCEPT ![p] = IF Does[Sketch[p]].outputs THEN v ELSE level[p]]
          /\ Say(p, "s", v, Nr(s))
    BY <1>5 DEF SetValues
  <2>2. v \in Nat
    BY <2>1, ParsedArgument, BridgeAssumption
  <2>3. level' \in [Plugs -> Nat]
    BY <2>1, <2>2 DEF BoardTypes
  <2> QED BY <1>2, <1>5, <2>1, <2>2, <2>3 DEF Say, SetValues
<1>6. CASE SayId(p, s)
  <2>1. deviceId[p] \in Nat
    BY DEF BoardTypes
  <2> QED BY <1>2, <1>6, <2>1 DEF SayId, Say, BoardTypes, dataVars
<1>7. CASE SayError(p, s)
  <2>1. PICK cut \in BOOLEAN : tx' = [tx EXCEPT ![p] = Written(Answer("e", 0, p, Nr(s)), cut)]
    BY <1>7 DEF SayError
  <2> QED BY <1>2, <1>7, <2>1 DEF SayError, BoardTypes, dataVars
<1> QED BY <1>3, <1>4, <1>5, <1>6, <1>7 DEF Serve

LEMMA ServeTypes ==
  ASSUME BoardTypes, SaidTypes, NEW p \in Plugs, NEW n \in Nat, NEW s \in Seq(PiecesTo(n)),
         s # << >>, Serve(p, s)
  PROVE  /\ SaidTypes' /\ level' \in [Plugs -> Nat] /\ job' \in [Plugs -> Messages]
         /\ reading' = reading
<1>1. /\ level' \in [Plugs -> Nat] /\ reading' = reading
      /\ \/ /\ job' = job
            /\ \E m \in Messages, cut \in BOOLEAN : tx' = [tx EXCEPT ![p] = Written(m, cut)]
         \/ /\ tx' = tx
            /\ \E m \in Messages : job' = [job EXCEPT ![p] = m]
  BY ServedAs
<1>2. SaidTypes'
  <2>1. ASSUME tx' = tx PROVE SaidTypes'
    BY <2>1 DEF SaidTypes
  <2> QED BY <1>1, <2>1, SayTypes
<1>3. job' \in [Plugs -> Messages]
  BY <1>1 DEF BoardTypes
<1> QED BY <1>1, <1>2, <1>3

(* A step of a board leaves the bridge and the computer alone.             *)
LEMMA AtBoardTypes ==
  ASSUME TypeInv, UNCHANGED <<bridgeVars, active, deviceMessage, heard>>,
         RingTypes', ToldTypes', SaidTypes', BoardTypes'
  PROVE  TypeInv'
BY DEF TypeInv, BridgeTypes, HeardTypes, bridgeVars

(* What is left to read of a line, and what has been read.                 *)
LEMMA ReadPart ==
  ASSUME ToldTypes, NEW p \in Plugs
  PROVE  /\ ReadTo(p) \in 1 .. Len(rx[p]) + 1 /\ Len(rx[p]) \in Nat /\ Len(message[p]) \in Nat
         /\ AtCR(p) => ReadTo(p) \in 1 .. Len(rx[p])
         /\ ReadTo(p) <= Len(rx[p]) => rx[p][ReadTo(p)].t \in {"cr", "lf"}
<1>1. Len(rx[p]) \in Nat /\ Len(message[p]) \in Nat
  BY LenProperties DEF ToldTypes, ToldAt
<1>2. CASE Control(rx[p]) = {}
  BY <1>1, <1>2 DEF ReadTo, AtCR, Control
<1>3. CASE Control(rx[p]) # {}
  <2>1. Control(rx[p]) \subseteq 1 .. Len(rx[p])
    BY DEF Control
  <2>2. FirstOf(Control(rx[p])) \in Control(rx[p])
    BY <1>1, <1>3, <2>1, FirstIsOne
  <2>3. ReadTo(p) \in 1 .. Len(rx[p]) /\ ReadTo(p) \in Control(rx[p])
    BY <1>3, <2>1, <2>2 DEF ReadTo
  <2>4. rx[p][ReadTo(p)].t \in {"cr", "lf"}
    BY <2>3 DEF Control
  <2> QED BY <1>1, <2>3, <2>4
<1> QED BY <1>2, <1>3

LEMMA NextLineIn ==
  ASSUME ToldTypes, NEW p \in Plugs
  PROVE  /\ NextLine(p) \in Seq(PiecesTo(asked[p]))
         /\ Beyond(rx[p], ReadTo(p)) \in Seq(PiecesTo(asked[p]))
<1> DEFINE n == asked[p]
<1>1. ToldAt(rx[p], message[p], n) /\ n \in Nat
  BY DEF ToldTypes
<1>2. ReadTo(p) \in 1 .. Len(rx[p]) + 1 /\ Len(rx[p]) \in Nat
  BY ReadPart
<1>3. rx[p] \in Seq(PiecesTo(n)) /\ ReadTo(p) \in Nat
  BY <1>1, <1>2 DEF ToldAt
<1>4. Upto(rx[p], ReadTo(p)) \in Seq(PiecesTo(n))
  BY <1>2, <1>3, UptoIn
<1>5. NextLine(p) \in Seq(PiecesTo(n))
  BY <1>1, <1>4, ConcatProperties DEF NextLine, ToldAt
<1> QED BY <1>3, <1>5, BeyondIn

LEMMA TakeTypes == ASSUME TypeInv, NEW p \in Plugs, TakeBytes(p) \/ TakeLine(p) PROVE TypeInv'
<1> DEFINE n == asked[p]
<1>1. ToldAt(rx[p], message[p], n) /\ n \in Nat
  BY DEF TypeInv, ToldTypes
<1>2. ReadTo(p) \in 1 .. Len(rx[p]) + 1 /\ Len(rx[p]) \in Nat
  BY ReadPart DEF TypeInv
<1>3. NextLine(p) \in Seq(PiecesTo(n)) /\ Beyond(rx[p], ReadTo(p)) \in Seq(PiecesTo(n))
  BY NextLineIn DEF TypeInv
<1>4. Len(Beyond(rx[p], ReadTo(p))) <= Len(rx[p]) /\ Len(rx[p]) <= RxBuff
  <2>1. \A i \in ReadTo(p) + 1 .. Len(rx[p]) : rx[p][i] \in PiecesTo(n)
    BY <1>1, <1>2, LenProperties DEF ToldAt
  <2>2. Len(Beyond(rx[p], ReadTo(p))) <= Len(rx[p])
    BY <1>2, <2>1, SubSeqProperties DEF Beyond
  <2>3. Len(rx[p]) <= RxBuff
    BY <1>1 DEF ToldAt, TakeBytes, TakeLine, MayRead
  <2> QED BY <2>2, <2>3
<1>5. PICK g \in {NextLine(p), << >>} :
        /\ rx' = [rx EXCEPT ![p] = Beyond(rx[p], ReadTo(p))] /\ message' = [message EXCEPT ![p] = g]
        /\ UNCHANGED <<asked, bridgeVars, hearVars, power, idVars, heard>>
        /\ UNCHANGED <<dataVars, job, tx>> \/ (NextLine(p) # << >> /\ Serve(p, NextLine(p)))
  BY DEF TakeBytes, TakeLine, seenVars
<1>6. g \in Seq(PiecesTo(n))
  BY <1>3, <1>5, EmptySeq
<1>7. ToldAt(Beyond(rx[p], ReadTo(p)), g, n)
  <2>1. Len(Beyond(rx[p], ReadTo(p))) \in Nat /\ RxBuff \in Nat
    BY <1>3, LenProperties, BridgeAssumption
  <2>2. Len(Beyond(rx[p], ReadTo(p))) <= RxBuff
    BY <1>2, <1>4, <2>1
  <2> QED BY <1>3, <1>6, <2>2 DEF ToldAt
<1> HIDE DEF n
<1>8. ToldTypes'
  <2>1. ASSUME NEW q \in Plugs PROVE ToldAt(rx'[q], message'[q], asked'[q])
    BY <1>5, <1>7 DEF TypeInv, ToldTypes, n
  <2>2. Beyond(rx[p], ReadTo(p)) \in Seq(Pieces) /\ g \in Seq(Pieces)
    BY <1>1, <1>3, <1>6, AllPieces
  <2> QED BY <1>5, <2>1, <2>2 DEF TypeInv, ToldTypes
<1>9. SaidTypes' /\ BoardTypes'
  <2>1. CASE UNCHANGED <<dataVars, job, tx>>
    BY <1>5, <2>1 DEF TypeInv, SaidTypes, BoardTypes, dataVars, idVars
  <2>2. CASE NextLine(p) # << >> /\ Serve(p, NextLine(p))
    <3>1. /\ SaidTypes' /\ level' \in [Plugs -> Nat] /\ job' \in [Plugs -> Messages]
          /\ reading' = reading
      BY <1>1, <1>3, <2>2, ServeTypes DEF TypeInv
    <3> QED BY <1>5, <3>1 DEF TypeInv, BoardTypes, idVars
  <2> QED BY <1>5, <2>1, <2>2
<1>10. RingTypes'
  BY <1>5 DEF TypeInv, RingTypes, hearVars
<1> QED BY <1>5, <1>8, <1>9, <1>10, AtBoardTypes DEF hearVars

LEMMA PowerTypes ==
  ASSUME TypeInv, NEW p \in Plugs, PowerCut(p) \/ ReadMarker(p) \/ WriteId(p)
  PROVE  TypeInv'
<1>1. CASE PowerCut(p)
  <2>1. ToldTypes'
    <3>1. ToldAt(<< >>, << >>, asked[p])
      BY EmptySeq DEF ToldAt
    <3>2. UNCHANGED asked
      BY <1>1 DEF PowerCut, seenVars
    <3>3. ASSUME NEW q \in Plugs PROVE ToldAt(rx'[q], message'[q], asked'[q])
      BY <1>1, <3>1, <3>2 DEF PowerCut, TypeInv, ToldTypes
    <3> QED BY <1>1, <3>2, <3>3, EmptySeq DEF PowerCut, TypeInv, ToldTypes
  <2>2. SaidTypes'
    BY <1>1, EmptySeq DEF PowerCut, TypeInv, SaidTypes
  <2>3. BoardTypes'
    BY <1>1, MessageKinds DEF PowerCut, TypeInv, BoardTypes
  <2>4. RingTypes'
    BY <1>1 DEF PowerCut, TypeInv, RingTypes, hearVars
  <2> QED BY <1>1, <2>1, <2>2, <2>3, <2>4, AtBoardTypes DEF PowerCut, hearVars, seenVars
<1>2. CASE ReadMarker(p) \/ WriteId(p)
  <2>1. UNCHANGED <<bridgeVars, hearVars, dataVars, wireVars, seenVars>>
    BY <1>2 DEF ReadMarker, WriteId
  <2>2. RingTypes' /\ ToldTypes' /\ SaidTypes'
    BY <2>1 DEF TypeInv, RingTypes, ToldTypes, SaidTypes, hearVars, wireVars, seenVars
  <2>3. BoardTypes'
    <3>1. CASE ReadMarker(p)
      BY <2>1, <3>1 DEF ReadMarker, GoByIds, TypeInv, BoardTypes, dataVars, wireVars
    <3>2. CASE WriteId(p)
      BY <2>1, <3>2, BridgeAssumption DEF WriteId, GoByIds, TypeInv, BoardTypes, dataVars, wireVars
    <3> QED BY <1>2, <3>1, <3>2
  <2> QED BY <2>1, <2>2, <2>3, AtBoardTypes DEF hearVars, seenVars
<1> QED BY <1>1, <1>2

LEMMA SensorTypes ==
  ASSUME BoardTypes, NEW p \in Plugs, ReadSensor(p)
  PROVE  reading' \in [Plugs -> Nat]
BY DEF BoardTypes, ReadSensor, Measured, NaN

LEMMA MeasureTypes ==
  ASSUME TypeInv, NEW p \in Plugs, FirstReading(p) \/ PauseEnds(p)
  PROVE  TypeInv'
<1>1. UNCHANGED <<bridgeVars, hearVars, power, idVars, level, rx, message, seenVars>>
  BY DEF FirstReading, PauseEnds
<1>2. RingTypes' /\ ToldTypes'
  BY <1>1 DEF TypeInv, RingTypes, ToldTypes, hearVars, seenVars
<1>3. reading' \in [Plugs -> Nat]
  BY SensorTypes DEF FirstReading, PauseEnds, TypeInv, BoardTypes
<1>4. CASE FirstReading(p)
  <2>1. reading'[p] \in Nat /\ job[p].nr \in Nat
    BY <1>3 DEF TypeInv, BoardTypes, Messages
  <2>2. SaidTypes'
    BY <1>4, <2>1, AnswerTypes DEF FirstReading, Say, TypeInv
  <2>3. BoardTypes'
    BY <1>1, <1>3, <1>4, MessageKinds DEF FirstReading, TypeInv, BoardTypes, idVars
  <2> QED BY <1>1, <1>2, <2>2, <2>3, AtBoardTypes DEF hearVars, seenVars
<1>5. CASE PauseEnds(p)
  <2>1. SaidTypes' /\ BoardTypes'
    BY <1>1, <1>3, <1>5 DEF PauseEnds, TypeInv, BoardTypes, SaidTypes, idVars
  <2> QED BY <1>1, <1>2, <2>1, AtBoardTypes DEF hearVars, seenVars
<1> QED BY <1>4, <1>5

(* The part of an answer that is written in one step.                      *)
LEMMA ChunkPart ==
  ASSUME SaidTypes, NEW p \in Plugs
  PROVE  Chunk(tx[p]) \in 0 .. Len(tx[p]) /\ Len(tx[p]) \in Nat
<1>1. Len(tx[p]) \in Nat
  BY LenProperties DEF SaidTypes
<1>2. Control(tx[p]) \subseteq 1 .. Len(tx[p])
  BY DEF Control
<1>3. CASE Control(tx[p]) = {}
  BY <1>1, <1>3 DEF Chunk
<1>4. CASE Control(tx[p]) # {}
  <2>1. FirstOf(Control(tx[p])) \in 1 .. Len(tx[p])
    BY <1>1, <1>2, <1>4, FirstIsOne
  <2> QED BY <1>1, <1>4, <2>1 DEF Chunk
<1> QED BY <1>3, <1>4

LEMMA NoiseIn ==
  ASSUME NEW s \in Seq(Pieces), NEW d \in Damaged(s)
  PROVE  d \in Seq(Pieces)
<1>1. ASSUME NEW x \in Pieces PROVE Garbles(x) \subseteq Pieces
  <2>1. x \in PiecesTo(x.of.nr) /\ x.of.nr \in Nat
    BY DEF PiecesTo, Pieces, Messages
  <2> QED BY <2>1, GarbledIn, AllPieces
<1> QED BY <1>1, DamagedIn

LEMMA WriteTypes == ASSUME TypeInv, NEW p \in Plugs, Write(p) PROVE TypeInv'
<1> DEFINE k == Chunk(tx[p])
           c == SubSeq(tx[p], 1, k)
<1>1. k \in 0 .. Len(tx[p]) /\ Len(tx[p]) \in Nat /\ tx[p] \in Seq(Pieces)
  BY ChunkPart DEF TypeInv, SaidTypes
<1> HIDE DEF k
<1>2. c \in Seq(Pieces) /\ Beyond(tx[p], k) \in Seq(Pieces)
  <2>1. k \in Nat /\ k <= Len(tx[p])
    BY <1>1
  <2>2. c \in Seq(Pieces)
    BY <1>1, <2>1, PartIn
  <2> QED BY <1>1, <2>1, <2>2, BeyondIn
<1>3. \A d \in Damaged(c) : d \in Seq(Pieces)
  BY <1>2, NoiseIn
<1> HIDE DEF c
<1>4. /\ tx' = [tx EXCEPT ![p] = Beyond(tx[p], k)]
      /\ \/ ring' = ring \/ ring' = ring \o c
         \/ \E s \in Damaged(c) : ring' = ring \o s
      /\ UNCHANGED <<bridgeVars, active, deviceMessage, power, idVars, dataVars, rx, message,
                     job, asked, heard>>
  BY DEF Write, seenVars, k, c
<1>5. RingTypes'
  <2>1. ring \in Seq(Pieces) /\ \A s \in Seq(Pieces) : ring \o s \in Seq(Pieces)
    BY ConcatProperties DEF TypeInv, RingTypes
  <2>2. ring' \in Seq(Pieces)
    BY <1>2, <1>3, <1>4, <2>1
  <2> QED BY <1>4, <2>2 DEF TypeInv, RingTypes
<1>6. SaidTypes'
  BY <1>2, <1>4 DEF TypeInv, SaidTypes
<1>7. ToldTypes' /\ BoardTypes'
  BY <1>4 DEF TypeInv, ToldTypes, BoardTypes, dataVars, idVars
<1> QED BY <1>4, <1>5, <1>6, <1>7, AtBoardTypes

LEMMA TypeInvNext == TypeInv /\ [Next]_vars => TypeInv'
<1> SUFFICES ASSUME TypeInv, [Next]_vars PROVE TypeInv'
  OBVIOUS
<1>1. CASE Bridge
  BY <1>1, BridgeStepTypes
<1>2. ASSUME NEW p \in Plugs, Board(p) PROVE TypeInv'
  BY <1>2, PowerTypes, TakeTypes, MeasureTypes, WriteTypes DEF Board
<1>3. CASE UNCHANGED vars
  <2>1. RingTypes' /\ ToldTypes' /\ SaidTypes' /\ BoardTypes'
    BY <1>3 DEF vars, hearVars, boardVars, idVars, dataVars, wireVars, seenVars, TypeInv,
       RingTypes, ToldTypes, SaidTypes, BoardTypes
  <2> QED BY <1>3, <2>1, AtBoardTypes DEF vars, bridgeVars, hearVars, seenVars
<1> QED BY <1>1, <1>2, <1>3 DEF Next

(* Every variable keeps its kind, and no board is ever ahead of the last   *)
(* request to it.                                                          *)
THEOREM TypeInvHolds == Spec => []TypeInv
BY TypeInvInit, TypeInvNext, PTL DEF Spec

(* Every variable keeps its kind, for any boards, sketches and faults.     *)
THEOREM TypeCorrect == Spec => []TypeOK
<1>1. TypeInv => TypeOK
  <2> SUFFICES ASSUME TypeInv PROVE TypeOK
    OBVIOUS
  <2>1. \A p \in Plugs : rx[p] # << >> => Len(rx[p]) <= RxBuff
    BY DEF TypeInv, ToldTypes, ToldAt
  <2> QED BY <2>1 DEF TypeInv, BridgeTypes, RingTypes, ToldTypes, SaidTypes, BoardTypes, TypeOK
<1> QED BY <1>1, TypeInvHolds, PTL

-----------------------------------------------------------------------------
(* Order.  The numbers of the requests run through the system: what a      *)
(* board has been told and not served is newer than what it is about to    *)
(* answer, that newer than what it has answered, and that, as far as it is *)
(* still coming, newer than what was passed on.                            *)

LEMMA Numbers ==
  ASSUME NEW s \in Seq(Pieces)
  PROVE  Len(s) \in Nat /\ \A k \in 1 .. Len(s) : s[k] \in Pieces /\ s[k].of.nr \in Nat
<1>1. Len(s) \in Nat /\ \A k \in 1 .. Len(s) : s[k] \in Pieces
  BY LenProperties
<1> QED BY <1>1 DEF Pieces, Messages

(* What a board has been told: every CR ends a line with a number, and     *)
(* what follows it is newer than that line.                                *)
Requests(u, d, n) ==
  /\ \A k \in 1 .. Len(u) :
       u[k].of.nr # 0 => d < u[k].of.nr /\ u[k].of.nr <= n /\ u[k].t \notin {"cr", "lf"}
  /\ \A j, k, l \in 1 .. Len(u) :
       j < k /\ k < l /\ u[k].t = "cr" /\ u[l].of.nr # 0 => u[j].of.nr < u[l].of.nr
  /\ \A k \in 1 .. Len(u) :
       u[k].t = "cr" =>
         \E j \in 1 .. k - 1 : u[j].of.nr # 0 /\ \A i \in j .. k - 1 : u[i].t # "cr"

(* A request as it arrives.                                                *)
Told(w, n) ==
  /\ \A k \in 1 .. Len(w) :
       w[k].of.nr # 0 => w[k].of.nr = n /\ w[k].t \notin {"cr", "lf"}
  /\ \A k, l \in 1 .. Len(w) : k < l /\ w[k].t = "cr" => w[l].of.nr = 0
  /\ \A k \in 1 .. Len(w) :
       w[k].t = "cr" =>
         \E j \in 1 .. k - 1 : w[j].of.nr # 0 /\ \A i \in j .. k - 1 : w[i].t # "cr"

LEMMA ToldMore ==
  ASSUME NEW u \in Seq(Pieces), NEW w \in Seq(Pieces), NEW v \in Seq(Pieces),
         NEW d \in Nat, NEW n \in Nat, d <= n, Requests(u, d, n), Told(w, n + 1),
         Len(v) <= Len(u) + Len(w),
         \A k \in 1 .. Len(v) : v[k] = IF k <= Len(u) THEN u[k] ELSE w[k - Len(u)]
  PROVE  Requests(v, d, n + 1)
<1> DEFINE a == Len(u)
<1>1. /\ a \in Nat /\ Len(w) \in Nat /\ Len(v) \in Nat
      /\ \A k \in 1 .. a : u[k].of.nr \in Nat
      /\ \A k \in 1 .. Len(w) : w[k].of.nr \in Nat
  BY Numbers
<1>2. \A k \in 1 .. Len(v) : k <= a => k \in 1 .. a /\ v[k] = u[k]
  BY <1>1
<1>3. \A k \in 1 .. Len(v) : ~(k <= a) => k - a \in 1 .. Len(w) /\ v[k] = w[k - a]
  BY <1>1
<1> HIDE DEF a
<1>4. ASSUME NEW k \in 1 .. Len(v), v[k].of.nr # 0
      PROVE  d < v[k].of.nr /\ v[k].of.nr <= n + 1 /\ v[k].t \notin {"cr", "lf"}
  <2>1. CASE k <= a
    BY <1>1, <1>2, <1>4, <2>1 DEF Requests, a
  <2>2. CASE ~(k <= a)
    <3>1. k - a \in 1 .. Len(w) /\ v[k] = w[k - a]
      BY <1>3, <2>2
    <3>2. w[k - a].of.nr = n + 1 /\ w[k - a].t \notin {"cr", "lf"}
      BY <1>4, <3>1 DEF Told
    <3> QED BY <3>1, <3>2
  <2> QED BY <2>1, <2>2
<1>5. ASSUME NEW j \in 1 .. Len(v), NEW k \in 1 .. Len(v), NEW l \in 1 .. Len(v),
             j < k, k < l, v[k].t = "cr", v[l].of.nr # 0
      PROVE  v[j].of.nr < v[l].of.nr
  <2>1. CASE l <= a
    <3>1. j <= a /\ k <= a
      BY <1>1, <1>5, <2>1
    <3> QED BY <1>2, <1>5, <2>1, <3>1 DEF Requests, a
  <2>2. CASE ~(l <= a)
    <3>1. v[l].of.nr = n + 1
      BY <1>3, <1>5, <2>2 DEF Told
    <3>2. k <= a
      <4> SUFFICES ASSUME ~(k <= a) PROVE FALSE
        OBVIOUS
      <4>1. k - a < l - a
        BY <1>1, <1>5
      <4> QED BY <1>3, <1>5, <2>2, <4>1 DEF Told
    <3>3. j <= a
      BY <1>1, <1>5, <3>2
    <3>4. v[j].of.nr \in Nat /\ (v[j].of.nr # 0 => v[j].of.nr <= n)
      BY <1>1, <1>2, <3>3 DEF Requests, a
    <3> QED BY <3>1, <3>4
  <2> QED BY <2>1, <2>2
<1>6. ASSUME NEW k \in 1 .. Len(v), v[k].t = "cr"
      PROVE  \E j \in 1 .. k - 1 : v[j].of.nr # 0 /\ \A i \in j .. k - 1 : v[i].t # "cr"
  <2>1. CASE k <= a
    <3>1. PICK j \in 1 .. k - 1 : u[j].of.nr # 0 /\ \A i \in j .. k - 1 : u[i].t # "cr"
      BY <1>2, <1>6, <2>1 DEF Requests, a
    <3>2. j \in j .. k - 1 /\ \A i \in j .. k - 1 : i \in 1 .. Len(v) /\ i <= a
      BY <1>1, <2>1
    <3>3. \A i \in j .. k - 1 : v[i] = u[i]
      BY <1>2, <3>2
    <3> QED BY <3>1, <3>2, <3>3
  <2>2. CASE ~(k <= a)
    <3>1. PICK j \in 1 .. k - a - 1 : w[j].of.nr # 0 /\ \A i \in j .. k - a - 1 : w[i].t # "cr"
      BY <1>3, <1>6, <2>2 DEF Told
    <3> DEFINE b == j + a
    <3>2. \A i \in b .. k - 1 : i \in 1 .. Len(v) /\ ~(i <= a) /\ i - a \in j .. k - a - 1
      BY <1>1, <2>2
    <3>4. b \in 1 .. k - 1 /\ b \in b .. k - 1 /\ b - a = j
      BY <1>1, <2>2
    <3> HIDE DEF b
    <3>3. \A i \in b .. k - 1 : v[i] = w[i - a]
      BY <1>3, <3>2
    <3>5. v[b].of.nr # 0
      BY <3>1, <3>3, <3>4
    <3>6. \A i \in b .. k - 1 : v[i].t # "cr"
      BY <3>1, <3>2, <3>3
    <3> QED BY <3>4, <3>5, <3>6
  <2> QED BY <2>1, <2>2
<1> QED BY <1>4, <1>5, <1>6 DEF Requests

(* A skipped LF.                                                           *)
LEMMA ToldSkipped ==
  ASSUME NEW u \in Seq(Pieces), NEW v \in Seq(Pieces), NEW d, NEW n, Requests(u, d, n),
         NEW x \in 1 .. Len(u), u[x].t = "lf", Len(v) = Len(u) - 1,
         \A k \in 1 .. Len(v) : v[k] = IF k < x THEN u[k] ELSE u[k + 1]
  PROVE  Requests(v, d, n)
<1> DEFINE F(k) == IF k < x THEN k ELSE k + 1
<1>1. Len(u) \in Nat /\ Len(v) \in Nat /\ u[x].of.nr = 0
  BY Numbers DEF Requests
<1>2. \A k \in 1 .. Len(v) : F(k) \in 1 .. Len(u) /\ v[k] = u[F(k)]
  BY <1>1
<1>3. \A j, k \in 1 .. Len(v) : j < k => F(j) < F(k)
  BY <1>1
<1>4. ASSUME NEW k \in 1 .. Len(v), v[k].t = "cr"
      PROVE  \E j \in 1 .. k - 1 : v[j].of.nr # 0 /\ \A i \in j .. k - 1 : v[i].t # "cr"
  <2>1. PICK j \in 1 .. F(k) - 1 : u[j].of.nr # 0 /\ \A i \in j .. F(k) - 1 : u[i].t # "cr"
    BY <1>2, <1>4 DEF Requests
  <2>2. j # x
    BY <1>1, <2>1
  <2> DEFINE b == IF j < x THEN j ELSE j - 1
  <2>3. b \in 1 .. k - 1 /\ F(b) = j
    BY <1>1, <2>2
  <2>4. \A i \in b .. k - 1 : i \in 1 .. Len(v) /\ F(i) \in j .. F(k) - 1
    BY <1>1, <2>2
  <2> HIDE DEF F, b
  <2>5. b \in 1 .. Len(v) /\ v[b].of.nr # 0
    BY <1>1, <1>2, <2>1, <2>3
  <2>6. \A i \in b .. k - 1 : v[i].t # "cr"
    BY <1>2, <2>1, <2>4
  <2> QED BY <2>3, <2>5, <2>6
<1> HIDE DEF F
<1>5. ASSUME NEW k \in 1 .. Len(v), v[k].of.nr # 0
      PROVE  d < v[k].of.nr /\ v[k].of.nr <= n /\ v[k].t \notin {"cr", "lf"}
  BY <1>2, <1>5 DEF Requests
<1>6. ASSUME NEW j \in 1 .. Len(v), NEW k \in 1 .. Len(v), NEW l \in 1 .. Len(v),
             j < k, k < l, v[k].t = "cr", v[l].of.nr # 0
      PROVE  v[j].of.nr < v[l].of.nr
  <2>1. F(j) < F(k) /\ F(k) < F(l)
    BY <1>3, <1>6
  <2>2. F(j) \in 1 .. Len(u) /\ F(k) \in 1 .. Len(u) /\ F(l) \in 1 .. Len(u)
    BY <1>2
  <2>3. v[j] = u[F(j)] /\ v[k] = u[F(k)] /\ v[l] = u[F(l)]
    BY <1>2
  <2>4. u[F(j)].of.nr < u[F(l)].of.nr
    BY <1>6, <2>1, <2>2, <2>3 DEF Requests
  <2> QED BY <2>3, <2>4
<1> QED BY <1>4, <1>5, <1>6 DEF Requests

(* Positions behind a line, counted from its CR and from the start.        *)
LEMMA Shifted ==
  \A m, n \in Nat : \A x \in 1 .. m : \A j, k, l \in 1 .. n :
     j < k /\ k < l => j + x < k + x /\ k + x < l + x
OBVIOUS

LEMMA ShiftedBack ==
  \A x, y, j, k \in Nat : y = k + x /\ j < y /\ x < j => j - x \in 1 .. k - 1 /\ j - x + x = j
OBVIOUS

(* A line that is served is newer than the ones before, and what follows   *)
(* its CR is newer still.                                                  *)
LEMMA ToldServed ==
  ASSUME NEW u \in Seq(Pieces), NEW v \in Seq(Pieces), NEW d \in Nat, NEW n \in Nat,
         Requests(u, d, n), NEW x \in 1 .. Len(u), u[x].t = "cr", Len(v) = Len(u) - x,
         \A k \in 1 .. Len(v) : v[k] = u[k + x],
         NEW e \in Nat, \A k \in 1 .. x - 1 : u[k].of.nr <= e,
         \E k \in 1 .. x - 1 : u[k].of.nr = e
  PROVE  d < e /\ e <= n /\ Requests(v, e, n)
<1>1. /\ Len(u) \in Nat /\ Len(v) \in Nat /\ \A k \in 1 .. Len(u) : u[k].of.nr \in Nat
      /\ \A k \in 1 .. Len(v) : k + x \in 1 .. Len(u) /\ v[k] = u[k + x]
      /\ \A k \in 1 .. x - 1 : k \in 1 .. Len(u)
  BY Numbers
<1>2. PICK a \in 1 .. x - 1 : u[a].of.nr # 0
  BY DEF Requests
<1>3. PICK b \in 1 .. x - 1 : u[b].of.nr = e
  OBVIOUS
<1>4. u[b].of.nr # 0
  BY <1>1, <1>2, <1>3
<1>5. d < e /\ e <= n
  BY <1>1, <1>3, <1>4 DEF Requests
<1>6. ASSUME NEW k \in 1 .. Len(v), v[k].of.nr # 0
      PROVE  e < v[k].of.nr /\ v[k].of.nr <= n /\ v[k].t \notin {"cr", "lf"}
  <2>1. b \in 1 .. Len(u) /\ k + x \in 1 .. Len(u) /\ b < x /\ x < k + x
    BY <1>1
  <2>2. u[b].of.nr < u[k + x].of.nr
    BY <1>1, <1>6, <2>1 DEF Requests
  <2> QED BY <1>1, <1>3, <1>6, <2>1, <2>2 DEF Requests
<1>7. ASSUME NEW j \in 1 .. Len(v), NEW k \in 1 .. Len(v), NEW l \in 1 .. Len(v),
             j < k, k < l, v[k].t = "cr", v[l].of.nr # 0
      PROVE  v[j].of.nr < v[l].of.nr
  <2>1. j + x < k + x /\ k + x < l + x
    BY <1>1, <1>7, Shifted
  <2> QED BY <1>1, <1>7, <2>1 DEF Requests
<1>8. ASSUME NEW k \in 1 .. Len(v), v[k].t = "cr"
      PROVE  \E j \in 1 .. k - 1 : v[j].of.nr # 0 /\ \A i \in j .. k - 1 : v[i].t # "cr"
  <2> DEFINE y == k + x
  <2>1. y \in 1 .. Len(u) /\ y = k + x /\ u[y].t = "cr"
    BY <1>1, <1>8
  <2> HIDE DEF y
  <2>2. PICK j \in 1 .. y - 1 : u[j].of.nr # 0 /\ \A i \in j .. y - 1 : u[i].t # "cr"
    BY <2>1 DEF Requests
  <2>3. /\ x \in Nat /\ k \in Nat /\ j \in Nat /\ y \in Nat /\ j < y /\ k <= Len(v)
        /\ Len(v) \in Nat
    <3>1. Len(u) \in Nat /\ Len(v) \in Nat
      BY <1>1
    <3>2. x \in Nat /\ k \in Nat /\ k <= Len(v)
      BY <3>1
    <3>3. y \in Nat
      BY <2>1, <3>1
    <3>4. j \in Nat /\ j < y
      BY <3>3
    <3> QED BY <3>1, <3>2, <3>3, <3>4
  <2>4. x < j
    <3> SUFFICES ASSUME ~(x < j) PROVE FALSE
      OBVIOUS
    <3>1. x \in j .. y - 1
      BY <2>1, <2>3
    <3> QED BY <2>2, <3>1
  <2>5. j - x \in 1 .. k - 1 /\ j - x + x = j
    BY <2>1, <2>3, <2>4, ShiftedBack
  <2>6. \A i \in j - x .. k - 1 : i \in 1 .. Len(v) /\ i + x \in j .. y - 1
    BY <2>1, <2>3, <2>4
  <2>7. \A i \in j - x .. k - 1 : v[i].t # "cr"
    BY <1>1, <2>2, <2>6
  <2>8. v[j - x].of.nr # 0
    <3>1. j - x \in 1 .. Len(v)
      BY <2>3, <2>5
    <3>2. v[j - x] = u[j]
      BY <1>1, <2>5, <3>1
    <3> QED BY <2>2, <3>2
  <2> QED BY <2>5, <2>7, <2>8
<1> QED BY <1>5, <1>6, <1>7, <1>8 DEF Requests

(* A request arrives with a number before its CR, also damaged.            *)
LEMMA WrittenShape ==
  ASSUME NEW m \in Messages, m.nr # 0, NEW cut \in BOOLEAN
  PROVE  \E l \in {4, 5} :
           /\ Len(Written(m, cut)) = l
           /\ Written(m, cut)[1] = Piece("cmd", m)
           /\ Written(m, cut)[l - 2] = Piece("sum", m)
           /\ Written(m, cut)[l - 1] = CR /\ Written(m, cut)[l] = LF
           /\ l = 5 => Written(m, cut)[2] \in {Piece("arg", m), Junk} /\ (cut \/ HasArg(m))
<1> DEFINE h == IF cut THEN <<Piece("cmd", m), Junk>> ELSE Body(m)
           q == <<Piece("sum", m), CR, LF>>
<1>1. m.nr \in Nat
  BY DEF Messages
<1> DEFINE S == PiecesTo(m.nr)
<1>2. /\ Piece("cmd", m) \in S /\ Piece("arg", m) \in S /\ Junk \in S
      /\ Piece("sum", m) \in S /\ CR \in S /\ LF \in S
  BY <1>1, PieceKinds
<1> HIDE DEF S
<1>3. \A x, y, z \in S :
        /\ <<x>> \in Seq(S) /\ <<x, y>> \in Seq(S) /\ <<x, y, z>> \in Seq(S)
        /\ Len(<<x>>) = 1 /\ Len(<<x, y>>) = 2 /\ Len(<<x, y, z>>) = 3
  OBVIOUS
<1>4. q \in Seq(S) /\ Len(q) = 3 /\ q[1] = Piece("sum", m) /\ q[2] = CR /\ q[3] = LF
  BY <1>2, <1>3
<1>5. /\ h \in Seq(S) /\ Len(h) \in {1, 2} /\ h[1] = Piece("cmd", m)
      /\ Len(h) = 2 => h[2] \in {Piece("arg", m), Junk} /\ (cut \/ HasArg(m))
  <2>1. CASE cut
    BY <1>2, <1>3, <2>1
  <2>2. CASE ~cut /\ HasArg(m)
    <3>1. h = <<Piece("cmd", m), Piece("arg", m)>>
      BY <2>2 DEF Body
    <3> HIDE DEF h
    <3>2. h \in Seq(S) /\ Len(h) = 2 /\ h[1] = Piece("cmd", m) /\ h[2] = Piece("arg", m)
      BY <1>2, <1>3, <3>1
    <3> QED BY <2>2, <3>2
  <2>3. CASE ~cut /\ ~HasArg(m)
    <3>1. h = <<Piece("cmd", m)>>
      BY <2>3 DEF Body
    <3> HIDE DEF h
    <3> QED BY <1>2, <1>3, <3>1
  <2> QED BY <2>1, <2>2, <2>3
<1>6. Written(m, cut) = h \o q
  BY DEF Written
<1> HIDE DEF h, q
<1> DEFINE w == h \o q
<1>7. /\ Len(w) = Len(h) + 3
      /\ \A i \in 1 .. Len(h) + 3 : w[i] = IF i <= Len(h) THEN h[i] ELSE q[i - Len(h)]
  <2>1. /\ Len(w) = Len(h) + Len(q)
        /\ \A i \in 1 .. Len(h) + Len(q) : w[i] = IF i <= Len(h) THEN h[i] ELSE q[i - Len(h)]
    <3>1. h \in Seq(S) /\ q \in Seq(S)
      BY <1>4, <1>5
    <3> QED BY <3>1, ConcatProperties
  <2> HIDE DEF w
  <2> QED BY <1>4, <2>1
<1> HIDE DEF w
<1>8. CASE Len(h) = 1
  BY <1>4, <1>5, <1>6, <1>7, <1>8 DEF w
<1>9. CASE Len(h) = 2
  BY <1>4, <1>5, <1>6, <1>7, <1>9 DEF w
<1> QED BY <1>5, <1>8, <1>9

(* One piece of a line fewer, or changed.                                  *)
LEMMA DamagedShape ==
  ASSUME NEW S, NEW s \in Seq(S), NEW d \in Damaged(s)
  PROVE  \E x \in 1 .. Len(s) :
           \/ /\ Len(d) = Len(s) - 1
              /\ \A i \in 1 .. Len(d) : d[i] = IF i < x THEN s[i] ELSE s[i + 1]
           \/ /\ Len(d) = Len(s)
              /\ \E g \in Garbles(s[x]) : \A i \in 1 .. Len(s) : d[i] = IF i = x THEN g ELSE s[i]
<1>1. Len(s) \in Nat /\ s \in [1 .. Len(s) -> S]
  BY LenProperties
<1>2. \/ \E x \in 1 .. Len(s) : d = SubSeq(s, 1, x - 1) \o SubSeq(s, x + 1, Len(s))
      \/ \E x \in 1 .. Len(s) : \E g \in Garbles(s[x]) : d = [s EXCEPT ![x] = g]
  BY DEF Damaged
<1>3. ASSUME NEW x \in 1 .. Len(s), d = SubSeq(s, 1, x - 1) \o SubSeq(s, x + 1, Len(s))
      PROVE  /\ Len(d) = Len(s) - 1
             /\ \A i \in 1 .. Len(d) : d[i] = IF i < x THEN s[i] ELSE s[i + 1]
  <2> DEFINE a == SubSeq(s, 1, x - 1)
             b == SubSeq(s, x + 1, Len(s))
  <2>1. /\ \A i \in 1 .. x - 1 : s[i] \in S
        /\ \A i \in x + 1 .. Len(s) : s[i] \in S
    BY <1>1
  <2>2. a \in Seq(S) /\ Len(a) = x - 1 /\ \A i \in 1 .. x - 1 : a[i] = s[i]
    <3>1. /\ a \in Seq(S) /\ Len(a) = IF 1 <= x - 1 THEN x - 1 - 1 + 1 ELSE 0
          /\ \A i \in 1 .. x - 1 - 1 + 1 : a[i] = s[1 + i - 1]
      BY <1>1, <2>1, SubSeqProperties
    <3> HIDE DEF a
    <3> QED BY <1>1, <3>1
  <2>3. b \in Seq(S) /\ Len(b) = Len(s) - x /\ \A i \in 1 .. Len(s) - x : b[i] = s[x + i]
    <3>1. /\ b \in Seq(S) /\ Len(b) = IF x + 1 <= Len(s) THEN Len(s) - (x + 1) + 1 ELSE 0
          /\ \A i \in 1 .. Len(s) - (x + 1) + 1 : b[i] = s[x + 1 + i - 1]
      BY <1>1, <2>1, SubSeqProperties
    <3> HIDE DEF b
    <3>2. Len(b) = Len(s) - x
      <4>1. Len(b) = IF x + 1 <= Len(s) THEN Len(s) - (x + 1) + 1 ELSE 0
        BY <3>1
      <4>2. Len(s) \in Nat
        BY <1>1
      <4> QED BY <4>1, <4>2
    <3>3. ASSUME NEW i \in 1 .. Len(s) - x PROVE b[i] = s[x + i]
      <4>1. x + 1 + i - 1 = x + i /\ i \in 1 .. Len(s) - (x + 1) + 1
        BY <1>1
      <4> QED BY <3>1, <4>1
    <3> QED BY <3>1, <3>2, <3>3
  <2> HIDE DEF a, b
  <2>4. /\ Len(d) = Len(a) + Len(b)
        /\ \A i \in 1 .. Len(a) + Len(b) : d[i] = IF i <= Len(a) THEN a[i] ELSE b[i - Len(a)]
    BY <1>3, <2>2, <2>3, ConcatProperties DEF a, b
  <2>5. Len(d) = Len(s) - 1
    BY <1>1, <2>2, <2>3, <2>4
  <2>6. ASSUME NEW i \in 1 .. Len(d) PROVE d[i] = IF i < x THEN s[i] ELSE s[i + 1]
    <3>1. CASE i < x
      BY <1>1, <2>2, <2>3, <2>4, <2>5, <3>1
    <3>2. CASE ~(i < x)
      <4>1. i - (x - 1) \in 1 .. Len(s) - x /\ x + (i - (x - 1)) = i + 1
        BY <1>1, <2>5, <3>2
      <4>2. d[i] = b[i - (x - 1)]
        BY <1>1, <2>2, <2>3, <2>4, <2>5, <3>2
      <4> QED BY <2>3, <3>2, <4>1, <4>2
    <3> QED BY <3>1, <3>2
  <2> QED BY <2>5, <2>6
<1>4. ASSUME NEW x \in 1 .. Len(s), NEW g \in Garbles(s[x]), d = [s EXCEPT ![x] = g]
      PROVE  /\ Len(d) = Len(s)
             /\ \A i \in 1 .. Len(s) : d[i] = IF i = x THEN g ELSE s[i]
  <2> DEFINE B == S \cup {g}
  <2>1. s \in Seq(B) /\ g \in B
    BY SeqMonotonic
  <2> HIDE DEF B
  <2> QED BY <1>4, <2>1, ExceptSeq
<1>5. ASSUME NEW x \in 1 .. Len(s), d = SubSeq(s, 1, x - 1) \o SubSeq(s, x + 1, Len(s))
      PROVE  \E z \in 1 .. Len(s) : /\ Len(d) = Len(s) - 1
                                     /\ \A i \in 1 .. Len(d) : d[i] = IF i < z THEN s[i] ELSE s[i + 1]
  BY <1>3, <1>5, Zenon
<1>6. ASSUME NEW x \in 1 .. Len(s), NEW g \in Garbles(s[x]), d = [s EXCEPT ![x] = g]
      PROVE  \E z \in 1 .. Len(s) :
                /\ Len(d) = Len(s)
                /\ \E h \in Garbles(s[z]) : \A i \in 1 .. Len(s) : d[i] = IF i = z THEN h ELSE s[i]
  BY <1>4, <1>6, Zenon
<1> QED BY <1>2, <1>5, <1>6, Zenon

LEMMA ToldWritten ==
  ASSUME NEW m \in Messages, m.nr # 0,
         NEW w \in Seq(Pieces), w \in Damaged(Written(m, FALSE)) \cup {Written(m, FALSE)}
  PROVE  Told(w, m.nr)
<1> DEFINE s == Written(m, FALSE)
<1>1. PICK l \in {4, 5} :
           /\ Len(s) = l
           /\ s[1] = Piece("cmd", m) /\ s[l - 2] = Piece("sum", m)
           /\ s[l - 1] = CR /\ s[l] = LF
           /\ l = 5 => s[2] \in {Piece("arg", m), Junk}
  BY WrittenShape
<1>2. m.nr \in Nat /\ s \in Seq(Pieces)
  <2>1. m.nr \in Nat
    BY DEF Messages
  <2>2. s \in Seq(PiecesTo(m.nr))
    <3>1. m.nr <= m.nr /\ FALSE \in BOOLEAN
      BY <2>1
    <3> QED BY <2>1, <3>1, WrittenIn DEF s
  <2> QED BY <2>1, <2>2, AllPieces
<1> HIDE DEF s
<1>3. /\ s[1].of.nr = m.nr /\ s[1].t \notin {"cr", "lf"}
      /\ s[l - 2].of.nr = m.nr /\ s[l - 2].t \notin {"cr", "lf"}
      /\ s[l - 1].of.nr = 0 /\ s[l - 1].t = "cr" /\ s[l].of.nr = 0 /\ s[l].t = "lf"
      /\ l = 5 => s[2].of.nr \in {0, m.nr} /\ s[2].t \notin {"cr", "lf"}
  BY <1>1 DEF Piece, CR, LF, Junk, NoMsg
<1>4. \A k \in 1 .. l : /\ k # l - 1 => s[k].t # "cr"
                        /\ k < l - 1 => s[k].of.nr \in {0, m.nr} /\ s[k].t \notin {"cr", "lf"}
                        /\ ~(k < l - 1) => s[k].of.nr = 0
  <2>1. CASE l = 4
    <3>1. \A k \in 1 .. 4 : k \in {1, 2, 3, 4}
      OBVIOUS
    <3> QED BY <1>3, <2>1, <3>1
  <2>2. CASE l = 5
    <3>1. \A k \in 1 .. 5 : k \in {1, 2, 3, 4, 5}
      OBVIOUS
    <3> QED BY <1>3, <2>2, <3>1
  <2> QED BY <2>1, <2>2
<1>5. l - 2 \in 1 .. l /\ 1 \in 1 .. l /\ 1 < l - 2 /\ l - 1 \in 1 .. l
  OBVIOUS
<1>6. CASE w = s
  <2>1. Len(w) = l
    BY <1>1, <1>6
  <2>2. ASSUME NEW k \in 1 .. Len(w), w[k].t = "cr"
        PROVE  \E j \in 1 .. k - 1 : w[j].of.nr # 0 /\ \A i \in j .. k - 1 : w[i].t # "cr"
    <3>1. k = l - 1
      BY <1>4, <1>6, <2>1, <2>2
    <3>2. l - 2 \in 1 .. k - 1 /\ \A i \in l - 2 .. k - 1 : i = l - 2
      BY <3>1
    <3> QED BY <1>3, <1>6, <3>2
  <2>3. \A k \in 1 .. Len(w) : w[k].of.nr # 0 => w[k].of.nr = m.nr /\ w[k].t \notin {"cr", "lf"}
    BY <1>4, <1>6, <2>1
  <2>4. \A j, k \in 1 .. Len(w) : j < k /\ w[j].t = "cr" => w[k].of.nr = 0
    BY <1>4, <1>6, <2>1
  <2> QED BY <2>2, <2>3, <2>4 DEF Told
<1>7. CASE w \in Damaged(s)
  <2>1. PICK x \in 1 .. l :
           \/ /\ Len(w) = l - 1
              /\ \A i \in 1 .. Len(w) : w[i] = IF i < x THEN s[i] ELSE s[i + 1]
           \/ /\ Len(w) = l
              /\ \E g \in Garbles(s[x]) : \A i \in 1 .. l : w[i] = IF i = x THEN g ELSE s[i]
    BY <1>1, <1>2, <1>7, DamagedShape
  <2>2. CASE Len(w) = l - 1 /\ \A i \in 1 .. Len(w) : w[i] = IF i < x THEN s[i] ELSE s[i + 1]
    <3> DEFINE F(i) == IF i < x THEN i ELSE i + 1
    <3>1. \A i \in 1 .. Len(w) : F(i) \in 1 .. l /\ w[i] = s[F(i)]
      BY <2>2
    <3>2. \A i, j \in 1 .. Len(w) : i < j => F(i) < F(j)
      BY <2>2
    <3>3. \E j \in {1, l - 2} : j # x
      BY <1>5
    <3>4. ASSUME NEW k \in 1 .. Len(w), w[k].t = "cr"
          PROVE  \E j \in 1 .. k - 1 : w[j].of.nr # 0 /\ \A i \in j .. k - 1 : w[i].t # "cr"
      <4>1. F(k) = l - 1
        BY <1>4, <3>1, <3>4
      <4>2. PICK b \in {1, l - 2} : b # x
        BY <3>3
      <4> DEFINE j == IF b < x THEN b ELSE b - 1
      <4>3. F(j) = b /\ j \in 1 .. k - 1 /\ j \in 1 .. Len(w)
        BY <2>2, <4>1, <4>2
      <4>4. \A i \in j .. k - 1 : i \in 1 .. Len(w) /\ i < k
        BY <2>2, <4>3
      <4> HIDE DEF j, F
      <4>5. w[j].of.nr # 0
        BY <1>2, <1>3, <3>1, <4>2, <4>3
      <4>6. \A i \in j .. k - 1 : F(i) \in 1 .. l /\ F(i) < l - 1 /\ w[i] = s[F(i)]
        BY <3>1, <3>2, <4>1, <4>4
      <4>7. \A i \in j .. k - 1 : w[i].t # "cr"
        BY <1>4, <4>6
      <4> QED BY <4>3, <4>5, <4>7
    <3> HIDE DEF F
    <3>5. \A k \in 1 .. Len(w) : w[k].of.nr # 0 => w[k].of.nr = m.nr /\ w[k].t \notin {"cr", "lf"}
      BY <1>4, <3>1
    <3>6. ASSUME NEW j \in 1 .. Len(w), NEW k \in 1 .. Len(w), j < k, w[j].t = "cr"
          PROVE  w[k].of.nr = 0
      <4>1. F(j) = l - 1 /\ F(j) < F(k)
        BY <1>4, <3>1, <3>2, <3>6
      <4> QED BY <1>4, <3>1, <4>1
    <3> QED BY <3>4, <3>5, <3>6 DEF Told
  <2>3. ASSUME Len(w) = l, NEW g \in Garbles(s[x]), \A i \in 1 .. l : w[i] = IF i = x THEN g ELSE s[i]
        PROVE  Told(w, m.nr)
    <3>1. \/ g.of.nr = s[x].of.nr /\ g.t = "arg" /\ s[x].t = "arg"
          \/ g.of.nr = 0 /\ g.t \in {"sum", "junk"}
      <4> DEFINE y == s[x]
      <4>1. y \in Pieces /\ g \in Garbles(y)
        BY <1>1, <1>2, <2>3, Numbers
      <4> HIDE DEF y
      <4>2. CASE y.t = "arg"
        <5>1. PICK v : g = [y EXCEPT !.of.arg = v]
          BY <4>1, <4>2 DEF Garbles
        <5> QED BY <4>1, <4>2, <5>1 DEF Pieces, Messages, y
      <4>3. CASE y.t # "arg"
        <5>1. g \in {Piece("sum", NoMsg), Junk}
          BY <4>1, <4>3 DEF Garbles
        <5> QED BY <5>1 DEF Piece, Junk, NoMsg
      <4> QED BY <4>2, <4>3
    <3>2. \A k \in 1 .. l : /\ k # l - 1 => w[k].t # "cr"
                            /\ k < l - 1 => w[k].of.nr \in {0, m.nr} /\ w[k].t \notin {"cr", "lf"}
                            /\ ~(k < l - 1) => w[k].of.nr = 0
      BY <1>4, <2>3, <3>1
    <3>3. ASSUME NEW k \in 1 .. Len(w), w[k].t = "cr"
          PROVE  \E j \in 1 .. k - 1 : w[j].of.nr # 0 /\ \A i \in j .. k - 1 : w[i].t # "cr"
      <4>1. k = l - 1
        BY <2>3, <3>2, <3>3
      <4>2. PICK b \in {1, l - 2} : b # x
        BY <1>5
      <4>3. b \in 1 .. k - 1 /\ w[b].of.nr # 0
        BY <1>2, <1>3, <2>3, <4>1, <4>2
      <4>4. \A i \in b .. k - 1 : i \in 1 .. l /\ i # l - 1
        BY <4>1, <4>3
      <4> QED BY <3>2, <4>3, <4>4
    <3>4. \A k \in 1 .. Len(w) : w[k].of.nr # 0 => w[k].of.nr = m.nr /\ w[k].t \notin {"cr", "lf"}
      BY <2>3, <3>2
    <3>5. ASSUME NEW j \in 1 .. Len(w), NEW k \in 1 .. Len(w), j < k, w[j].t = "cr"
          PROVE  w[k].of.nr = 0
      <4>1. j = l - 1
        BY <2>3, <3>2, <3>5
      <4> QED BY <2>3, <3>2, <3>5, <4>1
    <3> QED BY <3>3, <3>4, <3>5 DEF Told
  <2> QED BY <2>1, <2>2, <2>3
<1> QED BY <1>6, <1>7 DEF s

-----------------------------------------------------------------------------
(* Answers on their way, between the last number passed on and the last    *)
(* number answered.  Only a checksum with a number counts; a command       *)
(* always has one, so that a damaged checksum fits nothing.                *)
Marks(s) == {k \in 1 .. Len(s) : s[k].t = "sum" /\ s[k].of.nr # 0}

Commanded(s) == \A k \in 1 .. Len(s) : s[k].t = "cmd" => s[k].of.nr # 0

Rising(s, lo, hi) ==
  /\ Commanded(s)
  /\ \A k \in Marks(s) : lo < s[k].of.nr /\ s[k].of.nr <= hi
  /\ \A j, k \in Marks(s) : j < k => s[j].of.nr < s[k].of.nr

Before(s, u) == \A j \in Marks(s), k \in Marks(u) : s[j].of.nr < u[k].of.nr

(* Line d is what is left of line s.                                       *)
Left(d, s) ==
  /\ Commanded(s) => Commanded(d)
  /\ \E f : /\ \A k \in Marks(d) : f[k] \in Marks(s) /\ s[f[k]].of.nr = d[k].of.nr
            /\ \A j, k \in Marks(d) : j < k => f[j] < f[k]

LEMMA LeftRising ==
  ASSUME NEW s, NEW d, Left(d, s), NEW lo, NEW hi, Rising(s, lo, hi)
  PROVE  Rising(d, lo, hi)
<1>1. PICK f : /\ \A k \in Marks(d) : f[k] \in Marks(s) /\ s[f[k]].of.nr = d[k].of.nr
               /\ \A j, k \in Marks(d) : j < k => f[j] < f[k]
  BY DEF Left
<1>2. \A k \in Marks(d) : lo < d[k].of.nr /\ d[k].of.nr <= hi
  BY <1>1 DEF Rising
<1>3. ASSUME NEW j \in Marks(d), NEW k \in Marks(d), j < k
      PROVE  d[j].of.nr < d[k].of.nr
  BY <1>1, <1>3 DEF Rising
<1> QED BY <1>2, <1>3 DEF Rising, Left

LEMMA LeftBefore ==
  ASSUME NEW s, NEW d, NEW u, Left(d, s)
  PROVE  /\ Before(s, u) => Before(d, u)
         /\ Before(u, s) => Before(u, d)
<1>1. PICK f : \A k \in Marks(d) : f[k] \in Marks(s) /\ s[f[k]].of.nr = d[k].of.nr
  BY DEF Left
<1> QED BY <1>1 DEF Before

LEMMA NothingLeft ==
  ASSUME NEW s
  PROVE  Left(<< >>, s) /\ Marks(<< >>) = {}
<1>1. Len(<< >>) = 0
  BY EmptySeq
<1> QED BY <1>1 DEF Left, Commanded, Marks

(* A part of a line.                                                       *)
LEMMA PartLeft ==
  ASSUME NEW s \in Seq(Pieces), NEW d \in Seq(Pieces), NEW x \in Nat,
         \A k \in 1 .. Len(d) : k + x \in 1 .. Len(s) /\ d[k] = s[k + x]
  PROVE  Left(d, s)
<1> DEFINE f == [k \in 1 .. Len(d) |-> k + x]
<1>1. \A k \in Marks(d) : k \in 1 .. Len(d) /\ k \in Nat /\ f[k] = k + x
  BY Numbers DEF Marks
<1> HIDE DEF f
<1>2. \A k \in Marks(d) : f[k] \in Marks(s) /\ s[f[k]].of.nr = d[k].of.nr
  BY <1>1 DEF Marks
<1>3. \A j, k \in Marks(d) : j < k => f[j] < f[k]
  BY <1>1
<1>4. Commanded(s) => Commanded(d)
  BY DEF Commanded
<1> QED BY <1>2, <1>3, <1>4 DEF Left

(* A line whose pieces are as they were, or cannot be taken for any.       *)
LEMMA SpoiltLeft ==
  ASSUME NEW s \in Seq(Pieces), NEW d \in Seq(Pieces), Len(d) = Len(s),
         \A k \in 1 .. Len(s) : \/ d[k] = s[k]
                                \/ d[k].t # "cmd" /\ (d[k].t = "sum" => d[k].of.nr = 0)
  PROVE  Left(d, s)
<1> DEFINE f == [k \in 1 .. Len(d) |-> k]
<1>1. \A k \in Marks(d) : f[k] = k /\ k \in Marks(s) /\ d[k] = s[k]
  BY DEF Marks
<1> HIDE DEF f
<1>2. Commanded(s) => Commanded(d)
  BY DEF Commanded
<1> QED BY <1>1, <1>2 DEF Left

LEMMA DamagedLeft ==
  ASSUME NEW s \in Seq(Pieces), NEW d \in Seq(Pieces), d \in Damaged(s)
  PROVE  Left(d, s)
<1>1. Len(s) \in Nat /\ \A k \in 1 .. Len(s) : s[k] \in Pieces
  BY Numbers
<1>2. PICK x \in 1 .. Len(s) :
           \/ /\ Len(d) = Len(s) - 1
              /\ \A i \in 1 .. Len(d) : d[i] = IF i < x THEN s[i] ELSE s[i + 1]
           \/ /\ Len(d) = Len(s)
              /\ \E g \in Garbles(s[x]) : \A i \in 1 .. Len(s) : d[i] = IF i = x THEN g ELSE s[i]
  BY DamagedShape
<1>3. CASE Len(d) = Len(s) - 1 /\ \A i \in 1 .. Len(d) : d[i] = IF i < x THEN s[i] ELSE s[i + 1]
  <2> DEFINE f == [k \in 1 .. Len(d) |-> IF k < x THEN k ELSE k + 1]
  <2>1. \A k \in 1 .. Len(d) : f[k] \in 1 .. Len(s) /\ d[k] = s[f[k]]
    BY <1>1, <1>3
  <2>2. \A j, k \in 1 .. Len(d) : j < k => f[j] < f[k]
    BY <1>1, <1>3
  <2> HIDE DEF f
  <2>3. Commanded(s) => Commanded(d)
    BY <2>1 DEF Commanded
  <2>4. /\ \A k \in Marks(d) : f[k] \in Marks(s) /\ s[f[k]].of.nr = d[k].of.nr
        /\ \A j, k \in Marks(d) : j < k => f[j] < f[k]
    BY <2>1, <2>2 DEF Marks
  <2> QED BY <2>3, <2>4 DEF Left
<1>4. ASSUME Len(d) = Len(s), NEW g \in Garbles(s[x]),
             \A i \in 1 .. Len(s) : d[i] = IF i = x THEN g ELSE s[i]
      PROVE  Left(d, s)
  <2>1. g.t # "cmd" /\ (g.t = "sum" => g.of.nr = 0)
    <3> DEFINE y == s[x]
    <3>1. y \in Pieces /\ g \in Garbles(y)
      BY <1>1
    <3> HIDE DEF y
    <3>2. CASE y.t = "arg"
      <4>1. PICK v : g = [y EXCEPT !.of.arg = v]
        BY <3>1, <3>2 DEF Garbles
      <4> QED BY <3>1, <3>2, <4>1 DEF Pieces, Messages
    <3>3. CASE y.t # "arg"
      <4>1. g \in {Piece("sum", NoMsg), Junk}
        BY <3>1, <3>3 DEF Garbles
      <4> QED BY <4>1 DEF Piece, Junk, NoMsg
    <3> QED BY <3>2, <3>3
  <2> QED BY <1>4, <2>1, SpoiltLeft
<1> QED BY <1>2, <1>3, <1>4

(* Two lines one behind the other.                                         *)
LEMMA MarksJoined ==
  ASSUME NEW s \in Seq(Pieces), NEW u \in Seq(Pieces), NEW k \in Marks(s \o u)
  PROVE  /\ k \in Nat
         /\ \/ k \in Marks(s) /\ (s \o u)[k] = s[k] /\ k <= Len(s)
            \/ k - Len(s) \in Marks(u) /\ (s \o u)[k] = u[k - Len(s)] /\ Len(s) < k
<1>1. Len(s) \in Nat /\ Len(u) \in Nat
  BY Numbers
<1>2. /\ Len(s \o u) = Len(s) + Len(u)
      /\ \A i \in 1 .. Len(s) + Len(u) : (s \o u)[i] = IF i <= Len(s) THEN s[i] ELSE u[i - Len(s)]
  BY ConcatProperties
<1>3. k \in 1 .. Len(s) + Len(u) /\ (s \o u)[k].t = "sum" /\ (s \o u)[k].of.nr # 0
  BY <1>2 DEF Marks
<1>4. CASE k <= Len(s)
  <2>1. (s \o u)[k] = s[k] /\ k \in 1 .. Len(s)
    BY <1>1, <1>2, <1>3, <1>4
  <2> QED BY <1>3, <1>4, <2>1 DEF Marks
<1>5. CASE ~(k <= Len(s))
  <2>1. (s \o u)[k] = u[k - Len(s)] /\ k - Len(s) \in 1 .. Len(u) /\ Len(s) < k /\ k \in Nat
    BY <1>1, <1>2, <1>3, <1>5
  <2> QED BY <1>3, <1>5, <2>1 DEF Marks
<1> QED BY <1>4, <1>5

LEMMA BeforeJoined ==
  ASSUME NEW s \in Seq(Pieces), NEW u \in Seq(Pieces), NEW v
  PROVE  /\ Before(s, v) /\ Before(u, v) => Before(s \o u, v)
         /\ Before(v, s) /\ Before(v, u) => Before(v, s \o u)
BY MarksJoined DEF Before

LEMMA RisingJoined ==
  ASSUME NEW s \in Seq(Pieces), NEW u \in Seq(Pieces), NEW lo, NEW hi,
         Rising(s, lo, hi), Rising(u, lo, hi), Before(s, u)
  PROVE  Rising(s \o u, lo, hi)
<1> DEFINE w == s \o u
<1>1. /\ Len(s) \in Nat /\ Len(u) \in Nat /\ Len(w) = Len(s) + Len(u)
      /\ \A i \in 1 .. Len(s) + Len(u) : w[i] = IF i <= Len(s) THEN s[i] ELSE u[i - Len(s)]
  BY Numbers, ConcatProperties
<1>2. \A k \in Marks(w) :
        /\ k \in Nat
        /\ \/ k \in Marks(s) /\ w[k] = s[k] /\ k <= Len(s)
           \/ k - Len(s) \in Marks(u) /\ w[k] = u[k - Len(s)] /\ Len(s) < k
  BY MarksJoined
<1> HIDE DEF w
<1>3. Commanded(w)
  <2> SUFFICES ASSUME NEW k \in 1 .. Len(s) + Len(u), w[k].t = "cmd" PROVE w[k].of.nr # 0
    BY <1>1 DEF Commanded
  <2>1. CASE k <= Len(s)
    <3>1. k \in 1 .. Len(s) /\ w[k] = s[k]
      BY <1>1, <2>1
    <3> QED BY <3>1 DEF Rising, Commanded
  <2>2. CASE ~(k <= Len(s))
    <3>1. k - Len(s) \in 1 .. Len(u) /\ w[k] = u[k - Len(s)]
      BY <1>1, <2>2
    <3> QED BY <3>1 DEF Rising, Commanded
  <2> QED BY <2>1, <2>2
<1>4. \A k \in Marks(w) : lo < w[k].of.nr /\ w[k].of.nr <= hi
  BY <1>2 DEF Rising
<1>5. ASSUME NEW j \in Marks(w), NEW k \in Marks(w), j < k
      PROVE  w[j].of.nr < w[k].of.nr
  <2>1. CASE k <= Len(s)
    <3>1. j <= Len(s) /\ ~(Len(s) < j) /\ ~(Len(s) < k)
      BY <1>1, <1>2, <1>5, <2>1
    <3> QED BY <1>2, <1>5, <3>1 DEF Rising
  <2>2. CASE ~(k <= Len(s))
    <3>1. k - Len(s) \in Marks(u) /\ w[k] = u[k - Len(s)]
      BY <1>2, <2>2
    <3>2. CASE j <= Len(s)
      <4>1. j \in Marks(s) /\ w[j] = s[j]
        BY <1>1, <1>2, <3>2
      <4> QED BY <3>1, <4>1 DEF Before
    <3>3. CASE ~(j <= Len(s))
      <4>1. j - Len(s) \in Marks(u) /\ w[j] = u[j - Len(s)]
        BY <1>2, <3>3
      <4>2. j - Len(s) < k - Len(s)
        BY <1>1, <1>2, <1>5
      <4> QED BY <3>1, <4>1, <4>2 DEF Rising
    <3> QED BY <3>2, <3>3
  <2> QED BY <2>1, <2>2
<1> QED BY <1>3, <1>4, <1>5 DEF Rising, w

(* The two parts of a line.                                                *)
LEMMA PartsBefore ==
  ASSUME NEW s \in Seq(Pieces), NEW lo, NEW hi, Rising(s, lo, hi),
         NEW a \in Seq(Pieces), NEW b \in Seq(Pieces), NEW x \in Nat,
         Len(a) <= x, \A k \in 1 .. Len(a) : k \in 1 .. Len(s) /\ a[k] = s[k],
         \A k \in 1 .. Len(b) : k + x \in 1 .. Len(s) /\ b[k] = s[k + x]
  PROVE  Before(a, b)
<1> SUFFICES ASSUME NEW j \in Marks(a), NEW k \in Marks(b)
             PROVE  a[j].of.nr < b[k].of.nr
  BY DEF Before
<1>1. j \in 1 .. Len(a) /\ k \in 1 .. Len(b) /\ Len(a) \in Nat /\ Len(b) \in Nat
  BY Numbers DEF Marks
<1>2. j \in Marks(s) /\ k + x \in Marks(s) /\ a[j] = s[j] /\ b[k] = s[k + x]
  BY <1>1 DEF Marks
<1>3. j < k + x
  BY <1>1
<1> QED BY <1>2, <1>3 DEF Rising

(* A new answer comes after all others.                                    *)
LEMMA WrittenRising ==
  ASSUME NEW m \in Messages, NEW cut \in BOOLEAN, NEW h \in Nat, NEW c \in Nat, h <= c, c < m.nr
  PROVE  /\ Written(m, cut) \in Seq(Pieces) /\ Rising(Written(m, cut), h, m.nr)
         /\ \A s \in Seq(Pieces) : Rising(s, h, c) => Before(s, Written(m, cut))
<1> DEFINE w == Written(m, cut)
<1>1. m.nr \in Nat /\ m.nr # 0 /\ h < m.nr
  BY DEF Messages
<1>2. w \in Seq(Pieces)
  <2>1. m.nr <= m.nr
    BY <1>1
  <2> QED BY <1>1, <2>1, WrittenIn, AllPieces
<1>3. PICK l \in {4, 5} :
           /\ Len(w) = l
           /\ w[1] = Piece("cmd", m) /\ w[l - 2] = Piece("sum", m)
           /\ w[l - 1] = CR /\ w[l] = LF
           /\ l = 5 => w[2] \in {Piece("arg", m), Junk}
  BY <1>1, WrittenShape
<1> HIDE DEF w
<1>4. \A k \in 1 .. l : /\ w[k].t = "cmd" => w[k].of.nr = m.nr
                        /\ w[k].t = "sum" => k = l - 2 /\ w[k].of.nr = m.nr
  <2>1. /\ w[1].t = "cmd" /\ w[1].of.nr = m.nr
        /\ w[l - 2].t = "sum" /\ w[l - 2].of.nr = m.nr
        /\ w[l - 1].t = "cr" /\ w[l].t = "lf"
        /\ l = 5 => w[2].t \in {"arg", "junk"}
    BY <1>3 DEF Piece, CR, LF, Junk
  <2>2. CASE l = 4
    <3>1. \A k \in 1 .. 4 : k \in {1, 2, 3, 4}
      OBVIOUS
    <3> QED BY <2>1, <2>2, <3>1
  <2>3. CASE l = 5
    <3>1. \A k \in 1 .. 5 : k \in {1, 2, 3, 4, 5}
      OBVIOUS
    <3> QED BY <2>1, <2>3, <3>1
  <2> QED BY <2>2, <2>3
<1>5. \A k \in Marks(w) : k = l - 2 /\ w[k].of.nr = m.nr
  BY <1>3, <1>4 DEF Marks
<1>6. Rising(w, h, m.nr)
  <2>1. Commanded(w)
    BY <1>1, <1>3, <1>4 DEF Commanded
  <2>2. \A k \in Marks(w) : h < w[k].of.nr /\ w[k].of.nr <= m.nr
    BY <1>1, <1>5
  <2>3. \A j, k \in Marks(w) : ~(j < k)
    BY <1>5
  <2> QED BY <2>1, <2>2, <2>3 DEF Rising
<1>7. ASSUME NEW s \in Seq(Pieces), Rising(s, h, c) PROVE Before(s, w)
  <2> SUFFICES ASSUME NEW j \in Marks(s), NEW k \in Marks(w) PROVE s[j].of.nr < w[k].of.nr
    BY DEF Before
  <2>1. h < s[j].of.nr /\ s[j].of.nr <= c /\ w[k].of.nr = m.nr
    BY <1>5, <1>7 DEF Rising
  <2>2. s[j].of.nr \in Nat
    BY Numbers DEF Marks
  <2> QED BY <1>1, <2>1, <2>2
<1> QED BY <1>2, <1>6, <1>7 DEF w

(* What passes the checksum carries a number.                              *)
LEMMA ContentMarked ==
  ASSUME NEW s \in Seq(Pieces), Commanded(s), ChecksumOk(s)
  PROVE  \E k \in Marks(s) : Content(s) = s[k].of
<1>1. PICK k \in Sums(s) : Fits(s, k) /\ \A j \in Sums(s) : k <= j
  BY DEF ChecksumOk
<1>2. Len(s) \in Nat /\ k \in 1 .. Len(s) /\ s[k].t = "sum" /\ \A j \in 1 .. Len(s) : s[j] \in Pieces
  BY Numbers DEF Sums
<1>3. Content(s) = s[k].of
  <2> DEFINE first == CHOOSE c \in Sums(s) : \A j \in Sums(s) : c <= j
  <2>1. first \in Sums(s) /\ \A j \in Sums(s) : first <= j
    BY <1>1
  <2>2. first \in 1 .. Len(s) /\ first <= k /\ k <= first
    BY <1>1, <2>1 DEF Sums
  <2> HIDE DEF first
  <2>3. first = k
    BY <1>2, <2>2
  <2> QED BY <2>3 DEF Content, first
<1>4. s[1] = Piece("cmd", s[k].of) /\ 1 \in 1 .. Len(s)
  <2> DEFINE b == SubSeq(s, 1, k - 1)
             m == s[k].of
  <2>1. b = Body(m)
    BY <1>1 DEF Fits
  <2>2. /\ Len(b) = (IF 1 <= k - 1 THEN k - 1 - 1 + 1 ELSE 0)
        /\ \A i \in 1 .. k - 1 - 1 + 1 : b[i] = s[1 + i - 1]
    <3>1. \A i \in 1 .. k - 1 : s[i] \in Pieces
      BY <1>2
    <3>2. 1 \in Int /\ k - 1 \in Int
      BY <1>2
    <3> QED BY <3>1, <3>2, SubSeqProperties
  <2> HIDE DEF b, m
  <2>3. Len(Body(m)) # 0 /\ Body(m)[1] = Piece("cmd", m)
    BY DEF Body
  <2>4. 1 <= k - 1
    BY <1>2, <2>1, <2>2, <2>3
  <2>5. b[1] = s[1]
    BY <1>2, <2>2, <2>4
  <2> QED BY <1>2, <2>1, <2>3, <2>5 DEF m
<1>5. s[k].of.nr # 0
  BY <1>4 DEF Commanded, Piece
<1> QED BY <1>2, <1>3, <1>5 DEF Marks

-----------------------------------------------------------------------------
(* Answers of plug p's board: h is the number passed on last, c the last   *)
(* one answered, T what the board has still to write.  While the bridge    *)
(* listens to p (a = p), D and R are what it holds of its answers.         *)
Answers(h, a, p, D, R, T, c) ==
  /\ h <= c /\ Rising(T, h, c)
  /\ a = p => /\ Rising(D, h, c) /\ Rising(R, h, c)
              /\ Before(D, R) /\ Before(D, T) /\ Before(R, T)

(* And its requests: up to d they are answered or kept for the sensor (j), *)
(* above d they are told (g read, r not) and not served.                   *)
Orderly(h, a, p, D, R, T, j, g, r, n) ==
  \E c, d \in Nat :
    /\ c <= d /\ d <= n
    /\ Answers(h, a, p, D, R, T, c)
    /\ j # NoMsg => T = << >> /\ c < j.nr /\ j.nr <= d
    /\ Requests(g \o r, d, n)

OrderlyAt(p) ==
  Orderly(heard[p].nr, active, p, deviceMessage, ring, tx[p], job[p], message[p], rx[p], asked[p])

OrderInv == (\A p \in Plugs : OrderlyAt(p)) /\ stale = FALSE

(* The types a step at plug p relies on.                                   *)
LEMMA TypesAt ==
  ASSUME TypeInv, NEW p \in Plugs
  PROVE  /\ deviceMessage \in Seq(Pieces) /\ ring \in Seq(Pieces) /\ tx[p] \in Seq(Pieces)
         /\ message[p] \in Seq(Pieces) /\ rx[p] \in Seq(Pieces)
         /\ message[p] \o rx[p] \in Seq(Pieces)
         /\ heard[p].nr \in Nat /\ asked[p] \in Nat /\ job[p] \in Messages /\ job[p].nr \in Nat
<1>1. message[p] \in Seq(Pieces) /\ rx[p] \in Seq(Pieces)
  BY DEF TypeInv, ToldTypes
<1>2. heard[p] \in Messages /\ job[p] \in Messages
  BY DEF TypeInv, HeardTypes, BoardTypes
<1>3. heard[p].nr \in Nat /\ job[p].nr \in Nat
  BY <1>2 DEF Messages
<1> QED BY <1>1, <1>2, <1>3, ConcatProperties DEF TypeInv, RingTypes, SaidTypes, ToldTypes

LEMMA OrderInvInit == Init => OrderInv
<1> SUFFICES ASSUME Init PROVE OrderInv
  OBVIOUS
<1>1. stale = FALSE
  BY DEF Init
<1>2. ASSUME NEW p \in Plugs PROVE OrderlyAt(p)
  <2>1. /\ heard[p].nr = 0 /\ deviceMessage = << >> /\ ring = << >> /\ tx[p] = << >>
        /\ job[p] = NoMsg /\ message[p] = << >> /\ rx[p] = << >> /\ asked[p] = 0
    BY DEF Init, NoMsg
  <2>2. Len(<< >>) = 0 /\ << >> \o << >> = << >>
    BY EmptySeq, ConcatEmptySeq
  <2>3. Answers(0, active, p, << >>, << >>, << >>, 0)
    BY <2>2 DEF Answers, Rising, Before, Marks, Commanded
  <2>4. Requests(<< >> \o << >>, 0, 0)
    BY <2>2 DEF Requests
  <2>5. Orderly(0, active, p, << >>, << >>, << >>, NoMsg, << >>, << >>, 0)
    BY <2>3, <2>4 DEF Orderly
  <2> QED BY <2>1, <2>5 DEF OrderlyAt
<1> QED BY <1>1, <1>2 DEF OrderInv

(* A step at plug p.  What the bridge holds concerns only the plug it      *)
(* listens to.                                                             *)
LEMMA OrderStep ==
  ASSUME OrderInv, NEW p \in Plugs, OrderlyAt(p)', stale' = FALSE,
         \A q \in Plugs : q # p =>
           /\ heard'[q] = heard[q] /\ tx'[q] = tx[q] /\ job'[q] = job[q]
           /\ message'[q] = message[q] /\ rx'[q] = rx[q] /\ asked'[q] = asked[q]
           /\ \/ active' = p
              \/ active' = active /\ deviceMessage' = deviceMessage /\ ring' = ring
  PROVE  OrderInv'
<1> SUFFICES ASSUME NEW q \in Plugs, q # p PROVE OrderlyAt(q)'
  BY DEF OrderInv
<1>1. OrderlyAt(q)
  BY DEF OrderInv
<1>2. CASE active' = active /\ deviceMessage' = deviceMessage /\ ring' = ring
  BY <1>1, <1>2 DEF OrderlyAt
<1>3. CASE active' = p
  <2>1. active' # q
    BY <1>3
  <2>2. Orderly(heard[q].nr, active', q, deviceMessage', ring', tx[q], job[q], message[q], rx[q],
                asked[q])
    BY <1>1, <2>1 DEF OrderlyAt, Orderly, Answers
  <2> QED BY <2>2 DEF OrderlyAt
<1> QED BY <1>2, <1>3

(* What is left of the answers is in order.                                *)
LEMMA AnswersLeft ==
  ASSUME NEW h, NEW a, NEW p, NEW D, NEW R, NEW T, NEW c, Answers(h, a, p, D, R, T, c),
         NEW D2, NEW R2, NEW T2, Left(T2, T),
         a = p => Left(D2, D) /\ Left(R2, R)
  PROVE  Answers(h, a, p, D2, R2, T2, c)
<1>1. Rising(T2, h, c)
  BY LeftRising DEF Answers
<1>2. ASSUME a = p
      PROVE  /\ Rising(D2, h, c) /\ Rising(R2, h, c)
             /\ Before(D2, R2) /\ Before(D2, T2) /\ Before(R2, T2)
  <2>1. /\ Rising(D, h, c) /\ Rising(R, h, c)
        /\ Before(D, R) /\ Before(D, T) /\ Before(R, T)
    BY <1>2 DEF Answers
  <2>2. Rising(D2, h, c) /\ Rising(R2, h, c)
    BY <1>2, <2>1, LeftRising
  <2>3. Before(D2, R) /\ Before(D2, T) /\ Before(R2, T)
    BY <1>2, <2>1, LeftBefore
  <2>4. Before(D2, R2) /\ Before(D2, T2) /\ Before(R2, T2)
    BY <1>2, <2>3, LeftBefore
  <2> QED BY <2>2, <2>4
<1> QED BY <1>1, <1>2 DEF Answers

LEMMA SameLeft == ASSUME NEW s \in Seq(Pieces) PROVE Left(s, s)
<1>1. \A k \in 1 .. Len(s) : k + 0 \in 1 .. Len(s) /\ s[k] = s[k + 0]
  BY Numbers
<1> QED BY <1>1, PartLeft

(* A board that has nothing more to say answers a newer request.           *)
LEMMA AnswersMore ==
  ASSUME NEW h \in Nat, NEW a, NEW p, NEW D \in Seq(Pieces), NEW R \in Seq(Pieces), NEW T,
         NEW c \in Nat, Answers(h, a, p, D, R, T, c),
         NEW m \in Messages, NEW cut \in BOOLEAN, c < m.nr, NEW d \in Nat, m.nr <= d
  PROVE  Answers(h, a, p, D, R, Written(m, cut), d)
<1>1. m.nr \in Nat /\ h <= c
  BY DEF Messages, Answers
<1>2. /\ Rising(Written(m, cut), h, m.nr) /\ Written(m, cut) \in Seq(Pieces)
      /\ \A s \in Seq(Pieces) : Rising(s, h, c) => Before(s, Written(m, cut))
  BY <1>1, WrittenRising
<1>3. ASSUME NEW s \in Seq(Pieces), NEW b \in Nat, b <= d, Rising(s, h, b)
      PROVE  Rising(s, h, d)
  <2>1. \A k \in Marks(s) : s[k].of.nr \in Nat
    BY Numbers DEF Marks
  <2> QED BY <1>3, <2>1 DEF Rising
<1>4. Rising(Written(m, cut), h, d)
  BY <1>1, <1>2, <1>3
<1>5. c <= d /\ h <= d
  BY <1>1
<1>6. a = p => /\ Rising(D, h, d) /\ Rising(R, h, d) /\ Before(D, R)
               /\ Before(D, Written(m, cut)) /\ Before(R, Written(m, cut))
  BY <1>2, <1>3, <1>5 DEF Answers
<1> QED BY <1>4, <1>5, <1>6 DEF Answers

-----------------------------------------------------------------------------
(* The bridge asks plug p, or passes a line on to it.                      *)
LEMMA MoreAsked ==
  ASSUME NEW u \in Seq(Pieces), NEW d, NEW n \in Nat, Requests(u, d, n)
  PROVE  Requests(u, d, n + 1)
<1>1. \A k \in 1 .. Len(u) : u[k].of.nr \in Nat
  BY Numbers
<1>2. \A k \in 1 .. Len(u) :
        u[k].of.nr # 0 => d < u[k].of.nr /\ u[k].of.nr <= n + 1 /\ u[k].t \notin {"cr", "lf"}
  BY <1>1 DEF Requests
<1> QED BY <1>2 DEF Requests

LEMMA ToldRequests ==
  ASSUME NEW g \in Seq(Pieces), NEW r \in Seq(Pieces), NEW w \in Seq(Pieces),
         NEW d \in Nat, NEW n \in Nat, d <= n, Requests(g \o r, d, n), Told(w, n + 1)
  PROVE  Requests(g \o Cut(r \o w, RxBuff), d, n + 1)
<1> DEFINE u == g \o r
           y == r \o w
           b == IF Len(y) < RxBuff THEN Len(y) ELSE RxBuff
           z == SubSeq(y, 1, b)
           v == g \o z
<1>1. Len(g) \in Nat /\ Len(r) \in Nat /\ Len(w) \in Nat /\ RxBuff \in Nat
  BY Numbers, BridgeAssumption
<1>2. /\ u \in Seq(Pieces) /\ Len(u) = Len(g) + Len(r)
      /\ \A i \in 1 .. Len(g) + Len(r) : u[i] = IF i <= Len(g) THEN g[i] ELSE r[i - Len(g)]
  BY ConcatProperties
<1>3. /\ y \in Seq(Pieces) /\ Len(y) = Len(r) + Len(w)
      /\ \A i \in 1 .. Len(r) + Len(w) : y[i] = IF i <= Len(r) THEN r[i] ELSE w[i - Len(r)]
  BY ConcatProperties
<1>4. b \in Nat /\ b <= Len(r) + Len(w)
  BY <1>1, <1>3
<1>5. Cut(y, RxBuff) = z
  BY DEF Cut
<1> HIDE DEF u, y, b
<1>6. z \in Seq(Pieces) /\ Len(z) = b /\ \A i \in 1 .. b : z[i] = y[i]
  <2>1. \A i \in 1 .. b : y[i] \in Pieces
    BY <1>1, <1>3, <1>4, Numbers
  <2>2. /\ z \in Seq(Pieces) /\ Len(z) = (IF 1 <= b THEN b - 1 + 1 ELSE 0)
        /\ \A i \in 1 .. b - 1 + 1 : z[i] = y[1 + i - 1]
    BY <1>4, <2>1, SubSeqProperties
  <2> HIDE DEF z
  <2>3. \A i \in 1 .. b : i \in 1 .. b - 1 + 1 /\ 1 + i - 1 = i
    BY <1>4
  <2> QED BY <1>4, <2>2, <2>3
<1> HIDE DEF z
<1>7. /\ v \in Seq(Pieces) /\ Len(v) = Len(g) + b
      /\ \A i \in 1 .. Len(g) + b : v[i] = IF i <= Len(g) THEN g[i] ELSE z[i - Len(g)]
  <2>1. /\ v \in Seq(Pieces) /\ Len(v) = Len(g) + Len(z)
        /\ \A i \in 1 .. Len(g) + Len(z) : v[i] = IF i <= Len(g) THEN g[i] ELSE z[i - Len(g)]
    BY <1>6, ConcatProperties
  <2> QED BY <1>6, <2>1
<1> HIDE DEF v
<1>8. ASSUME NEW k \in 1 .. Len(v)
      PROVE  v[k] = IF k <= Len(u) THEN u[k] ELSE w[k - Len(u)]
  <2>1. k \in 1 .. Len(g) + b /\ k \in Nat
    BY <1>1, <1>4, <1>7
  <2>2. CASE k <= Len(g)
    <3>1. k \in 1 .. Len(g) + Len(r) /\ k <= Len(u)
      BY <1>1, <1>2, <2>1, <2>2
    <3>2. u[k] = g[k]
      BY <1>2, <2>2, <3>1
    <3>3. v[k] = g[k]
      BY <1>7, <2>1, <2>2
    <3> QED BY <3>1, <3>2, <3>3
  <2>3. CASE ~(k <= Len(g))
    <3> DEFINE i == k - Len(g)
    <3>1. i \in 1 .. b /\ k = Len(g) + i /\ i \in 1 .. Len(r) + Len(w)
      BY <1>1, <1>4, <2>1, <2>3
    <3>2. v[k] = z[i]
      BY <1>7, <2>1, <2>3
    <3> HIDE DEF i
    <3>3. v[k] = IF i <= Len(r) THEN r[i] ELSE w[i - Len(r)]
      BY <1>3, <1>6, <3>1, <3>2
    <3>4. CASE i <= Len(r)
      <4>1. k \in 1 .. Len(g) + Len(r) /\ ~(k <= Len(g)) /\ k - Len(g) = i
        BY <1>1, <3>1, <3>4
      <4>2. u[k] = r[i] /\ k <= Len(u)
        BY <1>2, <4>1
      <4> QED BY <3>3, <3>4, <4>2
    <3>5. CASE ~(i <= Len(r))
      <4>1. i - Len(r) = k - Len(u) /\ ~(k <= Len(u))
        BY <1>1, <1>2, <3>1, <3>5
      <4> QED BY <3>3, <3>5, <4>1
    <3> QED BY <3>4, <3>5
  <2> QED BY <2>2, <2>3
<1>9. Len(v) <= Len(u) + Len(w)
  BY <1>1, <1>2, <1>4, <1>7
<1>10. Requests(u, d, n)
  BY DEF u
<1>11. Requests(v, d, n + 1)
  BY <1>2, <1>7, <1>8, <1>9, <1>10, ToldMore
<1>12. v = g \o Cut(r \o w, RxBuff)
  BY <1>5 DEF v, y
<1> QED BY <1>11, <1>12

LEMMA AskedOrder ==
  ASSUME TypeInv, OrderInv, NEW p \in Plugs, NEW m \in Messages, m.nr = asked[p] + 1,
         NEW noise \in BOOLEAN, Println(p, m, noise), Listen(p), deviceMessage' = << >>,
         UNCHANGED <<heard, stale, job, message>>
  PROVE  OrderInv'
<1> DEFINE n == asked[p]
           D == deviceMessage
           T == tx[p]
<1>1. /\ D \in Seq(Pieces) /\ ring \in Seq(Pieces) /\ T \in Seq(Pieces) /\ n \in Nat
      /\ message[p] \in Seq(Pieces) /\ rx[p] \in Seq(Pieces) /\ m.nr # 0
      /\ message[p] \o rx[p] \in Seq(Pieces)
  <2>1. n \in Nat
    BY TypesAt
  <2> QED BY <2>1, TypesAt
<1>2. Orderly(heard[p].nr, active, p, D, ring, T, job[p], message[p], rx[p], n)
  BY DEF OrderInv, OrderlyAt
<1>3. PICK c \in Nat, d \in Nat :
        /\ c <= d /\ d <= n
        /\ Answers(heard[p].nr, active, p, D, ring, T, c)
        /\ job[p] # NoMsg => T = << >> /\ c < job[p].nr /\ job[p].nr <= d
        /\ Requests(message[p] \o rx[p], d, n)
  BY <1>2 DEF Orderly
<1>4. Left(tx'[p], T) /\ (T = << >> => tx'[p] = << >>)
  <2>1. CASE tx' = tx
    BY <1>1, <2>1, SameLeft
  <2>2. CASE tx[p] # << >> /\ tx' = [tx EXCEPT ![p][1] = Junk]
    <3>1. tx'[p] = [tx[p] EXCEPT ![1] = Junk]
      BY <2>2 DEF TypeInv, SaidTypes
    <3>2. 1 \in 1 .. Len(tx[p]) /\ Junk \in Pieces
      <4>1. Junk \in Pieces
        BY MessageKinds DEF Junk, Piece, Pieces
      <4> QED BY <1>1, <2>2, <4>1, EmptySeq, LenProperties
    <3>3. /\ tx'[p] \in Seq(Pieces) /\ Len(tx'[p]) = Len(tx[p])
          /\ \A j \in 1 .. Len(tx[p]) : tx'[p][j] = IF j = 1 THEN Junk ELSE tx[p][j]
      BY <1>1, <3>1, <3>2, ExceptSeq
    <3>4. Junk.t # "cmd" /\ Junk.t # "sum"
      BY DEF Junk, Piece
    <3>5. Left(tx'[p], tx[p])
      BY <1>1, <3>3, <3>4, SpoiltLeft
    <3> QED BY <2>2, <3>5
  <2> QED BY <2>1, <2>2 DEF Println
<1> HIDE DEF n, D, T
<1>5. Answers(heard[p].nr, p, p, << >>, ring', tx'[p], c)
  <2>1. CASE active = p
    <3>1. ring' = ring
      BY <2>1 DEF Listen
    <3>2. Left(<< >>, D) /\ Left(ring, ring)
      BY <1>1, NothingLeft, SameLeft
    <3> QED BY <1>3, <1>4, <2>1, <3>1, <3>2, AnswersLeft
  <2>2. CASE active # p
    <3>1. ring' = << >>
      BY <2>2 DEF Listen
    <3>2. Answers(heard[p].nr, active, p, << >>, << >>, tx'[p], c)
      BY <1>3, <1>4, <2>2, AnswersLeft
    <3>3. Rising(tx'[p], heard[p].nr, c) /\ heard[p].nr <= c
      BY <3>2 DEF Answers
    <3>4. Left(<< >>, tx'[p]) /\ Marks(<< >>) = {}
      BY NothingLeft
    <3>5. Rising(<< >>, heard[p].nr, c)
      BY <3>3, <3>4, LeftRising
    <3> QED BY <3>1, <3>3, <3>4, <3>5 DEF Answers, Before
  <2> QED BY <2>1, <2>2
<1>6. Requests(message[p] \o rx'[p], d, n + 1)
  <2>1. ASSUME rx' = rx PROVE Requests(message[p] \o rx'[p], d, n + 1)
    BY <1>1, <1>3, <2>1, MoreAsked
  <2>2. ASSUME NEW s \in IF noise THEN Damaged(Written(m, FALSE)) ELSE {Written(m, FALSE)},
               rx' = [rx EXCEPT ![p] = Cut(rx[p] \o s, RxBuff)]
        PROVE  Requests(message[p] \o rx'[p], d, n + 1)
    <3>1. s \in Damaged(Written(m, FALSE)) \cup {Written(m, FALSE)}
      BY <2>2
    <3>2. m.nr = n + 1 /\ m.nr \in Nat /\ m.nr <= m.nr
      BY <1>1 DEF n
    <3>3. Written(m, FALSE) \in Seq(PiecesTo(m.nr))
      BY <3>2, WrittenIn
    <3>4. s \in Seq(PiecesTo(m.nr))
      BY <3>1, <3>2, <3>3, GarbledIn, DamagedIn
    <3>5. s \in Seq(Pieces)
      BY <3>2, <3>4, AllPieces
    <3>6. Told(s, n + 1)
      BY <1>1, <3>1, <3>2, <3>5, ToldWritten
    <3>7. rx'[p] = Cut(rx[p] \o s, RxBuff)
      BY <2>2 DEF TypeInv, ToldTypes
    <3> QED BY <1>1, <1>3, <3>5, <3>6, <3>7, ToldRequests
  <2> QED BY <2>1, <2>2 DEF Println
<1>7. Orderly(heard[p].nr, p, p, << >>, ring', tx'[p], job[p], message[p], rx'[p], n + 1)
  <2>1. d <= n + 1
    BY <1>1, <1>3
  <2>2. job[p] # NoMsg => tx'[p] = << >> /\ c < job[p].nr /\ job[p].nr <= d
    BY <1>3, <1>4
  <2> QED BY <1>3, <1>5, <1>6, <2>1, <2>2 DEF Orderly
<1>8. asked' = [asked EXCEPT ![p] = n + 1]
  BY DEF Println, n
<1>9. OrderlyAt(p)'
  <2>1. asked'[p] = n + 1 /\ active' = p
    BY <1>8 DEF TypeInv, ToldTypes, Listen
  <2> QED BY <1>7, <2>1 DEF OrderlyAt
<1>10. ASSUME NEW q \in Plugs, q # p
       PROVE  /\ heard'[q] = heard[q] /\ tx'[q] = tx[q] /\ job'[q] = job[q]
              /\ message'[q] = message[q] /\ rx'[q] = rx[q] /\ asked'[q] = asked[q]
              /\ active' = p
  <2>1. \/ rx' = rx
        \/ \E s : rx' = [rx EXCEPT ![p] = Cut(rx[p] \o s, RxBuff)]
    BY DEF Println
  <2>2. tx' = tx \/ tx' = [tx EXCEPT ![p][1] = Junk]
    BY DEF Println
  <2>3. rx'[q] = rx[q] /\ tx'[q] = tx[q]
    BY <1>10, <2>1, <2>2 DEF TypeInv, ToldTypes, SaidTypes
  <2> QED BY <1>8, <1>10, <2>3 DEF TypeInv, ToldTypes, Listen
<1>11. stale' = FALSE
  BY DEF OrderInv
<1> QED BY <1>9, <1>10, <1>11, OrderStep

LEMMA PassOnOrder == ASSUME TypeInv, OrderInv, PassOn PROVE OrderInv'
<1>1. PICK o \in Orders : \E noise \in BOOLEAN :
        /\ Listen(o.plug)
        /\ Println(o.plug, Request(IF o.k = "s" THEN "s" ELSE "m", o.level, asked[o.plug] + 1), noise)
  BY DEF PassOn
<1>2. o.plug \in Plugs /\ o.level \in Nat
  BY BridgeAssumption
<1> DEFINE m == Request(IF o.k = "s" THEN "s" ELSE "m", o.level, asked[o.plug] + 1)
<1>3. asked[o.plug] + 1 \in Nat
  BY <1>2 DEF TypeInv, ToldTypes
<1>4. m \in Messages /\ m.nr = asked[o.plug] + 1
  BY <1>2, <1>3, MessageKinds DEF Request
<1>5. PICK noise \in BOOLEAN : Println(o.plug, m, noise)
  BY <1>1
<1>6. deviceMessage' = << >> /\ UNCHANGED <<heard, stale, job, message>>
  BY DEF PassOn
<1> HIDE DEF m
<1> QED BY <1>1, <1>2, <1>4, <1>5, <1>6, AskedOrder

LEMMA PollOrder == ASSUME TypeInv, OrderInv, Poll PROVE OrderInv'
<1> DEFINE m == Request(pollMessage, 0, asked[cur] + 1)
<1>1. PICK noise \in BOOLEAN : Println(cur, m, noise)
  BY DEF Poll
<1>2. cur \in Plugs /\ pollMessage \in {"v", "m", "s"}
  BY MessageKinds DEF TypeInv, BridgeTypes, Poll, Plugs
<1>3. asked[cur] + 1 \in Nat
  BY <1>2 DEF TypeInv, ToldTypes
<1>4. m \in Messages /\ m.nr = asked[cur] + 1
  BY <1>2, <1>3, MessageKinds DEF Request
<1>5. Listen(cur) /\ deviceMessage' = << >> /\ UNCHANGED <<heard, stale, job, message>>
  BY DEF Poll
<1> HIDE DEF m
<1> QED BY <1>1, <1>2, <1>4, <1>5, AskedOrder

-----------------------------------------------------------------------------
(* What is passed on is newer than what was passed on before, and all that *)
(* is still coming is newer still.                                         *)
LEMMA RisingFrom ==
  ASSUME NEW u, NEW lo, NEW hi, Rising(u, lo, hi), NEW s, NEW i \in Marks(s), Before(s, u)
  PROVE  Rising(u, s[i].of.nr, hi)
<1>1. \A k \in Marks(u) : s[i].of.nr < u[k].of.nr
  BY DEF Before
<1> QED BY <1>1 DEF Rising

LEMMA UptoPart ==
  ASSUME NEW s \in Seq(Pieces), NEW k \in 1 .. Len(s) + 1
  PROVE  /\ Upto(s, k) \in Seq(Pieces) /\ Len(Upto(s, k)) = k - 1 /\ k - 1 \in Nat
         /\ \A i \in 1 .. k - 1 : i \in 1 .. Len(s) /\ Upto(s, k)[i] = s[i]
<1>1. Len(s) \in Nat /\ \A i \in 1 .. k - 1 : s[i] \in Pieces
  BY Numbers
<1> DEFINE a == Upto(s, k)
<1>2. /\ a \in Seq(Pieces) /\ Len(a) = (IF 1 <= k - 1 THEN k - 1 - 1 + 1 ELSE 0)
      /\ \A i \in 1 .. k - 1 - 1 + 1 : a[i] = s[1 + i - 1]
  BY <1>1, SubSeqProperties DEF Upto
<1> HIDE DEF a
<1>3. \A i \in 1 .. k - 1 : i \in 1 .. k - 1 - 1 + 1 /\ 1 + i - 1 = i /\ i \in 1 .. Len(s)
  BY <1>1
<1>4. Len(a) = k - 1 /\ k - 1 \in Nat
  BY <1>1, <1>2
<1> QED BY <1>2, <1>3, <1>4 DEF a

LEMMA BeyondPart ==
  ASSUME NEW s \in Seq(Pieces), NEW k \in 0 .. Len(s)
  PROVE  /\ Beyond(s, k) \in Seq(Pieces) /\ Len(Beyond(s, k)) = Len(s) - k
         /\ \A i \in 1 .. Len(s) - k : i + k \in 1 .. Len(s) /\ Beyond(s, k)[i] = s[i + k]
<1>1. Len(s) \in Nat /\ k \in Nat /\ \A i \in k + 1 .. Len(s) : s[i] \in Pieces
  <2>1. Len(s) \in Nat /\ \A i \in 1 .. Len(s) : s[i] \in Pieces
    BY Numbers
  <2> QED BY <2>1
<1> DEFINE a == Beyond(s, k)
<1>2. /\ a \in Seq(Pieces)
      /\ Len(a) = (IF k + 1 <= Len(s) THEN Len(s) - (k + 1) + 1 ELSE 0)
      /\ \A i \in 1 .. Len(s) - (k + 1) + 1 : a[i] = s[k + 1 + i - 1]
  BY <1>1, SubSeqProperties DEF Beyond
<1> HIDE DEF a
<1>3. \A i \in 1 .. Len(s) - k :
        i \in 1 .. Len(s) - (k + 1) + 1 /\ k + 1 + i - 1 = i + k /\ i + k \in 1 .. Len(s)
  BY <1>1
<1>4. Len(a) = Len(s) - k
  <2>1. Len(a) = IF k + 1 <= Len(s) THEN Len(s) - (k + 1) + 1 ELSE 0
    BY <1>2
  <2> QED BY <1>1, <2>1
<1> QED BY <1>2, <1>3, <1>4 DEF a

(* The line s = D, A is read, B stays in the buffer.                       *)
LEMMA HeardOrder ==
  ASSUME TypeInv, OrderInv, NEW p \in Plugs, active = p, LineEnd(p) \/ Characters,
         UNCHANGED <<active, boardVars, asked>>
  PROVE  OrderInv'
<1> DEFINE h == heard[p].nr
           T == tx[p]
<1>1. /\ deviceMessage \in Seq(Pieces) /\ ring \in Seq(Pieces) /\ T \in Seq(Pieces)
      /\ h \in Nat
  <2>1. h \in Nat
    BY TypesAt
  <2> QED BY <2>1, TypesAt
<1>2. Orderly(h, p, p, deviceMessage, ring, T, job[p], message[p], rx[p], asked[p])
  BY DEF OrderInv, OrderlyAt
<1>3. PICK c \in Nat, d \in Nat :
        /\ c <= d /\ d <= asked[p]
        /\ Answers(h, p, p, deviceMessage, ring, T, c)
        /\ job[p] # NoMsg => T = << >> /\ c < job[p].nr /\ job[p].nr <= d
        /\ Requests(message[p] \o rx[p], d, asked[p])
  BY <1>2 DEF Orderly
<1> HIDE DEF h, T
<1>4. /\ h <= c /\ Rising(deviceMessage, h, c) /\ Rising(ring, h, c) /\ Rising(T, h, c)
      /\ Before(deviceMessage, ring) /\ Before(deviceMessage, T) /\ Before(ring, T)
  BY <1>3 DEF Answers
<1>5. UNCHANGED <<tx, job, message, rx, asked>>
  BY DEF boardVars, wireVars
<1>6. stale = FALSE
  BY DEF OrderInv
<1>7. ASSUME Answers(heard'[p].nr, p, p, deviceMessage', ring', T, c), stale' = FALSE,
             \A q \in Plugs : q # p => heard'[q] = heard[q]
      PROVE  OrderInv'
  <2>1. Orderly(heard'[p].nr, p, p, deviceMessage', ring', T, job[p], message[p], rx[p], asked[p])
    BY <1>3, <1>7 DEF Orderly
  <2>2. OrderlyAt(p)'
    BY <1>5, <2>1 DEF OrderlyAt, T
  <2> QED BY <1>5, <1>7, <2>2, OrderStep
<1>8. CASE Characters
  <2>1. Rising(deviceMessage \o ring, h, c) /\ Before(deviceMessage \o ring, T)
    BY <1>1, <1>4, RisingJoined, BeforeJoined
  <2>2. Left(<< >>, ring) /\ Marks(<< >>) = {}
    BY NothingLeft
  <2>3. Rising(<< >>, h, c)
    BY <1>4, <2>2, LeftRising
  <2>4. Answers(h, p, p, deviceMessage \o ring, << >>, T, c)
    BY <1>4, <2>1, <2>2, <2>3 DEF Answers, Before
  <2>5. deviceMessage' = deviceMessage \o ring /\ ring' = << >> /\ heard' = heard /\ stale' = stale
    BY <1>8 DEF Characters
  <2> QED BY <1>6, <1>7, <2>4, <2>5 DEF h
<1>9. CASE LineEnd(p)
  <2> DEFINE k == FirstOf(Control(ring))
             A == Upto(ring, k)
             B == Beyond(ring, k)
             s == deviceMessage \o A
  <2>1. k \in 1 .. Len(ring) /\ Len(ring) \in Nat
    <3>1. Len(ring) \in Nat
      BY <1>1, Numbers
    <3>2. Control(ring) \subseteq 1 .. Len(ring) /\ Control(ring) # {}
      BY <1>9 DEF LineEnd, Control
    <3> QED BY <3>1, <3>2, FirstIsOne
  <2>2. /\ ring' = B /\ deviceMessage' = << >>
        /\ Forward(p, s) \/ (heard' = heard /\ stale' = stale)
    BY <1>9 DEF LineEnd
  <2> HIDE DEF k
  <2>3. k \in 1 .. Len(ring) + 1 /\ k \in 0 .. Len(ring) /\ k \in Nat
    BY <2>1
  <2>4. /\ A \in Seq(Pieces) /\ Len(A) <= k
        /\ \A i \in 1 .. Len(A) : i \in 1 .. Len(ring) /\ A[i] = ring[i]
    <3>1. /\ A \in Seq(Pieces) /\ Len(A) = k - 1
          /\ \A i \in 1 .. k - 1 : i \in 1 .. Len(ring) /\ A[i] = ring[i]
      BY <1>1, <2>3, UptoPart
    <3> HIDE DEF A
    <3>2. k - 1 <= k
      BY <2>3
    <3> QED BY <3>1, <3>2
  <2>5. /\ B \in Seq(Pieces)
        /\ \A i \in 1 .. Len(B) : i + k \in 1 .. Len(ring) /\ B[i] = ring[i + k]
    BY <1>1, <2>3, BeyondPart
  <2> HIDE DEF A, B
  <2>6. Before(A, B)
    BY <1>1, <1>4, <2>3, <2>4, <2>5, PartsBefore
  <2>7. Left(B, ring)
    BY <1>1, <2>3, <2>5, PartLeft
  <2>8. Left(A, ring)
    <3>1. \A i \in 1 .. Len(A) : i + 0 = i
      BY <2>4, Numbers
    <3>2. \A i \in 1 .. Len(A) : i + 0 \in 1 .. Len(ring) /\ A[i] = ring[i + 0]
      BY <2>4, <3>1
    <3> QED BY <1>1, <2>4, <3>2, PartLeft
  <2>9. /\ Rising(A, h, c) /\ Rising(B, h, c)
        /\ Before(deviceMessage, A) /\ Before(deviceMessage, B) /\ Before(A, T) /\ Before(B, T)
    BY <1>4, <2>7, <2>8, LeftRising, LeftBefore
  <2>10. /\ s \in Seq(Pieces) /\ Rising(s, h, c) /\ Before(s, B) /\ Before(s, T)
    BY <1>1, <1>4, <2>4, <2>6, <2>9, RisingJoined, BeforeJoined, ConcatProperties
  <2> HIDE DEF s
  <2>11. Left(<< >>, B) /\ Marks(<< >>) = {}
    BY NothingLeft
  <2>12. ASSUME NEW g, Rising(B, g, c), Rising(T, g, c), g <= c
         PROVE  Answers(g, p, p, << >>, B, T, c)
    <3>1. Rising(<< >>, g, c)
      BY <2>11, <2>12, LeftRising
    <3> QED BY <2>9, <2>11, <2>12, <3>1 DEF Answers, Before
  <2>13. ASSUME heard' = heard, stale' = stale PROVE OrderInv'
    <3>1. Answers(h, p, p, << >>, B, T, c)
      BY <1>4, <2>9, <2>12
    <3> QED BY <1>6, <1>7, <2>2, <2>13, <3>1 DEF h
  <2>14. ASSUME Forward(p, s), ChecksumOk(s) PROVE OrderInv'
    <3>1. PICK i \in Marks(s) : Content(s) = s[i].of
      BY <2>10, <2>14, ContentMarked DEF Rising
    <3> DEFINE g == s[i].of.nr
    <3>2. h < g /\ g <= c /\ g \in Nat
      BY <2>10, Numbers DEF Rising, Marks
    <3>3. Rising(B, g, c) /\ Rising(T, g, c)
      BY <1>4, <2>9, <2>10, RisingFrom
    <3>4. Content(s).nr = g
      BY <3>1
    <3> HIDE DEF g
    <3>5. Answers(g, p, p, << >>, B, T, c)
      BY <2>12, <3>2, <3>3
    <3>6. /\ heard' = [heard EXCEPT ![p] = Content(s)]
          /\ stale' = (stale \/ heard'[p].nr <= heard[p].nr)
      BY <2>14 DEF Forward
    <3>7. heard'[p].nr = g
      BY <3>4, <3>6 DEF TypeInv, HeardTypes
    <3>8. ~(heard'[p].nr <= heard[p].nr)
      BY <1>1, <3>2, <3>7 DEF h
    <3>9. stale' = FALSE
      BY <1>6, <3>6, <3>8, Zenon
    <3>10. \A q \in Plugs : q # p => heard'[q] = heard[q]
      BY <3>6 DEF TypeInv, HeardTypes
    <3> QED BY <1>7, <2>2, <3>5, <3>7, <3>9, <3>10
  <2> QED BY <2>2, <2>13, <2>14 DEF Forward
<1> QED BY <1>8, <1>9

LEMMA PollHearsOrder == ASSUME TypeInv, OrderInv, PollHears PROVE OrderInv'
<1>1. cur \in Plugs /\ active = cur
  BY MessageKinds DEF TypeInv, BridgeTypes, PollHears, Plugs
<1>2. LineEnd(cur) \/ Characters
  BY DEF PollHears
<1>3. UNCHANGED <<active, boardVars, asked>>
  BY DEF PollHears
<1> QED BY <1>1, <1>2, <1>3, HeardOrder

LEMMA LoopHearsOrder == ASSUME TypeInv, OrderInv, LoopHears PROVE OrderInv'
<1>1. listenDevice \in Plugs /\ active = listenDevice
  BY MessageKinds DEF TypeInv, BridgeTypes, LoopHears, LoopCanHear, Plugs
<1>2. LineEnd(listenDevice) \/ Characters
  BY DEF LoopHears
<1>3. UNCHANGED <<active, boardVars, asked>>
  BY DEF LoopHears
<1> QED BY <1>1, <1>2, <1>3, HeardOrder

-----------------------------------------------------------------------------
(* The board reads: M is what it has of the line, r what is in its buffer, *)
(* and position x of the two together is the line end at which it stops.   *)
LEMMA LineSplit ==
  ASSUME NEW M \in Seq(Pieces), NEW r \in Seq(Pieces), NEW k \in 1 .. Len(r)
  PROVE  LET u == M \o r
             g == M \o Upto(r, k)
             B == Beyond(r, k)
             x == Len(M) + k
         IN  /\ u \in Seq(Pieces) /\ g \in Seq(Pieces) /\ B \in Seq(Pieces)
             /\ x \in 1 .. Len(u) /\ u[x] = r[k] /\ x \in Nat
             /\ Len(g) = x - 1 /\ \A i \in 1 .. x - 1 : g[i] = u[i]
             /\ Len(B) = Len(u) - x /\ \A i \in 1 .. Len(B) : B[i] = u[i + x]
<1> DEFINE u == M \o r
           A == Upto(r, k)
           g == M \o A
           B == Beyond(r, k)
           x == Len(M) + k
<1>1. Len(M) \in Nat /\ Len(r) \in Nat
  BY Numbers
<1>2. /\ u \in Seq(Pieces) /\ Len(u) = Len(M) + Len(r)
      /\ \A i \in 1 .. Len(M) + Len(r) : u[i] = IF i <= Len(M) THEN M[i] ELSE r[i - Len(M)]
  BY ConcatProperties
<1>3. k \in 1 .. Len(r) + 1 /\ k \in 0 .. Len(r) /\ k \in Nat
  BY <1>1
<1>4. /\ A \in Seq(Pieces) /\ Len(A) = k - 1
      /\ \A i \in 1 .. k - 1 : i \in 1 .. Len(r) /\ A[i] = r[i]
  BY <1>3, UptoPart
<1>5. /\ B \in Seq(Pieces) /\ Len(B) = Len(r) - k
      /\ \A i \in 1 .. Len(r) - k : i + k \in 1 .. Len(r) /\ B[i] = r[i + k]
  BY <1>3, BeyondPart
<1> HIDE DEF A, B, u
<1>6. /\ g \in Seq(Pieces) /\ Len(g) = Len(M) + Len(A)
      /\ \A i \in 1 .. Len(M) + Len(A) : g[i] = IF i <= Len(M) THEN M[i] ELSE A[i - Len(M)]
  BY <1>4, ConcatProperties
<1> HIDE DEF g
<1>7. x \in 1 .. Len(u) /\ x \in Nat /\ ~(x <= Len(M)) /\ x - Len(M) = k /\ Len(u) - x = Len(r) - k
  BY <1>1, <1>2, <1>3
<1>8. u[x] = r[k]
  BY <1>2, <1>7
<1>9. Len(g) = x - 1
  BY <1>1, <1>3, <1>4, <1>6
<1>10. ASSUME NEW i \in 1 .. x - 1 PROVE g[i] = u[i]
  <2>1. i \in 1 .. Len(M) + Len(A) /\ i \in 1 .. Len(M) + Len(r)
    BY <1>1, <1>3, <1>4
  <2>2. CASE i <= Len(M)
    <3>1. g[i] = M[i]
      BY <1>6, <2>1, <2>2
    <3>2. u[i] = M[i]
      BY <1>2, <2>1, <2>2
    <3> QED BY <3>1, <3>2
  <2>3. CASE ~(i <= Len(M))
    <3>1. g[i] = A[i - Len(M)]
      BY <1>6, <2>1, <2>3
    <3>2. u[i] = r[i - Len(M)]
      BY <1>2, <2>1, <2>3
    <3>3. i - Len(M) \in 1 .. k - 1
      BY <1>1, <1>3, <2>3
    <3> QED BY <1>4, <3>1, <3>2, <3>3
  <2> QED BY <2>2, <2>3
<1>11. ASSUME NEW i \in 1 .. Len(B) PROVE B[i] = u[i + x]
  <2>1. i \in 1 .. Len(r) - k /\ i \in Nat
    BY <1>1, <1>3, <1>5
  <2>2. i + x \in 1 .. Len(M) + Len(r) /\ ~(i + x <= Len(M)) /\ i + x - Len(M) = i + k
    BY <1>1, <1>3, <2>1
  <2>3. u[i + x] = r[i + k]
    BY <1>2, <2>2
  <2> QED BY <1>5, <2>1, <2>3
<1> HIDE DEF x
<1>12. Len(B) = Len(u) - x
  BY <1>5, <1>7
<1> QED BY <1>2, <1>5, <1>6, <1>7, <1>8, <1>9, <1>10, <1>11, <1>12 DEF u, g, A, B, x

LEMMA ReadOn ==
  ASSUME NEW M \in Seq(Pieces), NEW r \in Seq(Pieces), NEW k \in 1 .. Len(r) + 1,
         k <= Len(r) => r[k].t = "lf", NEW d, NEW n, Requests(M \o r, d, n)
  PROVE  Requests((M \o Upto(r, k)) \o Beyond(r, k), d, n)
<1> DEFINE u == M \o r
           g == M \o Upto(r, k)
           B == Beyond(r, k)
           v == g \o B
<1>1. Len(r) \in Nat
  BY Numbers
<1>2. CASE k \in 1 .. Len(r)
  <2> DEFINE x == Len(M) + k
  <2>1. /\ u \in Seq(Pieces) /\ g \in Seq(Pieces) /\ B \in Seq(Pieces)
        /\ x \in 1 .. Len(u) /\ u[x] = r[k] /\ x \in Nat
        /\ Len(g) = x - 1 /\ \A i \in 1 .. x - 1 : g[i] = u[i]
        /\ Len(B) = Len(u) - x /\ \A i \in 1 .. Len(B) : B[i] = u[i + x]
    BY <1>2, LineSplit
  <2>2. u[x].t = "lf"
    BY <1>1, <1>2, <2>1
  <2>3. Requests(u, d, n)
    OBVIOUS
  <2> HIDE DEF u, g, B, x
  <2>4. /\ v \in Seq(Pieces) /\ Len(v) = Len(g) + Len(B)
        /\ \A i \in 1 .. Len(g) + Len(B) : v[i] = IF i <= Len(g) THEN g[i] ELSE B[i - Len(g)]
    BY <2>1, ConcatProperties
  <2> HIDE DEF v
  <2>5. Len(u) \in Nat
    BY <2>1, Numbers
  <2>6. Len(v) = Len(u) - 1
    BY <2>1, <2>4, <2>5
  <2>7. ASSUME NEW i \in 1 .. Len(v) PROVE v[i] = IF i < x THEN u[i] ELSE u[i + 1]
    <3>1. i \in Nat /\ i \in 1 .. Len(g) + Len(B)
      BY <2>4, <2>5, <2>6
    <3>2. CASE i < x
      <4>1. i <= Len(g) /\ i \in 1 .. x - 1
        BY <2>1, <3>1, <3>2
      <4>2. v[i] = g[i]
        BY <2>4, <3>1, <4>1
      <4>3. g[i] = u[i]
        BY <2>1, <4>1
      <4> QED BY <3>2, <4>2, <4>3
    <3>3. CASE ~(i < x)
      <4> DEFINE y == i - Len(g)
      <4>1. ~(i <= Len(g)) /\ y \in 1 .. Len(B) /\ y + x = i + 1
        BY <2>1, <2>5, <2>6, <3>1, <3>3
      <4>2. v[i] = B[y]
        BY <2>4, <3>1, <4>1
      <4> HIDE DEF y
      <4>3. B[y] = u[y + x]
        BY <2>1, <4>1
      <4> QED BY <3>3, <4>1, <4>2, <4>3
    <3> QED BY <3>2, <3>3
  <2>8. Requests(v, d, n)
    BY <2>1, <2>2, <2>3, <2>4, <2>6, <2>7, ToldSkipped
  <2> QED BY <2>8 DEF v, g, B
<1>3. CASE k = Len(r) + 1
  <2> DEFINE A == Upto(r, k)
  <2>1. /\ A \in Seq(Pieces) /\ Len(A) = k - 1
        /\ \A i \in 1 .. k - 1 : A[i] = r[i]
    BY UptoPart
  <2>2. k - 1 = Len(r)
    BY <1>1, <1>3
  <2> HIDE DEF A
  <2>3. A = r
    BY <2>1, <2>2, SeqEqual
  <2>4. B = << >>
    <3>1. /\ k + 1 \in Int /\ Len(r) \in Int /\ ~(k + 1 <= Len(r))
          /\ \A i \in k + 1 .. Len(r) : r[i] \in Pieces
      BY <1>1, <1>3
    <3>2. B \in Seq(Pieces) /\ Len(B) = IF k + 1 <= Len(r) THEN Len(r) - (k + 1) + 1 ELSE 0
      BY <3>1, SubSeqProperties DEF Beyond
    <3> HIDE DEF B
    <3> QED BY <3>1, <3>2, EmptySeq
  <2>5. u \in Seq(Pieces)
    BY ConcatProperties
  <2>6. u \o << >> = u
    BY <2>5, ConcatEmptySeq
  <2> QED BY <2>3, <2>4, <2>6 DEF A
<1> QED BY <1>1, <1>2, <1>3

LEMMA TakeBytesOrder ==
  ASSUME TypeInv, OrderInv, NEW p \in Plugs, TakeBytes(p)
  PROVE  OrderInv'
<1>1. message[p] \in Seq(Pieces) /\ rx[p] \in Seq(Pieces)
  BY TypesAt
<1>2. /\ ReadTo(p) \in 1 .. Len(rx[p]) + 1
      /\ ReadTo(p) <= Len(rx[p]) => rx[p][ReadTo(p)].t = "lf"
  <2>1. /\ ReadTo(p) \in 1 .. Len(rx[p]) + 1 /\ Len(rx[p]) \in Nat
        /\ ReadTo(p) <= Len(rx[p]) => rx[p][ReadTo(p)].t \in {"cr", "lf"}
    BY ReadPart DEF TypeInv
  <2>2. ASSUME ReadTo(p) <= Len(rx[p]), rx[p][ReadTo(p)].t = "cr" PROVE FALSE
    <3>1. Control(rx[p]) # {}
      BY <2>1, <2>2 DEF Control
    <3> QED BY <2>2, <3>1 DEF TakeBytes, AtCR
  <2> QED BY <2>1, <2>2
<1>3. Orderly(heard[p].nr, active, p, deviceMessage, ring, tx[p], job[p], message[p], rx[p], asked[p])
  BY DEF OrderInv, OrderlyAt
<1>4. \A d \in Nat : Requests(message[p] \o rx[p], d, asked[p])
        => Requests(NextLine(p) \o Beyond(rx[p], ReadTo(p)), d, asked[p])
  BY <1>1, <1>2, ReadOn DEF NextLine
<1>5. Orderly(heard[p].nr, active, p, deviceMessage, ring, tx[p], job[p], NextLine(p),
              Beyond(rx[p], ReadTo(p)), asked[p])
  BY <1>3, <1>4 DEF Orderly
<1>6. /\ rx' = [rx EXCEPT ![p] = Beyond(rx[p], ReadTo(p))]
      /\ message' = [message EXCEPT ![p] = NextLine(p)]
      /\ UNCHANGED <<heard, stale, active, deviceMessage, ring, tx, job, asked>>
  BY DEF TakeBytes, hearVars, seenVars
<1>7. rx'[p] = Beyond(rx[p], ReadTo(p)) /\ message'[p] = NextLine(p)
  BY <1>6 DEF TypeInv, ToldTypes
<1>8. OrderlyAt(p)'
  BY <1>5, <1>6, <1>7 DEF OrderlyAt
<1>9. \A q \in Plugs : q # p => rx'[q] = rx[q] /\ message'[q] = message[q]
  BY <1>6 DEF TypeInv, ToldTypes
<1>10. stale' = FALSE
  BY <1>6 DEF OrderInv
<1> QED BY <1>6, <1>8, <1>9, <1>10, OrderStep

(* A whole line is served: it is newer than what was served before.        *)
LEMMA TakeLineOrder ==
  ASSUME TypeInv, OrderInv, NEW p \in Plugs, TakeLine(p)
  PROVE  OrderInv'
<1> DEFINE M == message[p]
           r == rx[p]
           k == ReadTo(p)
           u == M \o r
           g == NextLine(p)
           B == Beyond(r, k)
           x == Len(M) + k
           n == asked[p]
           h == heard[p].nr
<1>1. /\ M \in Seq(Pieces) /\ r \in Seq(Pieces) /\ n \in Nat /\ h \in Nat
      /\ deviceMessage \in Seq(Pieces) /\ ring \in Seq(Pieces)
  <2>1. n \in Nat /\ h \in Nat
    BY TypesAt
  <2> QED BY <2>1, TypesAt
<1>2. k \in 1 .. Len(r) /\ r[k].t = "cr"
  <2>1. AtCR(p)
    BY DEF TakeLine
  <2> QED BY <2>1, ReadPart DEF TypeInv, AtCR
<1>3. Orderly(h, active, p, deviceMessage, ring, tx[p], job[p], M, r, n)
  BY DEF OrderInv, OrderlyAt
<1>4. PICK c \in Nat, d \in Nat :
        /\ c <= d /\ d <= n
        /\ Answers(h, active, p, deviceMessage, ring, tx[p], c)
        /\ Requests(u, d, n)
  BY <1>3 DEF Orderly
<1>5. job[p] = NoMsg /\ tx[p] = << >>
  BY DEF TakeLine, MayRead, Idle
<1>6. /\ rx' = [rx EXCEPT ![p] = B] /\ message' = [message EXCEPT ![p] = << >>]
      /\ UNCHANGED <<heard, stale, active, deviceMessage, ring, asked>>
      /\ g # << >> => Serve(p, g)
  BY DEF TakeLine, hearVars, seenVars
<1>7. rx'[p] = B /\ message'[p] = << >>
  BY <1>6 DEF TypeInv, ToldTypes
<1>8. g \in Seq(PiecesTo(n)) /\ g = M \o Upto(r, k)
  BY NextLineIn DEF TypeInv, NextLine
<1> HIDE DEF n, h, g, k, r, M
<1>9. /\ u \in Seq(Pieces) /\ g \in Seq(Pieces) /\ B \in Seq(Pieces)
      /\ x \in 1 .. Len(u) /\ u[x] = r[k] /\ x \in Nat
      /\ Len(g) = x - 1 /\ \A i \in 1 .. x - 1 : g[i] = u[i]
      /\ Len(B) = Len(u) - x /\ \A i \in 1 .. Len(B) : B[i] = u[i + x]
  <2> DEFINE f == M \o Upto(r, k)
  <2>1. /\ u \in Seq(Pieces) /\ f \in Seq(Pieces) /\ B \in Seq(Pieces)
        /\ x \in 1 .. Len(u) /\ u[x] = r[k] /\ x \in Nat
        /\ Len(f) = x - 1 /\ \A i \in 1 .. x - 1 : f[i] = u[i]
        /\ Len(B) = Len(u) - x /\ \A i \in 1 .. Len(B) : B[i] = u[i + x]
    BY <1>1, <1>2, LineSplit
  <2>2. g = f
    BY <1>8
  <2> HIDE DEF f, u, B, x
  <2> QED BY <2>1, <2>2
<1> HIDE DEF u, B, x
<1>10. g # << >>
  <2>1. PICK j \in 1 .. x - 1 : u[j].of.nr # 0
    BY <1>2, <1>4, <1>9 DEF Requests
  <2>2. Len(g) # 0
    BY <1>9, <2>1
  <2> QED BY <2>2, EmptySeq
<1> DEFINE e == Nr(g)
<1>11. /\ e \in Nat /\ \A i \in 1 .. x - 1 : u[i].of.nr <= e
       /\ \E i \in 1 .. x - 1 : u[i].of.nr = e
  <2>1. /\ e \in 0 .. n /\ \E i \in 1 .. Len(g) : e = g[i].of.nr
        /\ \A i \in 1 .. Len(g) : g[i].of.nr <= e
    BY <1>1, <1>8, <1>10, Newest
  <2> HIDE DEF e
  <2>2. e \in Nat
    BY <1>1, <2>1
  <2>3. ASSUME NEW i \in 1 .. x - 1 PROVE i \in 1 .. Len(g) /\ g[i] = u[i]
    BY <1>9
  <2>4. ASSUME NEW i \in 1 .. Len(g) PROVE i \in 1 .. x - 1 /\ g[i] = u[i]
    BY <1>9
  <2>5. \A i \in 1 .. x - 1 : u[i].of.nr <= e
    BY <2>1, <2>3
  <2>6. \E i \in 1 .. x - 1 : u[i].of.nr = e
    BY <2>1, <2>4
  <2> QED BY <2>2, <2>5, <2>6
<1>12. /\ UNCHANGED reading
       /\ \/ /\ job' = job
             /\ \E m \in Messages, cut \in BOOLEAN :
                  m.nr = e /\ tx' = [tx EXCEPT ![p] = Written(m, cut)]
          \/ /\ tx' = tx
             /\ \E m \in Messages : m.nr = e /\ job' = [job EXCEPT ![p] = m]
  BY <1>1, <1>6, <1>8, <1>10, ServedAs DEF TypeInv
<1> HIDE DEF e
<1>13. d < e /\ e <= n /\ Requests(B, e, n)
  BY <1>1, <1>2, <1>4, <1>9, <1>11, ToldServed
<1>14. << >> \o B = B
  BY <1>9, ConcatEmptySeq
<1>15. \A q \in Plugs : q # p => /\ rx'[q] = rx[q] /\ message'[q] = message[q]
                                /\ tx'[q] = tx[q] /\ job'[q] = job[q]
  BY <1>6, <1>12 DEF TypeInv, ToldTypes, SaidTypes, BoardTypes
<1>16. Orderly(h, active, p, deviceMessage, ring, tx'[p], job'[p], << >>, B, n)
  <2>1. ASSUME job' = job, NEW m \in Messages, NEW cut \in BOOLEAN, m.nr = e,
               tx' = [tx EXCEPT ![p] = Written(m, cut)]
        PROVE  Orderly(h, active, p, deviceMessage, ring, tx'[p], job'[p], << >>, B, n)
    <3>1. c < m.nr /\ m.nr <= e /\ e <= e
      BY <1>4, <1>11, <1>13, <2>1
    <3>2. Answers(h, active, p, deviceMessage, ring, Written(m, cut), e)
      BY <1>1, <1>4, <1>11, <3>1, AnswersMore
    <3>3. tx'[p] = Written(m, cut) /\ job'[p] = NoMsg
      BY <1>5, <2>1 DEF TypeInv, SaidTypes
    <3> QED BY <1>11, <1>13, <1>14, <3>1, <3>2, <3>3 DEF Orderly
  <2>2. ASSUME tx' = tx, NEW m \in Messages, m.nr = e, job' = [job EXCEPT ![p] = m]
        PROVE  Orderly(h, active, p, deviceMessage, ring, tx'[p], job'[p], << >>, B, n)
    <3>1. c < e /\ c <= e /\ e <= e
      BY <1>4, <1>11, <1>13
    <3>2. tx'[p] = << >> /\ job'[p] = m
      BY <1>5, <2>2 DEF TypeInv, BoardTypes
    <3>3. Answers(h, active, p, deviceMessage, ring, << >>, c)
      BY <1>4, <1>5
    <3> QED BY <1>4, <1>11, <1>13, <1>14, <2>2, <3>1, <3>2, <3>3 DEF Orderly
  <2> QED BY <1>12, <2>1, <2>2
<1>17. OrderlyAt(p)'
  BY <1>6, <1>7, <1>16 DEF OrderlyAt, n, h
<1>18. stale' = FALSE
  BY <1>6 DEF OrderInv
<1> QED BY <1>6, <1>15, <1>17, <1>18, OrderStep

(* The answer that waited for the sensor.                                  *)
LEMMA FirstReadingOrder ==
  ASSUME TypeInv, OrderInv, NEW p \in Plugs, FirstReading(p)
  PROVE  OrderInv'
<1> DEFINE j == job[p]
           h == heard[p].nr
           m == Answer("v", reading'[p], p, j.nr)
<1>1. /\ h \in Nat /\ j.nr \in Nat
      /\ deviceMessage \in Seq(Pieces) /\ ring \in Seq(Pieces)
  <2>1. h \in Nat /\ j.nr \in Nat
    BY TypesAt
  <2> QED BY <2>1, TypesAt
<1>2. Orderly(h, active, p, deviceMessage, ring, tx[p], j, message[p], rx[p], asked[p])
  BY DEF OrderInv, OrderlyAt
<1>3. j # NoMsg
  BY DEF FirstReading
<1>4. PICK c \in Nat, d \in Nat :
        /\ c <= d /\ d <= asked[p]
        /\ Answers(h, active, p, deviceMessage, ring, tx[p], c)
        /\ c < j.nr /\ j.nr <= d
        /\ Requests(message[p] \o rx[p], d, asked[p])
  BY <1>2, <1>3 DEF Orderly
<1>5. m \in Messages /\ m.nr = j.nr
  <2>1. reading'[p] \in Nat
    BY SensorTypes DEF FirstReading, TypeInv
  <2> QED BY <1>1, <2>1, MessageKinds DEF Answer
<1>6. /\ tx' = [tx EXCEPT ![p] = Written(m, FALSE)] /\ job' = [job EXCEPT ![p] = NoMsg]
      /\ UNCHANGED <<heard, stale, active, deviceMessage, ring, message, rx, asked>>
  BY DEF FirstReading, Say, hearVars, seenVars
<1>7. tx'[p] = Written(m, FALSE) /\ job'[p] = NoMsg
  BY <1>6 DEF TypeInv, SaidTypes, BoardTypes
<1> HIDE DEF j, h, m
<1>8. Answers(h, active, p, deviceMessage, ring, Written(m, FALSE), d)
  BY <1>1, <1>4, <1>5, AnswersMore
<1>9. d <= d
  OBVIOUS
<1>10. Orderly(h, active, p, deviceMessage, ring, tx'[p], job'[p], message[p], rx[p], asked[p])
  BY <1>4, <1>7, <1>8, <1>9 DEF Orderly
<1>11. OrderlyAt(p)'
  BY <1>6, <1>10 DEF OrderlyAt, h
<1>12. \A q \in Plugs : q # p => tx'[q] = tx[q] /\ job'[q] = job[q]
  BY <1>6 DEF TypeInv, SaidTypes, BoardTypes
<1>13. stale' = FALSE
  BY <1>6 DEF OrderInv
<1> QED BY <1>6, <1>11, <1>12, <1>13, OrderStep

(* What the board writes reaches the bridge, whole, damaged or not at all, *)
(* behind what it wrote before and ahead of what is left.                  *)
LEMMA WriteOrder ==
  ASSUME TypeInv, OrderInv, NEW p \in Plugs, Write(p)
  PROVE  OrderInv'
<1> DEFINE T == tx[p]
           k == Chunk(T)
           C == SubSeq(T, 1, k)
           B == Beyond(T, k)
           h == heard[p].nr
<1>1. /\ T \in Seq(Pieces) /\ deviceMessage \in Seq(Pieces) /\ ring \in Seq(Pieces)
  BY TypesAt
<1>2. k \in 0 .. Len(T) /\ Len(T) \in Nat
  BY ChunkPart DEF TypeInv
<1>3. Orderly(h, active, p, deviceMessage, ring, T, job[p], message[p], rx[p], asked[p])
  BY DEF OrderInv, OrderlyAt
<1>4. PICK c \in Nat, d \in Nat :
        /\ c <= d /\ d <= asked[p]
        /\ Answers(h, active, p, deviceMessage, ring, T, c)
        /\ job[p] # NoMsg => T = << >>
        /\ Requests(message[p] \o rx[p], d, asked[p])
  BY <1>3 DEF Orderly
<1>5. T # << >>
  BY DEF Write
<1>6. /\ tx' = [tx EXCEPT ![p] = B]
      /\ \/ ring' = IF active = p THEN ring \o C ELSE ring
         \/ active = p /\ \E s \in Damaged(C) : ring' = ring \o s
      /\ UNCHANGED <<heard, stale, active, deviceMessage, job, message, rx, asked>>
  BY DEF Write, seenVars
<1>7. tx'[p] = B
  BY <1>6 DEF TypeInv, SaidTypes
<1> HIDE DEF T, k, h
<1>8. k \in Nat /\ k + 1 \in 1 .. Len(T) + 1 /\ k + 1 - 1 = k
  BY <1>2
<1>9. /\ C \in Seq(Pieces) /\ Len(C) = k
      /\ \A i \in 1 .. k : i \in 1 .. Len(T) /\ C[i] = T[i]
  <2>1. C = Upto(T, k + 1)
    BY <1>8 DEF Upto
  <2> HIDE DEF C
  <2>2. /\ Upto(T, k + 1) \in Seq(Pieces) /\ Len(Upto(T, k + 1)) = k + 1 - 1
        /\ \A i \in 1 .. k + 1 - 1 : i \in 1 .. Len(T) /\ Upto(T, k + 1)[i] = T[i]
    BY <1>1, <1>8, UptoPart
  <2> QED BY <1>8, <2>1, <2>2
<1>10. /\ B \in Seq(Pieces)
       /\ \A i \in 1 .. Len(B) : i + k \in 1 .. Len(T) /\ B[i] = T[i + k]
  BY <1>1, <1>2, BeyondPart
<1> HIDE DEF C, B
<1>11. Left(B, T)
  BY <1>1, <1>8, <1>10, PartLeft
<1>12. Left(C, T)
  <2>1. \A i \in 1 .. Len(C) : i + 0 = i
    BY <1>8, <1>9
  <2>2. \A i \in 1 .. Len(C) : i + 0 \in 1 .. Len(T) /\ C[i] = T[i + 0]
    BY <1>9, <2>1
  <2> QED BY <1>1, <1>9, <2>2, PartLeft
<1>13. Answers(h, active, p, deviceMessage, ring', B, c)
  <2>1. CASE active # p
    <3>1. Answers(h, active, p, deviceMessage, ring, B, c)
      BY <1>4, <1>11, <2>1, AnswersLeft
    <3> QED BY <2>1, <3>1 DEF Answers
  <2>2. CASE active = p
    <3>1. PICK s : s \in Damaged(C) \cup {C} /\ ring' = ring \o s
      BY <1>6, <2>2
    <3>2. s \in Seq(Pieces)
      BY <1>9, <3>1, NoiseIn
    <3>3. Left(s, C)
      BY <1>9, <3>1, <3>2, DamagedLeft, SameLeft
    <3>4. /\ h <= c /\ Rising(deviceMessage, h, c) /\ Rising(ring, h, c) /\ Rising(T, h, c)
          /\ Before(deviceMessage, ring) /\ Before(deviceMessage, T) /\ Before(ring, T)
      BY <1>4, <2>2 DEF Answers
    <3>5. /\ Rising(C, h, c) /\ Rising(B, h, c)
          /\ Before(deviceMessage, C) /\ Before(deviceMessage, B) /\ Before(ring, C) /\ Before(ring, B)
      BY <1>11, <1>12, <3>4, LeftRising, LeftBefore
    <3>6. Before(C, B)
      <4>1. k <= k
        BY <1>8
      <4> QED BY <1>1, <1>8, <1>9, <1>10, <3>4, <4>1, PartsBefore
    <3>7. Rising(s, h, c) /\ Before(deviceMessage, s) /\ Before(ring, s) /\ Before(s, B)
      BY <3>3, <3>5, <3>6, LeftRising, LeftBefore
    <3>8. /\ Rising(ring \o s, h, c) /\ Before(deviceMessage, ring \o s)
          /\ Before(ring \o s, B)
      BY <1>1, <3>2, <3>4, <3>5, <3>7, RisingJoined, BeforeJoined
    <3> QED BY <3>1, <3>4, <3>5, <3>8 DEF Answers
  <2> QED BY <2>1, <2>2
<1>14. Orderly(h, active, p, deviceMessage, ring', B, job[p], message[p], rx[p], asked[p])
  BY <1>4, <1>5, <1>13 DEF Orderly
<1>15. OrderlyAt(p)'
  BY <1>6, <1>7, <1>14 DEF OrderlyAt, h
<1>16. \A q \in Plugs : q # p => tx'[q] = tx[q]
  BY <1>6 DEF TypeInv, SaidTypes
<1>17. active' = p \/ (active' = active /\ deviceMessage' = deviceMessage /\ ring' = ring)
  BY <1>6
<1>18. stale' = FALSE
  BY <1>6 DEF OrderInv
<1> QED BY <1>6, <1>15, <1>16, <1>17, <1>18, OrderStep

LEMMA PowerCutOrder ==
  ASSUME TypeInv, OrderInv, NEW p \in Plugs, PowerCut(p)
  PROVE  OrderInv'
<1> DEFINE h == heard[p].nr
<1>1. deviceMessage \in Seq(Pieces) /\ ring \in Seq(Pieces)
  BY TypesAt
<1>2. Orderly(h, active, p, deviceMessage, ring, tx[p], job[p], message[p], rx[p], asked[p])
  BY DEF OrderInv, OrderlyAt
<1>3. PICK c \in Nat, d \in Nat :
        c <= d /\ d <= asked[p] /\ Answers(h, active, p, deviceMessage, ring, tx[p], c)
  BY <1>2 DEF Orderly
<1>4. /\ rx' = [rx EXCEPT ![p] = << >>] /\ message' = [message EXCEPT ![p] = << >>]
      /\ job' = [job EXCEPT ![p] = NoMsg] /\ tx' = [tx EXCEPT ![p] = << >>]
      /\ UNCHANGED <<heard, stale, active, deviceMessage, ring, asked>>
  BY DEF PowerCut, hearVars, seenVars
<1>5. rx'[p] = << >> /\ message'[p] = << >> /\ job'[p] = NoMsg /\ tx'[p] = << >>
  BY <1>4 DEF TypeInv, ToldTypes, SaidTypes, BoardTypes
<1> HIDE DEF h
<1>6. Answers(h, active, p, deviceMessage, ring, << >>, c)
  BY <1>1, <1>3, NothingLeft, SameLeft, AnswersLeft
<1>7. Requests(<< >> \o << >>, d, asked[p])
  <2>1. Len(<< >>) = 0 /\ << >> \o << >> = << >>
    BY EmptySeq, ConcatEmptySeq
  <2> QED BY <2>1 DEF Requests
<1>8. Orderly(h, active, p, deviceMessage, ring, << >>, NoMsg, << >>, << >>, asked[p])
  BY <1>3, <1>6, <1>7 DEF Orderly
<1>9. OrderlyAt(p)'
  BY <1>4, <1>5, <1>8 DEF OrderlyAt, h
<1>10. \A q \in Plugs : q # p => /\ rx'[q] = rx[q] /\ message'[q] = message[q]
                                /\ job'[q] = job[q] /\ tx'[q] = tx[q]
  BY <1>4 DEF TypeInv, ToldTypes, SaidTypes, BoardTypes
<1>11. stale' = FALSE
  BY <1>4 DEF OrderInv
<1> QED BY <1>4, <1>9, <1>10, <1>11, OrderStep

(* The other steps ask, answer and pass on nothing.                        *)
LEMMA SameOrder ==
  ASSUME OrderInv,
         UNCHANGED <<heard, stale, active, deviceMessage, ring, tx, job, message, rx, asked>>
  PROVE  OrderInv'
BY DEF OrderInv, OrderlyAt

LEMMA OrderInvNext == TypeInv /\ OrderInv /\ [Next]_vars => OrderInv'
<1> SUFFICES ASSUME TypeInv, OrderInv, [Next]_vars PROVE OrderInv'
  OBVIOUS
<1>1. CASE PassOn \/ Poll
  BY <1>1, PassOnOrder, PollOrder
<1>2. CASE PollHears \/ LoopHears
  BY <1>2, PollHearsOrder, LoopHearsOrder
<1>3. ASSUME UNCHANGED <<hearVars, boardVars, seenVars>> PROVE OrderInv'
  BY <1>3, SameOrder DEF hearVars, boardVars, wireVars, seenVars
<1>4. CASE \/ PollOnCommand \/ RepeatOnCommand \/ NoMoreInput \/ RepeatDue \/ RepeatNotDue
           \/ PollTimesOut \/ LoopHearsNothing \/ UNCHANGED vars
  BY <1>3, <1>4 DEF PollOnCommand, RepeatOnCommand, NoMoreInput, RepeatDue, RepeatNotDue,
     PollTimesOut, LoopHearsNothing, vars
<1>5. ASSUME NEW p \in Plugs, Board(p) PROVE OrderInv'
  <2>1. CASE PowerCut(p)
    BY <2>1, PowerCutOrder
  <2>2. CASE ReadMarker(p) \/ WriteId(p)
    BY <2>2, SameOrder DEF ReadMarker, WriteId, hearVars, wireVars, seenVars
  <2>3. CASE TakeBytes(p) \/ TakeLine(p)
    BY <2>3, TakeBytesOrder, TakeLineOrder
  <2>4. CASE FirstReading(p)
    BY <2>4, FirstReadingOrder
  <2>5. CASE PauseEnds(p)
    BY <2>5, SameOrder DEF PauseEnds, hearVars, seenVars
  <2>6. CASE Write(p)
    BY <2>6, WriteOrder
  <2> QED BY <1>5, <2>1, <2>2, <2>3, <2>4, <2>5, <2>6 DEF Board
<1> QED BY <1>1, <1>2, <1>4, <1>5 DEF Next, Bridge

(* The numbers of the requests rise along the way of every answer, from    *)
(* what was passed on to what the board has been told.                     *)
THEOREM OrderInvHolds == Spec => []OrderInv
BY TypeInvHolds, OrderInvInit, OrderInvNext, PTL DEF Spec

(* A board's answers are passed on in the order of the requests, each at   *)
(* most once, whatever lines are lost or damaged.                          *)
THEOREM ForwardedInOrderHolds == Spec => []ForwardedInOrder
<1>1. OrderInv => ForwardedInOrder
  BY DEF OrderInv, ForwardedInOrder
<1> QED BY <1>1, OrderInvHolds, PTL

-----------------------------------------------------------------------------
(* Silence.  After one exchange without disturbance the board has read all *)
(* that it was told and holds no half line, and the bridge has listened to *)
(* another plug since: nothing is left over that could spoil the next one. *)
Settled(g, r) ==
  /\ g # << >> => \E k \in 1 .. Len(r) : r[k].t = "cr"
  /\ \A j \in 1 .. Len(r) : r[j].t # "lf" => \E k \in j .. Len(r) : r[k].t = "cr"

(* The first line end of r is that of a whole answer with number n.        *)
Ends(r, n) ==
  \E k \in 1 .. Len(r) :
    /\ r[k].t = "cr" /\ \A j \in 1 .. k - 1 : r[j].t \notin {"cr", "lf"}
    /\ ChecksumOk(Upto(r, k)) /\ Content(Upto(r, k)).nr = n

(* doPolling()'s request m, as it arrives.                                 *)
IsRequest(r, m) ==
  Len(r) = 4 /\ r[1] = Piece("cmd", m) /\ r[2] = Piece("sum", m) /\ r[3] = CR /\ r[4] = LF

HasRequest(p) ==
  /\ message[p] = << >> /\ tx[p] = << >> /\ ~after[p]
  /\ \E c \in {"v", "m"} : IsRequest(rx[p], Request(c, 0, asked[p]))

(* An exchange without disturbance: the board has the request, has its     *)
(* answer to write, or has written it up to its CR at least.               *)
InExchange(p) ==
  /\ deviceMessage = << >>
  /\ \/ /\ ring = << >> /\ power[p] = "up" /\ job[p] = NoMsg
        /\ HasRequest(p) \/ Ends(tx[p], asked[p])
     \/ Ends(ring, asked[p])

SettledAt(p) ==
  calm[p] = 2 \/ (calm[p] = 1 /\ waiting /\ cur = p) => Settled(message[p], rx[p])

ExchangeAt(p) == waiting /\ cur = p /\ calm[p] = 2 => InExchange(p)

(* The bridge does not listen to the plug that it polls next, unless that  *)
(* plug was disturbed.                                                     *)
ListensElsewhere ==
  \A p \in Plugs : ~waiting /\ active = p /\ (cur = p \/ (cur = 0 /\ p = 1)) => calm[p] = 0

CalmInv ==
  /\ calm \in [Plugs -> 0 .. 2] /\ after \in [Plugs -> BOOLEAN]
  /\ ListensElsewhere
  /\ \A p \in Plugs : SettledAt(p) /\ ExchangeAt(p)

LEMMA CalmInvInit == Init => CalmInv
<1> SUFFICES ASSUME Init PROVE CalmInv
  OBVIOUS
<1>1. calm \in [Plugs -> 0 .. 2] /\ after \in [Plugs -> BOOLEAN]
  BY DEF Init
<1>2. ListensElsewhere
  <2>1. active = MAX_DEVICE_COUNT /\ MAX_DEVICE_COUNT # 1 /\ MAX_DEVICE_COUNT # 0
    BY MessageKinds DEF Init
  <2>2. cur = 0
    BY DEF Init
  <2>3. \A p \in Plugs : p # 0
    BY MessageKinds DEF Plugs
  <2> QED BY <2>1, <2>2, <2>3 DEF ListensElsewhere
<1>3. ASSUME NEW p \in Plugs PROVE SettledAt(p) /\ ExchangeAt(p)
  <2>1. message[p] = << >> /\ rx[p] = << >> /\ ~waiting
    BY DEF Init
  <2>2. Len(<< >>) = 0
    BY EmptySeq
  <2>3. Settled(<< >>, << >>)
    BY <2>2 DEF Settled
  <2> QED BY <2>1, <2>3 DEF SettledAt, ExchangeAt
<1> QED BY <1>1, <1>2, <1>3 DEF CalmInv

(* A whole answer.                                                         *)
LEMMA ReplyEnds ==
  ASSUME NEW m \in Messages
  PROVE  Ends(Written(m, FALSE), m.nr) /\ Written(m, FALSE) \in Seq(Pieces)
<1> DEFINE b == Body(m)
           q == <<Piece("sum", m), CR, LF>>
           w == Written(m, FALSE)
<1>1. /\ Piece("cmd", m) \in Pieces /\ Piece("arg", m) \in Pieces /\ Piece("sum", m) \in Pieces
      /\ CR \in Pieces /\ LF \in Pieces
  BY MessageKinds DEF Piece, CR, LF, Pieces
<1> DEFINE S == Pieces
<1> HIDE DEF S
<1>2. \A x, y, z \in S :
        /\ <<x>> \in Seq(S) /\ <<x, y>> \in Seq(S) /\ <<x, y, z>> \in Seq(S)
        /\ Len(<<x>>) = 1 /\ Len(<<x, y>>) = 2 /\ Len(<<x, y, z>>) = 3
  OBVIOUS
<1>3. /\ Piece("cmd", m) \in S /\ Piece("arg", m) \in S /\ Piece("sum", m) \in S
      /\ CR \in S /\ LF \in S
  BY <1>1 DEF S
<1>4. q \in Seq(S) /\ Len(q) = 3 /\ q[1] = Piece("sum", m) /\ q[2] = CR /\ q[3] = LF
  BY <1>2, <1>3
<1>5. /\ b \in Seq(S) /\ Len(b) \in {1, 2} /\ b[1] = Piece("cmd", m)
      /\ Len(b) = 2 => b[2] = Piece("arg", m)
  <2>1. CASE HasArg(m)
    <3>1. b = <<Piece("cmd", m), Piece("arg", m)>>
      BY <2>1 DEF Body
    <3> HIDE DEF b
    <3> QED BY <1>2, <1>3, <3>1
  <2>2. CASE ~HasArg(m)
    <3>1. b = <<Piece("cmd", m)>>
      BY <2>2 DEF Body
    <3> HIDE DEF b
    <3> QED BY <1>2, <1>3, <3>1
  <2> QED BY <2>1, <2>2
<1>6. w = b \o q
  BY DEF Written
<1> HIDE DEF b, q, w
<1> DEFINE a == Len(b)
           k == a + 2
<1>7. /\ w \in Seq(S) /\ Len(w) = a + 3
      /\ \A i \in 1 .. a + 3 : w[i] = IF i <= a THEN b[i] ELSE q[i - a]
  <2>1. /\ w \in Seq(S) /\ Len(w) = Len(b) + Len(q)
        /\ \A i \in 1 .. Len(b) + Len(q) : w[i] = IF i <= Len(b) THEN b[i] ELSE q[i - Len(b)]
    BY <1>4, <1>5, <1>6, ConcatProperties
  <2> QED BY <1>4, <2>1
<1>8. a \in {1, 2} /\ k \in 1 .. a + 3 /\ k - 1 = a + 1
  BY <1>5
<1>9. w[a + 1] = Piece("sum", m) /\ w[k] = CR /\ \A i \in 1 .. a : w[i] = b[i]
  <2>1. w[a + 1] = q[1]
    BY <1>7, <1>8
  <2>2. w[k] = q[2]
    BY <1>7, <1>8
  <2>3. ASSUME NEW i \in 1 .. a PROVE w[i] = b[i]
    <3>1. i \in 1 .. a + 3 /\ i <= a
      BY <1>8
    <3> QED BY <1>7, <3>1
  <2> QED BY <1>4, <2>1, <2>2, <2>3
<1>10. \A i \in 1 .. a : w[i].t \notin {"sum", "cr", "lf"}
  <2>1. b[1].t = "cmd" /\ (a = 2 => b[2].t = "arg")
    BY <1>5 DEF Piece
  <2>2. \A i \in 1 .. a : i = 1 \/ (i = 2 /\ a = 2)
    <3> HIDE DEF a
    <3> QED BY <1>8
  <2> QED BY <1>9, <2>1, <2>2
<1>11. w \in Seq(Pieces)
  BY <1>7 DEF S
<1> DEFINE s == Upto(w, k)
<1>12. s \in Seq(Pieces) /\ Len(s) = a + 1 /\ \A i \in 1 .. a + 1 : s[i] = w[i]
  <2>1. k \in 1 .. Len(w) + 1
    BY <1>7, <1>8
  <2>2. s \in Seq(Pieces) /\ Len(s) = k - 1 /\ \A i \in 1 .. k - 1 : s[i] = w[i]
    BY <1>11, <2>1, UptoPart
  <2> QED BY <1>8, <2>2
<1> HIDE DEF k, s
<1>13. s[a + 1] = Piece("sum", m) /\ \A i \in 1 .. a : s[i] = b[i] /\ s[i].t # "sum"
  <2>1. a + 1 \in 1 .. a + 1 /\ \A i \in 1 .. a : i \in 1 .. a + 1
    BY <1>8
  <2> QED BY <1>9, <1>10, <1>12, <2>1
<1>14. Sums(s) = {a + 1}
  <2>1. s[a + 1].t = "sum"
    BY <1>13 DEF Piece
  <2>2. \A i \in 1 .. a + 1 : i = a + 1 \/ i \in 1 .. a
    BY <1>8
  <2>3. a + 1 \in 1 .. a + 1
    BY <1>8
  <2> QED BY <1>12, <1>13, <2>1, <2>2, <2>3 DEF Sums
<1>15. Fits(s, a + 1)
  <2> DEFINE e == SubSeq(s, 1, a + 1 - 1)
  <2>1. a + 1 \in 1 .. Len(s) + 1 /\ a + 1 - 1 = a
    BY <1>8, <1>12
  <2>2. e = Upto(s, a + 1)
    BY DEF Upto
  <2> HIDE DEF e
  <2>3. /\ Upto(s, a + 1) \in Seq(Pieces) /\ Len(Upto(s, a + 1)) = a + 1 - 1
        /\ \A i \in 1 .. a + 1 - 1 : i \in 1 .. Len(s) /\ Upto(s, a + 1)[i] = s[i]
    <3> DEFINE x == a + 1
    <3>1. x \in 1 .. Len(s) + 1
      BY <2>1
    <3> HIDE DEF x
    <3>2. /\ Upto(s, x) \in Seq(Pieces) /\ Len(Upto(s, x)) = x - 1
          /\ \A i \in 1 .. x - 1 : i \in 1 .. Len(s) /\ Upto(s, x)[i] = s[i]
      BY <1>12, <3>1, UptoPart
    <3> QED BY <3>2 DEF x
  <2>4. e \in Seq(Pieces) /\ Len(e) = a /\ \A i \in 1 .. a : e[i] = s[i]
    BY <2>1, <2>2, <2>3
  <2>5. b \in Seq(Pieces) /\ Len(b) = a
    BY <1>5 DEF S
  <2>6. \A i \in 1 .. a : e[i] = b[i]
    BY <1>13, <2>4
  <2>7. e = b
    <3> HIDE DEF a
    <3> QED BY <2>4, <2>5, <2>6, SeqEqual
  <2>8. s[a + 1].of = m
    BY <1>13 DEF Piece
  <2> QED BY <2>7, <2>8 DEF Fits, e, b
<1>16. ChecksumOk(s)
  <2>1. a + 1 <= a + 1
    BY <1>8
  <2> QED BY <1>14, <1>15, <2>1 DEF ChecksumOk
<1>17. Content(s) = m
  <2>1. a + 1 <= a + 1
    BY <1>8
  <2>2. (CHOOSE c \in Sums(s) : \A j \in Sums(s) : c <= j) = a + 1
    BY <1>14, <2>1
  <2>3. Content(s) = s[a + 1].of
    BY <2>2 DEF Content
  <2>4. s[a + 1].of = m
    BY <1>13 DEF Piece
  <2> QED BY <2>3, <2>4
<1>18. \A i \in 1 .. k - 1 : w[i].t \notin {"cr", "lf"}
  <2>1. w[a + 1].t = "sum"
    BY <1>9 DEF Piece
  <2>2. \A i \in 1 .. k - 1 : i = a + 1 \/ i \in 1 .. a
    BY <1>8 DEF k
  <2> QED BY <1>10, <2>1, <2>2
<1>19. k \in 1 .. Len(w) /\ w[k].t = "cr"
  <2>1. w[k].t = "cr"
    BY <1>9 DEF CR, Piece
  <2> QED BY <1>7, <1>8, <2>1
<1>20. Ends(w, m.nr)
  BY <1>16, <1>17, <1>18, <1>19 DEF Ends, s
<1> QED BY <1>11, <1>20 DEF w

(* The answer's end stays its end when more arrives, and is in the part of *)
(* an answer that is written first.                                        *)
LEMMA EndsIn ==
  ASSUME NEW r \in Seq(Pieces), NEW v \in Seq(Pieces), NEW n,
         NEW k \in 1 .. Len(r), r[k].t = "cr", \A j \in 1 .. k - 1 : r[j].t \notin {"cr", "lf"},
         ChecksumOk(Upto(r, k)), Content(Upto(r, k)).nr = n,
         k <= Len(v), \A i \in 1 .. k : v[i] = r[i]
  PROVE  Ends(v, n)
<1>1. Len(r) \in Nat /\ Len(v) \in Nat
  BY Numbers
<1>2. k \in 1 .. Len(v) /\ k \in 1 .. Len(r) + 1 /\ k \in 1 .. Len(v) + 1 /\ k \in 1 .. k
  BY <1>1
<1>3. \A i \in 1 .. k - 1 : i \in 1 .. k
  BY <1>2
<1>4. /\ Upto(r, k) \in Seq(Pieces) /\ Len(Upto(r, k)) = k - 1
      /\ \A i \in 1 .. k - 1 : Upto(r, k)[i] = r[i]
  BY <1>2, UptoPart
<1>5. /\ Upto(v, k) \in Seq(Pieces) /\ Len(Upto(v, k)) = k - 1
      /\ \A i \in 1 .. k - 1 : Upto(v, k)[i] = v[i]
  BY <1>2, UptoPart
<1>6. \A i \in 1 .. k - 1 : Upto(v, k)[i] = Upto(r, k)[i]
  BY <1>3, <1>4, <1>5
<1> DEFINE e == Upto(v, k)
           f == Upto(r, k)
<1> HIDE DEF e, f
<1>7. e = f
  BY <1>4, <1>5, <1>6, SeqEqual DEF e, f
<1>8. v[k].t = "cr" /\ \A j \in 1 .. k - 1 : v[j].t \notin {"cr", "lf"}
  BY <1>2, <1>3
<1> QED BY <1>2, <1>7, <1>8 DEF Ends, e, f

LEMMA EndsMore ==
  ASSUME NEW r \in Seq(Pieces), NEW x \in Seq(Pieces), NEW n, Ends(r, n)
  PROVE  Ends(r \o x, n)
<1>1. PICK k \in 1 .. Len(r) :
        /\ r[k].t = "cr" /\ \A j \in 1 .. k - 1 : r[j].t \notin {"cr", "lf"}
        /\ ChecksumOk(Upto(r, k)) /\ Content(Upto(r, k)).nr = n
  BY DEF Ends
<1> DEFINE v == r \o x
<1>2. /\ v \in Seq(Pieces) /\ Len(v) = Len(r) + Len(x)
      /\ \A i \in 1 .. Len(r) + Len(x) : v[i] = IF i <= Len(r) THEN r[i] ELSE x[i - Len(r)]
  BY ConcatProperties
<1> HIDE DEF v
<1>3. Len(r) \in Nat /\ Len(x) \in Nat
  BY Numbers
<1>4. k <= Len(v)
  BY <1>2, <1>3
<1>5. ASSUME NEW i \in 1 .. k PROVE v[i] = r[i]
  <2>1. i \in 1 .. Len(r) + Len(x) /\ i <= Len(r)
    BY <1>3
  <2> QED BY <1>2, <2>1
<1>6. Ends(v, n)
  BY <1>1, <1>2, <1>4, <1>5, EndsIn
<1> QED BY <1>6 DEF v

LEMMA EndsHeard ==
  ASSUME NEW r \in Seq(Pieces), NEW n, Ends(r, n)
  PROVE  LET k == FirstOf(Control(r)) IN
         /\ Control(r) # {} /\ k \in 1 .. Len(r) /\ r[k].t = "cr"
         /\ \A j \in 1 .. k - 1 : r[j].t \notin {"cr", "lf"}
         /\ ChecksumOk(Upto(r, k)) /\ Content(Upto(r, k)).nr = n /\ Upto(r, k) # << >>
<1>1. PICK x \in 1 .. Len(r) :
        /\ r[x].t = "cr" /\ \A j \in 1 .. x - 1 : r[j].t \notin {"cr", "lf"}
        /\ ChecksumOk(Upto(r, x)) /\ Content(Upto(r, x)).nr = n
  BY DEF Ends
<1>2. Len(r) \in Nat /\ Control(r) \subseteq 1 .. Len(r) /\ x \in Control(r)
  BY <1>1, Numbers DEF Control
<1> DEFINE k == FirstOf(Control(r))
<1>3. k \in Control(r) /\ k <= x
  BY <1>2, FirstIsOne
<1>4. r[k].t \in {"cr", "lf"} /\ k \in 1 .. Len(r)
  BY <1>3 DEF Control
<1> HIDE DEF k
<1>5. k = x
  <2>1. ~(k \in 1 .. x - 1)
    BY <1>1, <1>4
  <2> QED BY <1>2, <1>3, <1>4, <2>1
<1>6. Upto(r, x) # << >>
  <2>1. PICK j \in 1 .. Len(Upto(r, x)) : TRUE
    BY <1>1 DEF ChecksumOk, Sums
  <2> QED BY <2>1, EmptySeq
<1>7. k = FirstOf(Control(r))
  BY DEF k
<1> QED BY <1>1, <1>2, <1>5, <1>6, <1>7

LEMMA ChunkEnds ==
  ASSUME NEW s \in Seq(Pieces), NEW n, Ends(s, n)
  PROVE  Ends(SubSeq(s, 1, Chunk(s)), n) /\ SubSeq(s, 1, Chunk(s)) \in Seq(Pieces)
<1> DEFINE k == Chunk(s)
           C == SubSeq(s, 1, k)
<1>1. k = FirstOf(Control(s))
  BY EndsHeard DEF Chunk
<1>2. /\ k \in 1 .. Len(s) /\ s[k].t = "cr"
      /\ \A j \in 1 .. k - 1 : s[j].t \notin {"cr", "lf"}
      /\ ChecksumOk(Upto(s, k)) /\ Content(Upto(s, k)).nr = n
  BY <1>1, EndsHeard
<1> HIDE DEF k
<1>3. Len(s) \in Nat /\ k \in Nat /\ k + 1 \in 1 .. Len(s) + 1 /\ k + 1 - 1 = k /\ k <= k
  <2>1. Len(s) \in Nat
    BY Numbers
  <2> QED BY <1>2, <2>1
<1>4. C = Upto(s, k + 1)
  BY <1>3 DEF Upto
<1> HIDE DEF C
<1>5. /\ Upto(s, k + 1) \in Seq(Pieces) /\ Len(Upto(s, k + 1)) = k + 1 - 1
      /\ \A i \in 1 .. k + 1 - 1 : i \in 1 .. Len(s) /\ Upto(s, k + 1)[i] = s[i]
  BY <1>3, UptoPart
<1>6. C \in Seq(Pieces) /\ k <= Len(C) /\ \A i \in 1 .. k : C[i] = s[i]
  BY <1>3, <1>4, <1>5
<1>7. Ends(C, n)
  BY <1>2, <1>6, EndsIn
<1> QED BY <1>6, <1>7 DEF C, k

(* doPolling()'s request, as an empty receive buffer takes it.             *)
LEMMA RequestArrives ==
  ASSUME NEW c \in {"v", "m"}, NEW n \in Nat, n # 0
  PROVE  LET m == Request(c, 0, n)
             w == Cut(<< >> \o Written(m, FALSE), RxBuff) IN
         IsRequest(w, m) /\ w \in Seq(Pieces)
<1> DEFINE m == Request(c, 0, n)
           w == Written(m, FALSE)
<1>1. m \in Messages /\ m.nr = n /\ m.nr # 0 /\ ~HasArg(m)
  BY MessageKinds DEF Request, HasArg
<1> HIDE DEF m
<1>2. IsRequest(w, m)
  <2>1. FALSE \in BOOLEAN
    OBVIOUS
  <2>2. PICK l \in {4, 5} :
           /\ Len(w) = l /\ w[1] = Piece("cmd", m) /\ w[l - 2] = Piece("sum", m)
           /\ w[l - 1] = CR /\ w[l] = LF
           /\ l = 5 => w[2] \in {Piece("arg", m), Junk} /\ (FALSE \/ HasArg(m))
    BY <1>1, <2>1, WrittenShape
  <2> HIDE DEF w
  <2>3. l = 4 /\ l - 2 = 2 /\ l - 1 = 3
    BY <1>1, <2>2
  <2>4. Len(w) = 4 /\ w[1] = Piece("cmd", m) /\ w[4] = LF
    BY <2>2, <2>3
  <2>5. w[2] = Piece("sum", m) /\ w[3] = CR
    BY <2>2, <2>3
  <2> QED BY <2>4, <2>5 DEF IsRequest
<1>3. w \in Seq(Pieces)
  BY <1>1, ReplyEnds
<1> HIDE DEF w
<1>4. << >> \o w = w
  BY <1>3, ConcatEmptySeq
<1>5. Len(w) = 4 /\ RxBuff \in Nat /\ 4 <= RxBuff
  BY <1>2, BridgeAssumption DEF IsRequest
<1>6. Cut(w, RxBuff) = SubSeq(w, 1, 4)
  BY <1>5 DEF Cut
<1>7. \A i \in 1 .. 4 : w[i] \in Pieces
  BY <1>3, <1>5, LenProperties
<1> DEFINE u == SubSeq(w, 1, 4)
<1>8. /\ u \in Seq(Pieces) /\ Len(u) = (IF 1 <= 4 THEN 4 - 1 + 1 ELSE 0)
      /\ \A i \in 1 .. 4 - 1 + 1 : u[i] = w[1 + i - 1]
  BY <1>7, SubSeqProperties
<1> HIDE DEF u
<1>9. Len(u) = 4 /\ \A i \in 1 .. 4 : u[i] = w[i]
  BY <1>8
<1>10. IsRequest(u, m)
  BY <1>2, <1>9 DEF IsRequest
<1> QED BY <1>4, <1>6, <1>8, <1>10 DEF u, m, w

(* It is one line, and settled whatever the board held before.             *)
LEMMA RequestRead ==
  ASSUME NEW r, NEW m, IsRequest(r, m)
  PROVE  /\ Control(r) # {} /\ FirstOf(Control(r)) = 3 /\ r[3].t = "cr"
         /\ \A g : Settled(g, r)
<1>1. Len(r) = 4 /\ r[1].t = "cmd" /\ r[2].t = "sum" /\ r[3].t = "cr" /\ r[4].t = "lf"
  BY DEF IsRequest, Piece, CR, LF
<1>2. \A j \in 1 .. 4 : j = 1 \/ j = 2 \/ j = 3 \/ j = 4
  OBVIOUS
<1>3. Control(r) = {3, 4}
  BY <1>1, <1>2 DEF Control
<1>4. FirstOf({3, 4}) = 3
  BY DEF FirstOf
<1>5. \A j \in 1 .. 4 : r[j].t # "lf" => 3 \in j .. 4
  BY <1>1, <1>2
<1>6. 3 \in 1 .. Len(r)
  BY <1>1
<1>7. \A g : Settled(g, r)
  BY <1>1, <1>5, <1>6 DEF Settled
<1> QED BY <1>1, <1>3, <1>4, <1>7

-----------------------------------------------------------------------------
(* Steps.  One that leaves the board and the line of a plug alone.         *)
LEMMA SameCalm ==
  ASSUME CalmInv, UNCHANGED <<waiting, active, calm, message, rx, after>>,
         cur' = cur \/ (cur = 0 /\ cur' = 1 /\ ~waiting),
         waiting => UNCHANGED <<ring, deviceMessage, power, job, tx, asked>>
  PROVE  CalmInv'
<1>1. ListensElsewhere'
  BY DEF CalmInv, ListensElsewhere
<1>2. ASSUME NEW p \in Plugs PROVE SettledAt(p)' /\ ExchangeAt(p)'
  <2>1. SettledAt(p) /\ ExchangeAt(p)
    BY DEF CalmInv
  <2>2. SettledAt(p)'
    BY <2>1 DEF SettledAt
  <2>3. CASE ~waiting
    BY <2>2, <2>3 DEF ExchangeAt
  <2>4. CASE waiting
    BY <2>1, <2>2, <2>4 DEF ExchangeAt, InExchange, HasRequest
  <2> QED BY <2>2, <2>3, <2>4
<1> QED BY <1>1, <1>2 DEF CalmInv

LEMMA NextPlugCalm ==
  ASSUME TypeInv, CalmInv, waiting, NextPlug, UNCHANGED <<active, message, rx, after>>
  PROVE  CalmInv'
<1>1. cur \in Plugs /\ active = cur /\ cur \in Nat
  BY MessageKinds DEF TypeInv, BridgeTypes, Plugs
<1>2. calm[cur] \in 0 .. 2 /\ ~waiting'
  BY <1>1 DEF CalmInv, NextPlug
<1> DEFINE x == IF calm[cur] < 2 THEN calm[cur] + 1 ELSE calm[cur]
<1>3. x \in 0 .. 2 /\ (x = 2 => calm[cur] = 2 \/ calm[cur] = 1) /\ calm' = [calm EXCEPT ![cur] = x]
  BY <1>2 DEF NextPlug
<1> HIDE DEF x
<1>4. calm' \in [Plugs -> 0 .. 2] /\ calm'[cur] = x /\ \A p \in Plugs : p # cur => calm'[p] = calm[p]
  BY <1>1, <1>3 DEF CalmInv
<1>5. ListensElsewhere'
  <2>1. CASE cur < MAX_DEVICE_COUNT
    <3>1. cur' = cur + 1 /\ cur' # cur /\ cur' # 0
      BY <1>1, <2>1 DEF NextPlug
    <3> QED BY <1>1, <3>1 DEF ListensElsewhere
  <2>2. CASE ~(cur < MAX_DEVICE_COUNT)
    <3>1. cur' = 0 /\ cur # 1 /\ cur # 0
      BY <1>1, <2>2, MessageKinds DEF NextPlug, Plugs
    <3> QED BY <1>1, <3>1 DEF ListensElsewhere
  <2> QED BY <2>1, <2>2
<1>6. ASSUME NEW p \in Plugs PROVE SettledAt(p)' /\ ExchangeAt(p)'
  <2>1. SettledAt(p)
    BY DEF CalmInv
  <2>2. CASE p = cur
    BY <1>2, <1>3, <1>4, <2>1, <2>2 DEF SettledAt, ExchangeAt
  <2>3. CASE p # cur
    BY <1>2, <1>4, <2>1, <2>3 DEF SettledAt, ExchangeAt
  <2> QED BY <2>2, <2>3
<1> QED BY <1>4, <1>5, <1>6 DEF CalmInv

LEMMA PassOnCalm == ASSUME TypeInv, CalmInv, PassOn PROVE CalmInv'
<1>1. PICK o \in Orders : \E noise \in BOOLEAN :
        /\ Listen(o.plug) /\ calm' = [calm EXCEPT ![o.plug] = 0]
        /\ Println(o.plug, Request(IF o.k = "s" THEN "s" ELSE "m", o.level, asked[o.plug] + 1), noise)
  BY DEF PassOn
<1>2. o.plug \in Plugs
  BY BridgeAssumption
<1>3. active' = o.plug /\ UNCHANGED <<waiting, cur, message, after>> /\ ~waiting
  BY <1>1 DEF Listen, PassOn, Free, TypeInv, BridgeTypes
<1>4. \A q \in Plugs : q # o.plug => rx'[q] = rx[q]
  BY <1>1, <1>2 DEF Println, TypeInv, ToldTypes
<1>5. /\ calm' \in [Plugs -> 0 .. 2] /\ calm'[o.plug] = 0
      /\ \A q \in Plugs : q # o.plug => calm'[q] = calm[q]
  BY <1>1, <1>2 DEF CalmInv
<1>6. ListensElsewhere'
  BY <1>3, <1>5 DEF ListensElsewhere
<1>7. ASSUME NEW q \in Plugs PROVE SettledAt(q)' /\ ExchangeAt(q)'
  <2>1. SettledAt(q)
    BY DEF CalmInv
  <2> QED BY <1>3, <1>4, <1>5, <2>1 DEF SettledAt, ExchangeAt
<1> QED BY <1>3, <1>5, <1>6, <1>7 DEF CalmInv

LEMMA PollCalm == ASSUME TypeInv, CalmInv, Poll PROVE CalmInv'
<1> DEFINE m == Request(pollMessage, 0, asked[cur] + 1)
<1>1. PICK noise \in BOOLEAN :
        /\ Println(cur, m, noise)
        /\ calm' = [calm EXCEPT ![cur] = IF Ready(cur) /\ ~noise THEN calm[cur] ELSE 0]
  BY DEF Poll
<1>2. cur \in Plugs /\ pollMessage \in {"v", "m"} /\ cur # 0
  BY MessageKinds DEF TypeInv, BridgeTypes, Poll, Plugs
<1>3. asked[cur] + 1 \in Nat /\ asked[cur] + 1 # 0 /\ asked'[cur] = asked[cur] + 1 /\ m.nr = asked[cur] + 1
  BY <1>1, <1>2 DEF TypeInv, ToldTypes, Println, Request
<1>4. \A q \in Plugs : q # cur => rx'[q] = rx[q]
  BY <1>1, <1>2 DEF Println, TypeInv, ToldTypes
<1>5. UNCHANGED <<cur, message, power, job, after>> /\ ~waiting /\ waiting' = TRUE
  BY DEF Poll
<1>6. /\ calm' \in [Plugs -> 0 .. 2] /\ \A q \in Plugs : q # cur => calm'[q] = calm[q]
      /\ calm'[cur] = IF Ready(cur) /\ ~noise THEN calm[cur] ELSE 0
  BY <1>1, <1>2 DEF CalmInv
<1>7. ListensElsewhere'
  BY <1>5 DEF ListensElsewhere
<1>8. ASSUME NEW q \in Plugs, q # cur PROVE SettledAt(q)' /\ ExchangeAt(q)'
  <2>1. SettledAt(q)
    BY DEF CalmInv
  <2> QED BY <1>4, <1>5, <1>6, <1>8, <2>1 DEF SettledAt, ExchangeAt
<1>9. ASSUME ~(Ready(cur) /\ ~noise) PROVE SettledAt(cur)' /\ ExchangeAt(cur)'
  BY <1>5, <1>6, <1>9 DEF SettledAt, ExchangeAt
<1>10. ASSUME Ready(cur), ~noise PROVE SettledAt(cur)' /\ ExchangeAt(cur)'
  <2>1. /\ power[cur] = "up" /\ job[cur] = NoMsg /\ tx[cur] = << >> /\ ~after[cur]
        /\ rx[cur] = << >>
    BY <1>10 DEF Ready, Idle
  <2>2. rx' = [rx EXCEPT ![cur] = Cut(rx[cur] \o Written(m, FALSE), RxBuff)] /\ tx' = tx
    BY <1>1, <1>10, <2>1 DEF Println
  <2>3. rx'[cur] = Cut(<< >> \o Written(m, FALSE), RxBuff)
    BY <1>2, <2>1, <2>2 DEF TypeInv, ToldTypes
  <2>4. IsRequest(rx'[cur], m)
    BY <1>2, <1>3, <2>3, RequestArrives
  <2>5. \A g : Settled(g, rx'[cur])
    BY <2>4, RequestRead
  <2>6. ASSUME calm[cur] = 2 PROVE InExchange(cur)'
    <3>1. SettledAt(cur) /\ ListensElsewhere
      BY <1>2 DEF CalmInv
    <3>2. Settled(message[cur], << >>)
      BY <2>1, <2>6, <3>1 DEF SettledAt
    <3>3. message[cur] = << >>
      <4>1. Len(<< >>) = 0
        BY EmptySeq
      <4> QED BY <3>2, <4>1 DEF Settled
    <3>4. active # cur
      BY <1>2, <1>5, <2>6, <3>1 DEF ListensElsewhere
    <3>5. ring' = << >> /\ deviceMessage' = << >>
      BY <3>4 DEF Poll, Listen
    <3>6. HasRequest(cur)'
      BY <1>2, <1>3, <1>5, <2>1, <2>2, <2>4, <3>3 DEF HasRequest
    <3> QED BY <1>5, <2>1, <3>5, <3>6 DEF InExchange
  <2> QED BY <1>5, <1>6, <1>10, <2>5, <2>6 DEF SettledAt, ExchangeAt
<1> QED BY <1>5, <1>6, <1>7, <1>8, <1>9, <1>10 DEF CalmInv

(* What is heard of an exchange without disturbance is a whole answer.     *)
LEMMA PollHearsCalm == ASSUME TypeInv, CalmInv, PollHears PROVE CalmInv'
<1>1. CASE NextPlug
  BY <1>1, NextPlugCalm DEF PollHears, boardVars, wireVars
<1>2. CASE Characters /\ UNCHANGED <<cur, pollMessage, waiting, calm>>
  <2>1. waiting /\ active = cur /\ cur \in Plugs /\ ring \in Seq(Pieces)
    BY MessageKinds DEF PollHears, TypeInv, BridgeTypes, RingTypes, Plugs
  <2>2. calm[cur] # 2
    <3> SUFFICES ASSUME calm[cur] = 2 PROVE FALSE
      OBVIOUS
    <3>1. InExchange(cur)
      BY <2>1 DEF CalmInv, ExchangeAt
    <3>2. ring # << >> /\ Control(ring) = {}
      BY <1>2 DEF Characters
    <3>3. Ends(ring, asked[cur])
      BY <3>1, <3>2 DEF InExchange
    <3> QED BY <2>1, <3>2, <3>3, EndsHeard
  <2>3. UNCHANGED <<active, message, rx, after>>
    BY DEF PollHears, boardVars, wireVars
  <2>4. ListensElsewhere'
    BY <1>2, <2>3 DEF CalmInv, ListensElsewhere
  <2>5. ASSUME NEW p \in Plugs PROVE SettledAt(p)' /\ ExchangeAt(p)'
    <3>1. SettledAt(p)
      BY DEF CalmInv
    <3> QED BY <1>2, <2>2, <2>3, <3>1 DEF SettledAt, ExchangeAt
  <2> QED BY <1>2, <2>3, <2>4, <2>5 DEF CalmInv
<1> QED BY <1>1, <1>2 DEF PollHears

LEMMA BridgeCalm == ASSUME TypeInv, CalmInv, Bridge PROVE CalmInv'
<1>1. pollMessage = "none" => cur = 0 /\ ~waiting
  BY DEF TypeInv, BridgeTypes
<1>2. CASE PollOnCommand \/ RepeatDue
  BY <1>1, <1>2, SameCalm DEF PollOnCommand, RepeatDue, Free, StartPolling, hearVars, boardVars, wireVars
<1>3. CASE RepeatOnCommand \/ NoMoreInput \/ RepeatNotDue \/ LoopHearsNothing
  BY <1>1, <1>3, SameCalm DEF RepeatOnCommand, NoMoreInput, RepeatNotDue, LoopHearsNothing, Free,
     hearVars, boardVars, wireVars
<1>4. CASE LoopHears
  BY <1>1, <1>4, SameCalm DEF LoopHears, Free, bridgeVars, boardVars, wireVars
<1>5. CASE PollTimesOut
  BY <1>5, NextPlugCalm DEF PollTimesOut, hearVars, boardVars, wireVars
<1> QED BY <1>2, <1>3, <1>4, <1>5, PassOnCalm, PollCalm, PollHearsCalm DEF Bridge

(* A step of the board at plug p, of which the other plugs see nothing.    *)
BoardStep(p) ==
  /\ UNCHANGED <<waiting, cur, active, deviceMessage, asked>> /\ (active = p \/ ring' = ring)
  /\ after' \in [Plugs -> BOOLEAN]
  /\ \A q \in Plugs : q # p =>
       /\ rx'[q] = rx[q] /\ message'[q] = message[q] /\ power'[q] = power[q]
       /\ job'[q] = job[q] /\ tx'[q] = tx[q] /\ after'[q] = after[q]

LEMMA BoardCalm ==
  ASSUME TypeInv, CalmInv, NEW p \in Plugs, BoardStep(p),
         calm' = calm \/ (calm' = [calm EXCEPT ![p] = 0]), SettledAt(p)', ExchangeAt(p)'
  PROVE  CalmInv'
<1>1. /\ calm' \in [Plugs -> 0 .. 2] /\ (calm'[p] = calm[p] \/ calm'[p] = 0)
      /\ \A q \in Plugs : q # p => calm'[q] = calm[q]
  BY DEF CalmInv
<1>2. ListensElsewhere'
  BY <1>1 DEF CalmInv, ListensElsewhere, BoardStep
<1>3. ASSUME NEW q \in Plugs, q # p PROVE SettledAt(q)' /\ ExchangeAt(q)'
  <2>1. SettledAt(q) /\ ExchangeAt(q)
    BY DEF CalmInv
  <2>2. waiting /\ cur = q => ring' = ring
    BY <1>3 DEF BoardStep, TypeInv, BridgeTypes
  <2>3. SettledAt(q)'
    BY <1>1, <1>3, <2>1 DEF SettledAt, BoardStep
  <2>4. ASSUME waiting, cur = q, calm[q] = 2 PROVE InExchange(q)'
    <3>1. InExchange(q)
      BY <2>1, <2>4 DEF ExchangeAt
    <3> QED BY <1>3, <2>2, <2>4, <3>1 DEF InExchange, HasRequest, BoardStep
  <2>5. ExchangeAt(q)'
    BY <1>1, <1>3, <2>4 DEF ExchangeAt, BoardStep
  <2> QED BY <2>3, <2>5
<1> QED BY <1>1, <1>2, <1>3 DEF CalmInv, BoardStep

LEMMA DisturbedCalm ==
  ASSUME TypeInv, CalmInv, NEW p \in Plugs, BoardStep(p), calm' = [calm EXCEPT ![p] = 0]
  PROVE  CalmInv'
<1>1. calm'[p] = 0
  BY DEF CalmInv
<1>2. SettledAt(p)' /\ ExchangeAt(p)'
  BY <1>1 DEF SettledAt, ExchangeAt
<1> QED BY <1>2, BoardCalm

(* Before the board has the request, and once its answer is on the way,    *)
(* its other doings do not matter.                                         *)
LEMMA NothingToSay == \A n : ~Ends(<< >>, n)
<1>1. Len(<< >>) = 0
  BY EmptySeq
<1> QED BY <1>1 DEF Ends

LEMMA PowerCalm ==
  ASSUME TypeInv, CalmInv, NEW p \in Plugs, PowerCut(p) \/ ReadMarker(p) \/ WriteId(p)
  PROVE  CalmInv'
<1>1. CASE PowerCut(p)
  <2>1. BoardStep(p)
    BY <1>1 DEF PowerCut, BoardStep, bridgeVars, hearVars, seenVars, TypeInv, ToldTypes, SaidTypes,
       BoardTypes, CalmInv
  <2> QED BY <1>1, <2>1, DisturbedCalm DEF PowerCut
<1>2. CASE ReadMarker(p) \/ WriteId(p)
  <2>1. /\ UNCHANGED <<bridgeVars, hearVars, wireVars, seenVars, calm>> /\ power[p] # "up"
        /\ \A q \in Plugs : q # p => power'[q] = power[q]
    BY <1>2 DEF ReadMarker, WriteId, GoByIds, TypeInv, BoardTypes
  <2>2. BoardStep(p)
    BY <2>1 DEF BoardStep, bridgeVars, hearVars, seenVars, wireVars, CalmInv
  <2>3. SettledAt(p) /\ ExchangeAt(p)
    BY DEF CalmInv
  <2>4. SettledAt(p)'
    BY <2>1, <2>3 DEF SettledAt, bridgeVars, wireVars
  <2>5. ExchangeAt(p)'
    BY <2>1, <2>3 DEF ExchangeAt, InExchange, bridgeVars, hearVars, seenVars
  <2> QED BY <2>1, <2>2, <2>4, <2>5, BoardCalm
<1> QED BY <1>1, <1>2

LEMMA SensorCalm ==
  ASSUME TypeInv, CalmInv, NEW p \in Plugs, FirstReading(p) \/ PauseEnds(p)
  PROVE  CalmInv'
<1>1. UNCHANGED <<bridgeVars, hearVars, power, rx, message, seenVars, calm>>
  BY DEF FirstReading, PauseEnds
<1>2. job[p] # NoMsg \/ (after[p] /\ tx[p] = << >>)
  BY DEF FirstReading, PauseEnds
<1>3. /\ after' \in [Plugs -> BOOLEAN]
      /\ \A q \in Plugs : q # p => job'[q] = job[q] /\ tx'[q] = tx[q] /\ after'[q] = after[q]
  <2>1. CASE FirstReading(p)
    BY <2>1 DEF FirstReading, Say, TypeInv, SaidTypes, BoardTypes, CalmInv
  <2>2. CASE PauseEnds(p)
    <3>1. UNCHANGED <<job, tx>> /\ after' = [after EXCEPT ![p] = FALSE]
      BY <2>2 DEF PauseEnds
    <3> QED BY <3>1 DEF CalmInv
  <2> QED BY <2>1, <2>2
<1>4. BoardStep(p)
  BY <1>1, <1>3 DEF BoardStep, bridgeVars, hearVars, seenVars
<1>5. SettledAt(p) /\ ExchangeAt(p)
  BY DEF CalmInv
<1>6. SettledAt(p)'
  BY <1>1, <1>5 DEF SettledAt, bridgeVars
<1>7. ASSUME InExchange(p) PROVE InExchange(p)'
  <2>1. Ends(ring, asked[p]) /\ deviceMessage = << >>
    BY <1>2, <1>7, NothingToSay DEF InExchange, HasRequest
  <2> QED BY <1>1, <2>1 DEF InExchange, hearVars, seenVars
<1>8. ExchangeAt(p)'
  BY <1>1, <1>5, <1>7 DEF ExchangeAt, bridgeVars
<1> QED BY <1>1, <1>4, <1>6, <1>8, BoardCalm

LEMMA WriteCalm == ASSUME TypeInv, CalmInv, NEW p \in Plugs, Write(p) PROVE CalmInv'
<1> DEFINE k == Chunk(tx[p])
           c == SubSeq(tx[p], 1, k)
<1>1. tx[p] \in Seq(Pieces) /\ ring \in Seq(Pieces) /\ Len(tx[p]) \in Nat /\ k \in 0 .. Len(tx[p])
  BY ChunkPart DEF TypeInv, RingTypes, SaidTypes
<1> HIDE DEF k
<1>2. c \in Seq(Pieces)
  <2>1. k \in Nat /\ k <= Len(tx[p])
    BY <1>1
  <2> QED BY <1>1, <2>1, PartIn
<1>3. /\ tx[p] # << >> /\ tx' = [tx EXCEPT ![p] = Beyond(tx[p], k)]
      /\ UNCHANGED <<bridgeVars, active, deviceMessage, power, rx, message, job, after, seenVars>>
      /\ \/ ring' = (IF active = p THEN ring \o c ELSE ring) /\ UNCHANGED calm
         \/ active = p /\ calm' = [calm EXCEPT ![p] = 0]
  BY DEF Write, k, c
<1>4. BoardStep(p)
  BY <1>3 DEF BoardStep, bridgeVars, seenVars, TypeInv, SaidTypes, CalmInv
<1>5. CASE calm' = [calm EXCEPT ![p] = 0]
  BY <1>4, <1>5, DisturbedCalm
<1>6. ASSUME ring' = (IF active = p THEN ring \o c ELSE ring), UNCHANGED calm PROVE CalmInv'
  <2>1. SettledAt(p) /\ ExchangeAt(p)
    BY DEF CalmInv
  <2>2. SettledAt(p)'
    BY <1>3, <1>6, <2>1 DEF SettledAt, bridgeVars
  <2>3. ASSUME waiting, cur = p, InExchange(p) PROVE InExchange(p)'
    <3>1. ring' = ring \o c
      BY <1>6, <2>3 DEF TypeInv, BridgeTypes
    <3>2. CASE Ends(ring, asked[p])
      <4>1. Ends(ring', asked[p])
        BY <1>1, <1>2, <3>1, <3>2, EndsMore
      <4> QED BY <1>3, <2>3, <4>1 DEF InExchange, seenVars
    <3>3. CASE ring = << >> /\ Ends(tx[p], asked[p])
      <4>1. Ends(c, asked[p])
        BY <1>1, <3>3, ChunkEnds DEF c, k
      <4>2. ring' = c
        BY <1>2, <3>1, <3>3, ConcatEmptySeq
      <4> HIDE DEF c
      <4> QED BY <1>3, <2>3, <4>1, <4>2 DEF InExchange, seenVars
    <3> QED BY <1>3, <2>3, <3>2, <3>3 DEF InExchange, HasRequest
  <2>4. ExchangeAt(p)'
    BY <1>3, <1>6, <2>1, <2>3 DEF ExchangeAt, bridgeVars
  <2> QED BY <1>4, <1>6, <2>2, <2>4, BoardCalm
<1> QED BY <1>3, <1>5, <1>6

(* What a board reads leaves no half line behind.                          *)
LEMMA ReadSettled ==
  ASSUME TypeInv, NEW p \in Plugs, rx[p] # << >>, Settled(message[p], rx[p])
  PROVE  /\ Settled(<< >>, Beyond(rx[p], ReadTo(p)))
         /\ ~AtCR(p) => Settled(NextLine(p), Beyond(rx[p], ReadTo(p)))
<1> DEFINE r == rx[p]
           k == ReadTo(p)
           v == Beyond(r, k)
<1>1. r \in Seq(Pieces) /\ Len(r) \in Nat /\ 1 \in 1 .. Len(r) /\ message[p] \in Seq(Pieces)
  <2>1. r \in Seq(Pieces) /\ message[p] \in Seq(Pieces)
    BY DEF TypeInv, ToldTypes
  <2>2. Len(r) \in Nat \ {0}
    BY <2>1, EmptySeq
  <2> QED BY <2>1, <2>2
<1>2. /\ message[p] # << >> => \E y \in 1 .. Len(r) : r[y].t = "cr"
      /\ \A j \in 1 .. Len(r) : r[j].t # "lf" => \E y \in j .. Len(r) : r[y].t = "cr"
  BY DEF Settled
<1> HIDE DEF r
<1>3. Control(r) # {}
  <2>1. CASE r[1].t = "lf"
    BY <1>1, <2>1 DEF Control
  <2>2. CASE r[1].t # "lf"
    <3>1. PICK y \in 1 .. Len(r) : r[y].t = "cr"
      BY <1>1, <1>2, <2>2
    <3> QED BY <3>1 DEF Control
  <2> QED BY <2>1, <2>2
<1>4. k = FirstOf(Control(r)) /\ (AtCR(p) <=> r[k].t = "cr")
  BY <1>3 DEF ReadTo, AtCR, r
<1> HIDE DEF k
<1>5. Control(r) \subseteq 1 .. Len(r)
  BY DEF Control
<1>6. k \in Control(r) /\ \A j \in Control(r) : k <= j
  BY <1>1, <1>3, <1>4, <1>5, FirstIsOne
<1>7. k \in 1 .. Len(r) /\ k \in Nat /\ k \in 0 .. Len(r) /\ r[k].t \in {"cr", "lf"}
  <2>1. k \in 1 .. Len(r) /\ r[k].t \in {"cr", "lf"}
    BY <1>6 DEF Control
  <2> QED BY <1>1, <2>1
<1>8. /\ v \in Seq(Pieces) /\ Len(v) = Len(r) - k
      /\ \A i \in 1 .. Len(r) - k : i + k \in 1 .. Len(r) /\ v[i] = r[i + k]
  BY <1>1, <1>7, BeyondPart
<1> HIDE DEF v
<1>9. ASSUME NEW j \in 1 .. Len(v), v[j].t # "lf" PROVE \E x \in j .. Len(v) : v[x].t = "cr"
  <2> DEFINE b == j + k
  <2>1. b \in 1 .. Len(r) /\ v[j] = r[b] /\ b = j + k
    BY <1>8, <1>9
  <2> HIDE DEF b
  <2>2. PICK y \in b .. Len(r) : r[y].t = "cr"
    BY <1>2, <1>9, <2>1
  <2> DEFINE x == y - k
  <2>3. x \in j .. Len(v) /\ x \in 1 .. Len(r) - k /\ x + k = y
    BY <1>1, <1>7, <1>8, <2>1
  <2> HIDE DEF x
  <2>4. v[x].t = "cr"
    BY <1>8, <2>2, <2>3
  <2> QED BY <2>3, <2>4
<1>10. Settled(<< >>, v)
  BY <1>9 DEF Settled
<1>11. ASSUME ~AtCR(p), NextLine(p) # << >> PROVE \E x \in 1 .. Len(v) : v[x].t = "cr"
  <2>1. r[k].t # "cr"
    BY <1>4, <1>11
  <2>2. \E y \in 1 .. Len(r) : r[y].t = "cr"
    <3>1. CASE message[p] # << >>
      BY <1>2, <3>1
    <3>2. CASE message[p] = << >>
      <4>1. k \in 1 .. Len(r) + 1
        BY <1>1, <1>7
      <4>2. Upto(r, k) \in Seq(Pieces) /\ Len(Upto(r, k)) = k - 1
        BY <1>1, <4>1, UptoPart
      <4>3. NextLine(p) = Upto(r, k)
        <5>1. NextLine(p) = << >> \o Upto(r, k)
          BY <3>2 DEF NextLine, r, k
        <5> QED BY <4>2, <5>1, ConcatEmptySeq
      <4>4. Len(Upto(r, k)) # 0
        BY <1>11, <4>2, <4>3, EmptySeq
      <4>5. ~(k <= 1)
        BY <1>7, <4>2, <4>4
      <4>6. 1 \notin Control(r)
        BY <1>6, <4>5
      <4>7. r[1].t # "lf"
        BY <1>1, <4>6 DEF Control
      <4> QED BY <1>1, <1>2, <4>7
    <3> QED BY <3>1, <3>2
  <2>3. PICK y \in 1 .. Len(r) : r[y].t = "cr"
    BY <2>2
  <2>4. y \in Control(r) /\ y # k
    BY <2>1, <2>3 DEF Control
  <2>5. k <= y
    BY <1>6, <2>4
  <2> DEFINE x == y - k
  <2>6. x \in 1 .. Len(v) /\ x \in 1 .. Len(r) - k /\ x + k = y
    BY <1>1, <1>7, <1>8, <2>4, <2>5
  <2> HIDE DEF x
  <2>7. v[x].t = "cr"
    BY <1>8, <2>3, <2>6
  <2> QED BY <2>6, <2>7
<1>12. ~AtCR(p) => Settled(NextLine(p), v)
  BY <1>9, <1>11 DEF Settled
<1> QED BY <1>10, <1>12 DEF v, r, k

LEMMA TakeBytesCalm == ASSUME TypeInv, CalmInv, NEW p \in Plugs, TakeBytes(p) PROVE CalmInv'
<1>1. /\ power[p] = "up" /\ Idle(p) /\ rx[p] # << >> /\ ~AtCR(p)
      /\ rx' = [rx EXCEPT ![p] = Beyond(rx[p], ReadTo(p))]
      /\ message' = [message EXCEPT ![p] = NextLine(p)]
      /\ UNCHANGED <<bridgeVars, hearVars, power, job, tx, after, seenVars, calm>>
  BY DEF TakeBytes, MayRead
<1>2. BoardStep(p)
  BY <1>1 DEF BoardStep, bridgeVars, hearVars, seenVars, TypeInv, ToldTypes, CalmInv
<1>3. SettledAt(p) /\ ExchangeAt(p)
  BY DEF CalmInv
<1>4. rx'[p] = Beyond(rx[p], ReadTo(p)) /\ message'[p] = NextLine(p)
  BY <1>1 DEF TypeInv, ToldTypes
<1>5. Settled(message[p], rx[p]) => Settled(message'[p], rx'[p])
  BY <1>1, <1>4, ReadSettled
<1>6. SettledAt(p)'
  BY <1>1, <1>3, <1>5 DEF SettledAt, bridgeVars
<1>7. ASSUME InExchange(p) PROVE InExchange(p)'
  <2>1. ~HasRequest(p)
    BY <1>1, RequestRead DEF HasRequest, AtCR, ReadTo
  <2>2. Ends(ring, asked[p]) /\ deviceMessage = << >>
    BY <1>1, <1>7, <2>1, NothingToSay DEF InExchange, Idle
  <2> QED BY <1>1, <2>2 DEF InExchange, hearVars, seenVars
<1>8. ExchangeAt(p)'
  BY <1>1, <1>3, <1>7 DEF ExchangeAt, bridgeVars
<1> QED BY <1>1, <1>2, <1>6, <1>8, BoardCalm

(* The board finds just the request in its line, and answers it.           *)
LEMMA RequestServed ==
  ASSUME TypeInv, NEW p \in Plugs, NEW c \in {"v", "m"},
         message[p] = << >>, IsRequest(rx[p], Request(c, 0, asked[p]))
  PROVE  /\ AtCR(p) /\ NextLine(p) # << >> /\ Command(NextLine(p)) = c
         /\ Nr(NextLine(p)) = asked[p]
<1> DEFINE r == rx[p]
           n == asked[p]
           m == Request(c, 0, n)
           s == NextLine(p)
<1>1. Control(r) # {} /\ FirstOf(Control(r)) = 3 /\ r[3].t = "cr"
  BY RequestRead
<1>2. AtCR(p) /\ ReadTo(p) = 3
  BY <1>1 DEF AtCR, ReadTo
<1>3. r \in Seq(Pieces) /\ Len(r) = 4 /\ r[1] = Piece("cmd", m) /\ r[2] = Piece("sum", m)
  BY DEF TypeInv, ToldTypes, IsRequest
<1>4. m.nr = n /\ m.cmd = c
  BY DEF Request
<1> HIDE DEF r, n, m
<1>5. /\ Upto(r, 3) \in Seq(Pieces) /\ Len(Upto(r, 3)) = 3 - 1
      /\ \A i \in 1 .. 3 - 1 : Upto(r, 3)[i] = r[i]
  <2>1. 3 \in 1 .. Len(r) + 1
    BY <1>3
  <2> QED BY <1>3, <2>1, UptoPart
<1>6. s = Upto(r, 3)
  <2>1. s = << >> \o Upto(r, 3)
    BY <1>2 DEF NextLine, r
  <2> QED BY <1>5, <2>1, ConcatEmptySeq
<1> HIDE DEF s
<1>7. Len(s) = 2 /\ s[1] = Piece("cmd", m) /\ s[2] = Piece("sum", m) /\ s \in Seq(Pieces)
  BY <1>3, <1>5, <1>6
<1>8. /\ s[1].t = "cmd" /\ s[1].of.cmd = c /\ s[1].of.nr = n
      /\ s[2].t = "sum" /\ s[2].of.nr = n
  BY <1>4, <1>7 DEF Piece
<1>9. s # << >>
  <2>1. Len(<< >>) = 0
    BY EmptySeq
  <2>2. Len(s) # Len(<< >>)
    BY <1>7, <2>1
  <2> QED BY <2>2
<1>10. Command(s) = c
  BY <1>8 DEF Command
<1>11. Nr(s) = n
  <2>1. n \in Nat
    BY DEF TypeInv, ToldTypes, n
  <2>2. \A k \in 1 .. Len(s) : s[k].of.nr = n
    <3>1. \A k \in 1 .. 2 : k = 1 \/ k = 2
      OBVIOUS
    <3> QED BY <1>7, <1>8, <3>1
  <2>3. {s[k].of.nr : k \in 1 .. Len(s)} = {n}
    <3>1. 1 \in 1 .. Len(s)
      BY <1>7
    <3> QED BY <2>2, <3>1
  <2>4. \A k \in 1 .. Len(s) : s[k].of.nr <= n
    BY <2>1, <2>2
  <2> QED BY <2>3, <2>4 DEF Nr
<1> QED BY <1>2, <1>9, <1>10, <1>11 DEF s, n

LEMMA TakeLineCalm == ASSUME TypeInv, CalmInv, NEW p \in Plugs, TakeLine(p) PROVE CalmInv'
<1> DEFINE s == NextLine(p)
<1>1. /\ power[p] = "up" /\ Idle(p) /\ rx[p] # << >> /\ AtCR(p)
      /\ rx' = [rx EXCEPT ![p] = Beyond(rx[p], ReadTo(p))]
      /\ message' = [message EXCEPT ![p] = << >>]
      /\ UNCHANGED <<bridgeVars, hearVars, power, seenVars>>
      /\ UNCHANGED <<dataVars, job, tx, after, calm>> \/ (s # << >> /\ Serve(p, s))
      /\ s # << >> => Serve(p, s)
  BY DEF TakeLine, MayRead
<1> HIDE DEF s
<1>2. /\ after' = after \/ after' = [after EXCEPT ![p] = Does[Sketch[p]].pauses]
      /\ calm' = calm \/ (calm' = [calm EXCEPT ![p] = 0])
      /\ job' = job \/ \E m : job' = [job EXCEPT ![p] = m]
      /\ tx' = tx \/ \E w : tx' = [tx EXCEPT ![p] = w]
  BY <1>1 DEF Serve, SayValue, ReadFirst, SetValues, SayId, SayError, Say
<1>3. /\ after' \in [Plugs -> BOOLEAN]
      /\ \A q \in Plugs : q # p => job'[q] = job[q] /\ tx'[q] = tx[q] /\ after'[q] = after[q]
  <2>1. Does[Sketch[p]].pauses \in BOOLEAN
    <3>1. Sketch[p] \in {"relay", "test", "o2", "co2", "dht22", "tsl2561", "veml7700"}
      BY BridgeAssumption DEF Does
    <3>2. \A x \in {"relay", "test", "o2", "co2", "dht22", "tsl2561", "veml7700"} :
            Does[x] \in {Relay, Test, O2, Co2, Dht, Tsl, Veml}
      BY DEF Does
    <3>3. /\ Relay.pauses \in BOOLEAN /\ Test.pauses \in BOOLEAN /\ O2.pauses \in BOOLEAN
          /\ Co2.pauses \in BOOLEAN /\ Dht.pauses \in BOOLEAN /\ Tsl.pauses \in BOOLEAN
          /\ Veml.pauses \in BOOLEAN
      BY DEF Relay, Test, O2, Co2, Dht, Tsl, Veml
    <3> DEFINE d == Does[Sketch[p]]
    <3>4. d \in {Relay, Test, O2, Co2, Dht, Tsl, Veml}
      BY <3>1, <3>2
    <3> HIDE DEF d
    <3>5. d.pauses \in BOOLEAN
      BY <3>3, <3>4
    <3> QED BY <3>5 DEF d
  <2>2. after \in [Plugs -> BOOLEAN]
    BY DEF CalmInv
  <2>3. after' \in [Plugs -> BOOLEAN]
    BY <1>2, <2>1, <2>2
  <2>4. \A q \in Plugs : q # p => after'[q] = after[q]
    BY <1>2, <2>2
  <2>5. \A q \in Plugs : q # p => job'[q] = job[q] /\ tx'[q] = tx[q]
    BY <1>2 DEF TypeInv, SaidTypes, BoardTypes
  <2> QED BY <2>3, <2>4, <2>5
<1>4. BoardStep(p)
  BY <1>1, <1>3 DEF BoardStep, bridgeVars, hearVars, seenVars, TypeInv, ToldTypes
<1>5. CASE calm' = [calm EXCEPT ![p] = 0]
  BY <1>4, <1>5, DisturbedCalm
<1>6. ASSUME calm' = calm, ~ReadFirst(p, s) PROVE CalmInv'
  <2>1. SettledAt(p) /\ ExchangeAt(p)
    BY DEF CalmInv
  <2>2. rx'[p] = Beyond(rx[p], ReadTo(p)) /\ message'[p] = << >>
    BY <1>1 DEF TypeInv, ToldTypes
  <2>3. Settled(message[p], rx[p]) => Settled(message'[p], rx'[p])
    BY <1>1, <2>2, ReadSettled
  <2>4. SettledAt(p)'
    BY <1>1, <1>6, <2>1, <2>3 DEF SettledAt, bridgeVars
  <2>5. ASSUME InExchange(p) PROVE InExchange(p)'
    <3>1. CASE Ends(ring, asked[p])
      BY <1>1, <2>5, <3>1 DEF InExchange, hearVars, seenVars
    <3>2. CASE ring = << >> /\ HasRequest(p)
      <4>1. PICK c \in {"v", "m"} : message[p] = << >> /\ IsRequest(rx[p], Request(c, 0, asked[p]))
        BY <3>2 DEF HasRequest
      <4>2. s # << >> /\ Command(s) = c /\ Nr(s) = asked[p]
        BY <4>1, RequestServed DEF s
      <4>3. SayValue(p, s) \/ SayId(p, s)
        BY <1>1, <1>6, <4>1, <4>2 DEF Serve, SetValues, SayError
      <4>4. PICK v \in Nat : Say(p, c, v, asked[p])
        <5>1. deviceId[p] \in Nat /\ level[p] \in Nat /\ reading[p] \in Nat
          BY DEF TypeInv, BoardTypes
        <5>2. CASE SayId(p, s)
          BY <4>2, <5>1, <5>2 DEF SayId
        <5>3. CASE SayValue(p, s)
          <6>1. PICK v \in IF Does[Sketch[p]].outputs THEN {level[p]}
                   ELSE IF Does[Sketch[p]].reads THEN {reading[p]} ELSE {Nothing, Measured} :
                   Say(p, "v", v, Nr(s))
            BY <5>3 DEF SayValue
          <6>2. v \in Nat
            BY <5>1, <6>1 DEF Nothing, Measured
          <6> QED BY <4>2, <5>3, <6>1, <6>2 DEF SayValue
        <5> QED BY <4>3, <5>2, <5>3
      <4>5. asked[p] \in Nat
        BY DEF TypeInv, ToldTypes
      <4>6. Answer(c, v, p, asked[p]) \in Messages /\ Answer(c, v, p, asked[p]).nr = asked[p]
        BY <4>5, MessageKinds DEF Answer
      <4>7. tx'[p] = Written(Answer(c, v, p, asked[p]), FALSE)
        BY <4>4 DEF Say, TypeInv, SaidTypes
      <4>8. Ends(tx'[p], asked[p])
        BY <4>6, <4>7, ReplyEnds
      <4>9. job' = job
        BY <4>3 DEF SayValue, SayId
      <4> QED BY <1>1, <2>5, <3>2, <4>8, <4>9 DEF InExchange, Idle, hearVars, seenVars
    <3> QED BY <1>1, <2>5, <3>1, <3>2, NothingToSay DEF InExchange, Idle
  <2>6. ExchangeAt(p)'
    BY <1>1, <1>6, <2>1, <2>5 DEF ExchangeAt, bridgeVars
  <2> QED BY <1>4, <1>6, <2>4, <2>6, BoardCalm
<1>7. ReadFirst(p, s) => calm' = [calm EXCEPT ![p] = 0]
  BY DEF ReadFirst
<1> QED BY <1>2, <1>5, <1>6, <1>7

LEMMA CalmInvNext == TypeInv /\ CalmInv /\ [Next]_vars => CalmInv'
<1> SUFFICES ASSUME TypeInv, CalmInv, [Next]_vars PROVE CalmInv'
  OBVIOUS
<1>1. ASSUME NEW p \in Plugs, Board(p) PROVE CalmInv'
  BY <1>1, PowerCalm, TakeBytesCalm, TakeLineCalm, SensorCalm, WriteCalm DEF Board
<1>2. CASE UNCHANGED vars
  BY <1>2, SameCalm DEF vars, bridgeVars, hearVars, boardVars, wireVars, seenVars
<1> QED BY <1>1, <1>2, BridgeCalm DEF Next

(* A plug that nothing has disturbed for two polls: the board and the      *)
(* bridge are left with nothing of them, and in the third poll one of them *)
(* holds the request or its answer, alone.                                 *)
THEOREM CalmInvHolds == Spec => []CalmInv
<1>1. Init => TypeInv /\ CalmInv
  BY TypeInvInit, CalmInvInit
<1>2. TypeInv /\ CalmInv /\ [Next]_vars => (TypeInv /\ CalmInv)'
  BY TypeInvNext, CalmInvNext
<1> QED BY <1>1, <1>2, PTL DEF Spec

(* The bridge leaves such a plug with the answer to the last request.      *)
LEMMA NoSilence ==
  ASSUME TypeInv, CalmInv, Next, NEW p \in Plugs, waiting, cur = p, cur' # p, calm[p] = 2
  PROVE  heard'[p].nr = asked[p]
<1>1. InExchange(p)
  BY DEF CalmInv, ExchangeAt
<1>2. pollMessage # "none"
  BY DEF TypeInv, BridgeTypes
<1>3. cur' = cur => FALSE
  OBVIOUS
<1>4. PollHears \/ PollTimesOut
  <2>1. ASSUME NEW q \in Plugs, Board(q) PROVE cur' = cur
    BY <2>1 DEF Board, PowerCut, ReadMarker, WriteId, TakeBytes, TakeLine, FirstReading, PauseEnds,
       Write, bridgeVars
  <2>2. CASE Bridge
    BY <1>2, <1>3, <2>2 DEF Bridge, PollOnCommand, RepeatOnCommand, PassOn, NoMoreInput, RepeatDue,
       RepeatNotDue, Poll, LoopHears, LoopHearsNothing, Free, bridgeVars
  <2> QED BY <1>3, <2>1, <2>2 DEF Next
<1>5. ~PollTimesOut
  <2> SUFFICES ASSUME PollTimesOut PROVE FALSE
    OBVIOUS
  <2>1. ring = << >> /\ ~Answering(p)
    BY DEF PollTimesOut
  <2>2. power[p] = "up" /\ job[p] = NoMsg /\ (HasRequest(p) \/ Ends(tx[p], asked[p]))
    BY <1>1, <2>1, NothingToSay DEF InExchange
  <2>3. tx[p] # << >> \/ (rx[p] # << >> /\ ~after[p])
    <3>1. CASE HasRequest(p)
      <4>1. rx[p] # << >>
        <5>1. Len(<< >>) = 0
          BY EmptySeq
        <5> QED BY <3>1, <5>1 DEF HasRequest, IsRequest
      <4> QED BY <3>1, <4>1 DEF HasRequest
    <3>2. CASE Ends(tx[p], asked[p])
      BY <3>2, NothingToSay
    <3> QED BY <2>2, <3>1, <3>2
  <2> QED BY <2>1, <2>2, <2>3 DEF Answering
<1>6. LineEnd(p) /\ deviceMessage = << >>
  BY <1>1, <1>4, <1>5 DEF PollHears, InExchange
<1>7. ring \in Seq(Pieces) /\ heard \in [Plugs -> Messages]
  BY DEF TypeInv, RingTypes, HeardTypes
<1>8. Ends(ring, asked[p])
  <2>1. ring # << >>
    <3>1. Control(<< >>) = {}
      <4>1. Len(<< >>) = 0
        BY EmptySeq
      <4> QED BY <4>1 DEF Control
    <3> QED BY <1>6, <3>1 DEF LineEnd
  <2> QED BY <1>1, <2>1 DEF InExchange
<1> DEFINE k == FirstOf(Control(ring))
           s == Upto(ring, k)
<1>9. k \in 1 .. Len(ring) /\ ChecksumOk(s) /\ Content(s).nr = asked[p] /\ s # << >>
  BY <1>7, <1>8, EndsHeard
<1>10. << >> \o s = s
  <2>1. k \in 1 .. Len(ring) + 1 /\ Len(ring) \in Nat
    BY <1>7, <1>9, Numbers
  <2> HIDE DEF k
  <2>2. s \in Seq(Pieces)
    BY <1>7, <2>1, UptoPart
  <2> QED BY <2>2, ConcatEmptySeq
<1>11. Forward(p, s)
  <2>1. LET w == deviceMessage \o Upto(ring, FirstOf(Control(ring))) IN
        IF w # << >> THEN Forward(p, w) ELSE UNCHANGED <<heard, stale, errorOpen>>
    BY <1>6 DEF LineEnd
  <2>2. deviceMessage \o Upto(ring, FirstOf(Control(ring))) = s
    BY <1>6, <1>10
  <2> QED BY <1>9, <2>1, <2>2
<1> HIDE DEF s
<1>12. heard' = [heard EXCEPT ![p] = Content(s)]
  BY <1>9, <1>11 DEF Forward
<1> QED BY <1>7, <1>9, <1>12

(* SilenceHasCause: a poll without an answer follows a disturbance of that *)
(* plug, in this exchange or in one of the two before.                     *)
THEOREM SilenceHasCauseHolds == Spec => SilenceHasCause
<1>1. TypeInv /\ CalmInv /\ [Next]_vars =>
        [\A p \in Plugs : waiting /\ cur = p /\ cur' # p /\ calm[p] = 2 => heard'[p].nr = asked[p]]_vars
  BY NoSilence
<1> QED BY <1>1, TypeInvHolds, CalmInvHolds, PTL DEF Spec, SilenceHasCause
=============================================================================

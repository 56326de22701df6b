----------------------------- MODULE HubBridge ------------------------------
(***************************************************************************)
(* The hub bridge (hub-bridge/hub-bridge.ino) and the boards at its plugs  *)
(* (the device-* sketches), joined by half-duplex lines that both ends     *)
(* drive with SoftwareSerialWithHalfDuplex.  A computer tells the bridge   *)
(* to poll all plugs, once or every second, or to pass a line to one; the  *)
(* bridge passes every whole line it hears back to the computer.           *)
(*                                                                         *)
(* A request goes out as one step: its receiver spends the time of every   *)
(* byte in the receive interrupt, so that its sketch does not run before   *)
(* the line is there.  An answer goes piece by piece, since the bridge     *)
(* moves on at the first line end while the second is still to come.       *)
(***************************************************************************)
EXTENDS LineProtocol

CONSTANTS
  MAX_DEVICE_COUNT,  \* plugs (5)
  Sketch,            \* the sketch each plug's board runs
  Ids,               \* what randomId() can return
  New,               \* the boards that have never had power
  RxBuff,            \* pieces a board's receive buffer holds
  Orders,            \* lines the computer may send: kind, plug, level
  MaxRounds,         \* bound: polls of all plugs
  MaxFaults          \* bound: what goes wrong or between: lines damaged, readings that
                     \* fail, power lost at a board, lines passed on to a board

Plugs == 1 .. MAX_DEVICE_COUNT

(***************************************************************************)
(* What the sketches' processMessage() functions differ in: 's' sets       *)
(* outputs, or is echoed only; 'v' is answered with the outputs, with a    *)
(* value read from the sensor after the request before (before the very    *)
(* first answer), or, by the O2 board, with what its sensor last wrote to  *)
(* it; a pause follows that answer.                                        *)
(***************************************************************************)
Relay == [outputs |-> TRUE,  reads |-> FALSE, pauses |-> FALSE]
Test  == [outputs |-> TRUE,  reads |-> FALSE, pauses |-> TRUE]
O2    == [outputs |-> FALSE, reads |-> FALSE, pauses |-> TRUE]
Co2   == [outputs |-> FALSE, reads |-> TRUE,  pauses |-> TRUE]
Dht   == [outputs |-> FALSE, reads |-> TRUE,  pauses |-> TRUE]
Tsl   == [outputs |-> FALSE, reads |-> TRUE,  pauses |-> TRUE]
Veml  == [outputs |-> FALSE, reads |-> TRUE,  pauses |-> TRUE]

Does == [relay |-> Relay, test |-> Test, o2 |-> O2, co2 |-> Co2, dht22 |-> Dht,
         tsl2561 |-> Tsl, veml7700 |-> Veml]

(* With a single plug the bridge would never change the line it listens    *)
(* to, and never clear the line end its last answer left.                  *)
ASSUME BridgeAssumption ==
  /\ MAX_DEVICE_COUNT \in Nat \ {0, 1}
  /\ Sketch \in [Plugs -> DOMAIN Does]
  /\ 0 \in Levels /\ Levels \subseteq Nat
  /\ 0 \notin Ids /\ Ids \subseteq Nat /\ Ids # {}
  /\ New \subseteq Plugs
  /\ RxBuff \in Nat /\ 4 <= RxBuff     \* a request of doPolling() fits
  /\ \A c \in Orders : /\ c.k \in {"p", "m", "r", "s", "m>"}
                      /\ c.plug \in Plugs /\ c.level \in Levels
  /\ MaxRounds \in Nat /\ MaxFaults \in Nat

VARIABLES
  (* the bridge *)
  stage,          \* the part of loop() the bridge is in
  pollMessage,    \* 'v' or 'm' inside doPolling(), "none" outside
  cur,            \* the plug doPolling() is at, 0 outside
  waiting,        \* doPolling() has asked plug cur
  listenDevice,   \* the plug the last passed-on line went to, 0 for -1
  repeatPolling,
  active,         \* SoftwareSerialWithHalfDuplex::active_object
  ring,           \* _receive_buffer, one for all plugs
  deviceMessage,
  errorOpen,      \* "e:device crc" printed, its line not ended
  (* the boards *)
  power,          \* "off" (or in the bootloader), "id" while the ID is written, "up"
  marker, eeId,   \* the EEPROM
  deviceId, level, reading, valid,
  rx,             \* the board's receive buffer
  message,
  job,            \* the 'v' request waiting for the first reading
  tx,             \* what is left to write of the answer
  after,          \* the pause and the reading that follow an answer to 'v'
  (* the computer's view, history and bounds *)
  heard,          \* the last message passed on for each plug
  stale,          \* a message as old as the one before it was passed on
  asked,          \* number of the last request to each plug
  calm,           \* polls of plug p ended since something disturbed it, up to 2
  usedIds,        \* the IDs the board of plug p has gone by
  rounds, faults

bridgeVars == <<stage, pollMessage, cur, waiting, listenDevice,
                repeatPolling>>
hearVars   == <<active, ring, deviceMessage, errorOpen>>
idVars     == <<marker, eeId, deviceId, usedIds>>
dataVars   == <<level, reading, valid>>
wireVars   == <<rx, message, job, tx, after>>
boardVars  == <<power, idVars, dataVars, wireVars>>
seenVars   == <<heard, stale, asked>>
bounds     == <<rounds, faults>>
vars == <<bridgeVars, hearVars, boardVars, seenVars, calm, bounds>>

(* What a value was: never measured (0), measured, or not a number.        *)
Nothing  == 0
Measured == 1
NaN      == 2

Request(c, v, n) == [cmd |-> c, arg |-> v, by |-> 0, nr |-> n]
Answer(c, v, p, n) == [cmd |-> c, arg |-> v, by |-> p, nr |-> n]

Init ==
  /\ stage = "computer"
  /\ pollMessage = "none" /\ cur = 0 /\ waiting = FALSE /\ listenDevice = 0 /\ repeatPolling = FALSE
  /\ active = MAX_DEVICE_COUNT      \* setup(): every begin() calls listen()
  /\ ring = << >> /\ deviceMessage = << >> /\ errorOpen = FALSE
  /\ power = [p \in Plugs |-> IF p \in New THEN "off" ELSE "up"]
  /\ marker = [p \in Plugs |-> p \notin New]
  /\ eeId = [p \in Plugs |-> IF p \in New THEN 0 ELSE CHOOSE id \in Ids : TRUE]
  /\ deviceId = eeId
  /\ usedIds = [p \in Plugs |-> IF p \in New THEN {} ELSE {eeId[p]}]
  /\ level = [p \in Plugs |-> 0]
  /\ reading = [p \in Plugs |-> 0] /\ valid = [p \in Plugs |-> FALSE]
  /\ rx = [p \in Plugs |-> << >>] /\ message = [p \in Plugs |-> << >>]
  /\ job = [p \in Plugs |-> NoMsg] /\ tx = [p \in Plugs |-> << >>]
  /\ after = [p \in Plugs |-> FALSE]
  /\ heard = [p \in Plugs |-> NoMsg] /\ stale = FALSE /\ asked = [p \in Plugs |-> 0]
  /\ calm = [p \in Plugs |-> 2]
  /\ rounds = 0 /\ faults = 0

-----------------------------------------------------------------------------
(* The line *)

Cut(s, n) == SubSeq(s, 1, IF Len(s) < n THEN Len(s) ELSE n)

Idle(p) == job[p] = NoMsg /\ tx[p] = << >> /\ ~after[p]

(* devStream[p].println(): a board without power or in its bootloader is   *)
(* deaf.  So is one that is itself writing; the two then spoil each        *)
(* other's line.  A busy one still receives, into its buffer.              *)
Println(p, m, noise) ==
  /\ asked' = [asked EXCEPT ![p] = m.nr]
  /\ \/ power[p] = "off" /\ ~noise /\ UNCHANGED <<rx, tx>>
     \/ /\ power[p] # "off" /\ tx[p] # << >> /\ ~noise
        /\ tx' = [tx EXCEPT ![p][1] = Junk]
        /\ UNCHANGED rx
     \/ /\ power[p] # "off" /\ tx[p] = << >>
        /\ \E s \in IF noise THEN Damaged(Written(m, FALSE)) ELSE {Written(m, FALSE)} :
             rx' = [rx EXCEPT ![p] = Cut(@ \o s, RxBuff)]
        /\ UNCHANGED tx

Ready(p) == power[p] = "up" /\ Idle(p) /\ rx[p] = << >>

(* Mutant: the buffer is kept when another plug is listened to.            *)
ListenKeepsRing(p) == active' = p /\ ring' = ring

(* listen(): a change of the line empties the buffer that all share.       *)
Listen(p) ==
  /\ active' = p
  /\ ring' = IF active = p THEN ring ELSE << >>

-----------------------------------------------------------------------------
(* The bridge: what it says *)

StartPolling(c) ==
  /\ rounds < MaxRounds /\ rounds' = rounds + 1
  /\ pollMessage' = c /\ cur' = 1

Free(st) == stage = st /\ pollMessage = "none"

(* A line from the computer, complete: processByteFromComputer().          *)
PollOnCommand ==
  /\ Free("computer")
  /\ \E o \in Orders : o.k \in {"p", "m"} /\ StartPolling(IF o.k = "p" THEN "v" ELSE "m")
  /\ UNCHANGED <<stage, waiting, listenDevice, repeatPolling, hearVars, boardVars, seenVars,
                 calm, faults>>

RepeatOnCommand ==
  /\ Free("computer")
  /\ \E o \in Orders : o.k = "r"
  /\ repeatPolling' = TRUE
  /\ UNCHANGED <<stage, pollMessage, cur, waiting, listenDevice, hearVars, boardVars, seenVars,
                 calm, rounds, faults>>

(* "<plug>><line>": the answer is read by loop().                          *)
PassOn ==
  /\ Free("computer") /\ faults < MaxFaults
  /\ \E o \in Orders :
       /\ o.k \in {"s", "m>"}
       /\ listenDevice' = o.plug
       /\ Listen(o.plug)
       /\ \E noise \in BOOLEAN :
            /\ faults' = faults + (IF noise THEN 2 ELSE 1) /\ faults' <= MaxFaults
            /\ Println(o.plug, Request(IF o.k = "s" THEN "s" ELSE "m", o.level, asked[o.plug] + 1),
                       noise)
       /\ calm' = [calm EXCEPT ![o.plug] = 0]
  /\ deviceMessage' = << >>
  /\ UNCHANGED <<stage, pollMessage, cur, waiting, repeatPolling, errorOpen, power, idVars,
                 dataVars, message, job, after, heard, stale, rounds>>

NoMoreInput ==
  /\ Free("computer")
  /\ stage' = "device"
  /\ UNCHANGED <<pollMessage, cur, waiting, listenDevice, repeatPolling, hearVars, boardVars,
                 seenVars, calm, bounds>>

RepeatDue ==
  /\ Free("repeat") /\ repeatPolling
  /\ StartPolling("v")
  /\ stage' = "computer"
  /\ UNCHANGED <<waiting, listenDevice, repeatPolling, hearVars, boardVars, seenVars, calm, faults>>

RepeatNotDue ==
  /\ Free("repeat")
  /\ stage' = "computer"
  /\ UNCHANGED <<pollMessage, cur, waiting, listenDevice, repeatPolling, hearVars,
                 boardVars, seenVars, calm, bounds>>

Poll ==
  /\ pollMessage # "none" /\ ~waiting
  /\ deviceMessage' = << >>
  /\ Listen(cur)
  /\ \E noise \in BOOLEAN :
       /\ noise => faults < MaxFaults
       /\ faults' = IF noise THEN faults + 1 ELSE faults
       /\ Println(cur, Request(pollMessage, 0, asked[cur] + 1), noise)
       /\ calm' = [calm EXCEPT ![cur] = IF Ready(cur) /\ ~noise THEN @ ELSE 0]
  /\ waiting' = TRUE
  /\ UNCHANGED <<stage, pollMessage, cur, listenDevice, repeatPolling, errorOpen, power,
                 idVars, dataVars, message, job, after, heard, stale, rounds>>

-----------------------------------------------------------------------------
(* The bridge: what it hears *)

(* Mutant: i <= MAX_DEVICE_COUNT.                                          *)
NextPlugTooFar ==
  /\ waiting' = FALSE
  /\ calm' = [calm EXCEPT ![cur] = IF @ < 2 THEN @ + 1 ELSE @]
  /\ IF cur <= MAX_DEVICE_COUNT
     THEN cur' = cur + 1 /\ UNCHANGED pollMessage
     ELSE cur' = 0 /\ pollMessage' = "none"

NextPlug ==
  /\ waiting' = FALSE
  /\ calm' = [calm EXCEPT ![cur] = IF @ < 2 THEN @ + 1 ELSE @]
  /\ IF cur < MAX_DEVICE_COUNT
     THEN cur' = cur + 1 /\ UNCHANGED pollMessage
     ELSE cur' = 0 /\ pollMessage' = "none"

Forward(p, s) ==
  IF ChecksumOk(s)
  THEN /\ heard' = [heard EXCEPT ![p] = Content(s)]
       /\ stale' = (stale \/ heard'[p].nr <= heard[p].nr)
       /\ errorOpen' = FALSE
  ELSE errorOpen' = TRUE /\ UNCHANGED <<heard, stale>>

(* processDeviceMessage(): it reads what has come, up to a line end, the   *)
(* only case it returns true.                                              *)
Control(s)  == {k \in 1 .. Len(s) : s[k].t \in {"cr", "lf"}}
FirstOf(K)  == CHOOSE k \in K : \A j \in K : k <= j
Upto(s, k)  == SubSeq(s, 1, k - 1)
Beyond(s, k) == SubSeq(s, k + 1, Len(s))

Characters ==
  /\ ring # << >> /\ Control(ring) = {}
  /\ deviceMessage' = deviceMessage \o ring
  /\ ring' = << >>
  /\ UNCHANGED <<heard, stale, errorOpen>>

(* Mutant: deviceMessageIndex is not set back after a line.                *)
LineEndKeepsLine(p) ==
  /\ Control(ring) # {}
  /\ ring' = Beyond(ring, FirstOf(Control(ring)))
  /\ LET s == deviceMessage \o Upto(ring, FirstOf(Control(ring))) IN
     /\ IF s # << >> THEN Forward(p, s) ELSE UNCHANGED <<heard, stale, errorOpen>>
     /\ deviceMessage' = s

LineEnd(p) ==
  /\ Control(ring) # {}
  /\ ring' = Beyond(ring, FirstOf(Control(ring)))
  /\ LET s == deviceMessage \o Upto(ring, FirstOf(Control(ring))) IN
     IF s # << >> THEN Forward(p, s) ELSE UNCHANGED <<heard, stale, errorOpen>>
  /\ deviceMessage' = << >>

PollHears ==
  /\ waiting
  /\ \/ LineEnd(cur) /\ NextPlug
     \/ Characters /\ UNCHANGED <<cur, pollMessage, waiting, calm>>
  /\ UNCHANGED <<stage, listenDevice, repeatPolling, active, boardVars, asked, bounds>>

(* RESPONSE_TIMEOUT.  A board that has the request and is not held up      *)
(* answers well within it.                                                 *)
Answering(p) ==
  /\ power[p] = "up" /\ job[p] = NoMsg
  /\ tx[p] # << >> \/ (rx[p] # << >> /\ ~after[p])

PollTimesOut ==
  /\ waiting /\ ring = << >> /\ ~Answering(cur)
  /\ NextPlug
  /\ UNCHANGED <<stage, listenDevice, repeatPolling, hearVars, boardVars, seenVars,
                 bounds>>

(* loop() hears the plug of the last line passed on, provided no poll has  *)
(* taken the receiver elsewhere since.                                     *)
LoopCanHear == listenDevice # 0 /\ active = listenDevice /\ ring # << >>

LoopHears ==
  /\ Free("device") /\ LoopCanHear
  /\ LineEnd(listenDevice) \/ Characters
  /\ UNCHANGED <<bridgeVars, active, boardVars, asked, calm, bounds>>

LoopHearsNothing ==
  /\ Free("device") /\ ~LoopCanHear
  /\ stage' = "repeat"
  /\ UNCHANGED <<pollMessage, cur, waiting, listenDevice, repeatPolling, hearVars,
                 boardVars, seenVars, calm, bounds>>

-----------------------------------------------------------------------------
(* The boards: power and ID *)

(* Everything but the EEPROM is lost.                                      *)
PowerCut(p) ==
  /\ power[p] # "off" /\ faults < MaxFaults /\ faults' = faults + 1
  /\ power' = [power EXCEPT ![p] = "off"]
  /\ deviceId' = [deviceId EXCEPT ![p] = 0]
  /\ level' = [level EXCEPT ![p] = 0]
  /\ reading' = [reading EXCEPT ![p] = 0] /\ valid' = [valid EXCEPT ![p] = FALSE]
  /\ rx' = [rx EXCEPT ![p] = << >>] /\ message' = [message EXCEPT ![p] = << >>]
  /\ job' = [job EXCEPT ![p] = NoMsg] /\ tx' = [tx EXCEPT ![p] = << >>]
  /\ after' = [after EXCEPT ![p] = FALSE]
  /\ calm' = [calm EXCEPT ![p] = 0]
  /\ UNCHANGED <<bridgeVars, hearVars, marker, eeId, usedIds, seenVars, rounds>>

GoByIds(p, id) ==
  /\ deviceId' = [deviceId EXCEPT ![p] = id]
  /\ usedIds' = [usedIds EXCEPT ![p] = @ \cup {id}]
  /\ power' = [power EXCEPT ![p] = "up"]

(* getDeviceId(): a marked EEPROM is believed, also when the power failed  *)
(* between the marker and the ID (0 is what the cells held before).        *)
ReadMarker(p) ==
  /\ power[p] = "off"
  /\ \/ marker[p] /\ GoByIds(p, eeId[p]) /\ UNCHANGED marker
     \/ /\ ~marker[p]
        /\ marker' = [marker EXCEPT ![p] = TRUE]
        /\ power' = [power EXCEPT ![p] = "id"]
        /\ UNCHANGED <<deviceId, usedIds>>
  /\ UNCHANGED <<bridgeVars, hearVars, eeId, dataVars, wireVars, seenVars, calm, bounds>>

(* Mutant: the ID is used without being stored.                            *)
WriteIdNowhere(p) ==
  /\ power[p] = "id"
  /\ \E id \in Ids : GoByIds(p, id)
  /\ UNCHANGED <<bridgeVars, hearVars, marker, eeId, dataVars, wireVars, seenVars, calm,
                 bounds>>

WriteId(p) ==
  /\ power[p] = "id"
  /\ \E id \in Ids : eeId' = [eeId EXCEPT ![p] = id] /\ GoByIds(p, id)
  /\ UNCHANGED <<bridgeVars, hearVars, marker, dataVars, wireVars, seenVars, calm, bounds>>

-----------------------------------------------------------------------------
(* The boards: processMessage() of each sketch, for plug p and line s *)

(* An answer is numbered like the newest request its line has a piece of.  *)
Nr(s) == CHOOSE n \in {s[k].of.nr : k \in 1 .. Len(s)} :
           \A k \in 1 .. Len(s) : s[k].of.nr <= n

Say(p, c, v, n) == tx' = [tx EXCEPT ![p] = Written(Answer(c, v, p, n), FALSE)]

(* "e:", the command and as many arguments as parseMessage counted: after  *)
(* a checksum error whatever the stack holds, often more than a buffer.    *)
SayError(p, s) ==
  /\ Command(s) \notin {"v", "m"}
  /\ Command(s) = "s" => ArgCount(s) = 0
  /\ \E cut \in IF Refused(s) THEN BOOLEAN ELSE {FALSE} :
       tx' = [tx EXCEPT ![p] = Written(Answer("e", 0, p, Nr(s)), cut)]
  /\ UNCHANGED <<dataVars, job, after, calm>>

SayId(p, s) ==
  /\ Command(s) = "m"
  /\ Say(p, "m", deviceId[p], Nr(s))
  /\ UNCHANGED <<dataVars, job, after, calm>>

SayValue(p, s) ==
  /\ Command(s) = "v"
  /\ Does[Sketch[p]].reads => valid[p]
  /\ \E v \in IF Does[Sketch[p]].outputs THEN {level[p]}
              ELSE IF Does[Sketch[p]].reads THEN {reading[p]} ELSE {Nothing, Measured} :
       Say(p, "v", v, Nr(s))
  /\ after' = [after EXCEPT ![p] = Does[Sketch[p]].pauses]
  /\ UNCHANGED <<dataVars, job, calm>>

(* "normally we read after a request, but the first time we should read    *)
(* before the request": the answer then waits for the sensor.              *)
ReadFirst(p, s) ==
  /\ Command(s) = "v"
  /\ Does[Sketch[p]].reads /\ ~valid[p]
  /\ job' = [job EXCEPT ![p] = Request("v", 0, Nr(s))]
  /\ calm' = [calm EXCEPT ![p] = 0]
  /\ UNCHANGED <<dataVars, tx, after>>

(* args[0] is uninitialised when a refused line has no ':'.                *)
SetValues(p, s) ==
  /\ Command(s) = "s" /\ ArgCount(s) >= 1
  /\ \E v \in IF ArgPieces(s) # {} THEN {Arg0(s)} ELSE Levels :
       /\ level' = [level EXCEPT ![p] = IF Does[Sketch[p]].outputs THEN v ELSE @]
       /\ Say(p, "s", v, Nr(s))
  /\ UNCHANGED <<reading, valid, job, after, calm>>

(* Mutant: the first request is answered at once, too.                     *)
ServeUnread(p, s) ==
  \/ /\ Command(s) = "v"
     /\ Say(p, "v", IF Does[Sketch[p]].outputs THEN level[p] ELSE reading[p], Nr(s))
     /\ after' = [after EXCEPT ![p] = Does[Sketch[p]].pauses]
     /\ UNCHANGED <<dataVars, job, calm>>
  \/ SetValues(p, s) \/ SayId(p, s) \/ SayError(p, s)

Serve(p, s) ==
  SayValue(p, s) \/ ReadFirst(p, s) \/ SetValues(p, s) \/ SayId(p, s) \/ SayError(p, s)

(* processIncomingByte(): CR ends the line, LF is skipped.  A step reads up *)
(* to the next of either, or all there is.                                 *)
ReadTo(p) == IF Control(rx[p]) = {} THEN Len(rx[p]) + 1 ELSE FirstOf(Control(rx[p]))
AtCR(p) == Control(rx[p]) # {} /\ rx[p][ReadTo(p)].t = "cr"
NextLine(p) == message[p] \o Upto(rx[p], ReadTo(p))

MayRead(p) == power[p] = "up" /\ Idle(p) /\ rx[p] # << >>

(* The line so far, while its end is still to come.                        *)
TakeBytes(p) ==
  /\ MayRead(p) /\ ~AtCR(p)
  /\ rx' = [rx EXCEPT ![p] = Beyond(@, ReadTo(p))]
  /\ message' = [message EXCEPT ![p] = NextLine(p)]
  /\ UNCHANGED <<bridgeVars, hearVars, power, idVars, dataVars, job, tx, after, seenVars,
                 calm, bounds>>

(* Mutant: messageIndex is not set back.                                   *)
TakeLineKeepsIt(p) ==
  /\ MayRead(p) /\ AtCR(p)
  /\ rx' = [rx EXCEPT ![p] = Beyond(@, ReadTo(p))]
  /\ message' = [message EXCEPT ![p] = NextLine(p)]
  /\ IF NextLine(p) = << >> THEN UNCHANGED <<dataVars, job, tx, after, calm>>
     ELSE Serve(p, NextLine(p))
  /\ UNCHANGED <<bridgeVars, hearVars, power, idVars, seenVars, bounds>>

TakeLine(p) ==
  /\ MayRead(p) /\ AtCR(p)
  /\ rx' = [rx EXCEPT ![p] = Beyond(@, ReadTo(p))]
  /\ message' = [message EXCEPT ![p] = << >>]
  /\ IF NextLine(p) = << >> THEN UNCHANGED <<dataVars, job, tx, after, calm>>
     ELSE Serve(p, NextLine(p))
  /\ UNCHANGED <<bridgeVars, hearVars, power, idVars, seenVars, bounds>>

-----------------------------------------------------------------------------
(* The boards: sensors and answers *)

(* readSensor(): a CO2 sensor that does not answer leaves the old value,   *)
(* and the value valid; the DHT22's value is then not a number.            *)
ReadSensor(p) ==
  /\ \/ reading' = [reading EXCEPT ![p] = Measured] /\ UNCHANGED faults
     \/ /\ Sketch[p] \in {"co2", "dht22"} /\ faults < MaxFaults /\ faults' = faults + 1
        /\ reading' = [reading EXCEPT ![p] = IF Sketch[p] = "co2" THEN @ ELSE NaN]
  /\ valid' = [valid EXCEPT ![p] = TRUE]

FirstReading(p) ==
  /\ job[p] # NoMsg
  /\ ReadSensor(p)
  /\ Say(p, "v", reading'[p], job[p].nr)
  /\ job' = [job EXCEPT ![p] = NoMsg]
  /\ after' = [after EXCEPT ![p] = TRUE]
  /\ UNCHANGED <<bridgeVars, hearVars, power, idVars, level, rx, message, seenVars, calm,
                 rounds>>

(* delay(20), then the reading that the next request will be told.         *)
PauseEnds(p) ==
  /\ after[p] /\ tx[p] = << >>
  /\ IF Does[Sketch[p]].reads THEN ReadSensor(p) ELSE UNCHANGED <<reading, valid, faults>>
  /\ after' = [after EXCEPT ![p] = FALSE]
  /\ UNCHANGED <<bridgeVars, hearVars, power, idVars, level, rx, message, job, tx, seenVars,
                 calm, rounds>>

(* write(): what reaches the bridge if it listens to this line, up to the  *)
(* CR, and the LF as a step of its own.                                    *)
Chunk(s) == IF Control(s) = {} THEN Len(s) ELSE FirstOf(Control(s))

Write(p) ==
  /\ tx[p] # << >>
  /\ LET k == Chunk(tx[p]) IN
     /\ tx' = [tx EXCEPT ![p] = Beyond(@, k)]
     /\ \/ /\ ring' = IF active = p THEN ring \o SubSeq(tx[p], 1, k) ELSE ring
           /\ UNCHANGED <<faults, calm>>
        \/ /\ active = p /\ faults < MaxFaults /\ faults' = faults + 1
           /\ \E s \in Damaged(SubSeq(tx[p], 1, k)) : ring' = ring \o s
           /\ calm' = [calm EXCEPT ![p] = 0]
  /\ UNCHANGED <<bridgeVars, active, deviceMessage, errorOpen, power, idVars, dataVars, rx,
                 message, job, after, seenVars, rounds>>

-----------------------------------------------------------------------------
Bridge ==
  \/ PollOnCommand \/ RepeatOnCommand \/ PassOn \/ NoMoreInput
  \/ RepeatDue \/ RepeatNotDue
  \/ Poll \/ PollHears \/ PollTimesOut
  \/ LoopHears \/ LoopHearsNothing

Board(p) ==
  \/ PowerCut(p) \/ ReadMarker(p) \/ WriteId(p)
  \/ TakeBytes(p) \/ TakeLine(p)
  \/ FirstReading(p) \/ PauseEnds(p) \/ Write(p)

Next == Bridge \/ \E p \in Plugs : Board(p)

Spec == Init /\ [][Next]_vars
-----------------------------------------------------------------------------
(* Properties *)

Messages == [cmd : {"v", "m", "s", "e", "none"}, arg : Nat, by : 0 .. MAX_DEVICE_COUNT,
             nr : Nat]
Pieces == [t : {"cmd", "arg", "sum", "cr", "lf", "junk"}, of : Messages]

(* Every variable keeps its kind.                                          *)
TypeOK ==
  /\ stage \in {"computer", "device", "repeat"}
  /\ pollMessage \in {"none", "v", "m"} /\ cur \in 0 .. MAX_DEVICE_COUNT
  /\ pollMessage = "none" <=> cur = 0
  /\ waiting => cur # 0 /\ active = cur
  /\ listenDevice \in 0 .. MAX_DEVICE_COUNT /\ active \in Plugs
  /\ ring \in Seq(Pieces) /\ deviceMessage \in Seq(Pieces)
  /\ power \in [Plugs -> {"off", "id", "up"}]
  /\ rx \in [Plugs -> Seq(Pieces)] /\ tx \in [Plugs -> Seq(Pieces)]
  /\ message \in [Plugs -> Seq(Pieces)]
  /\ \A p \in Plugs : rx[p] # << >> => Len(rx[p]) <= RxBuff

(* What is passed on as plug p's was written by plug p's board, although   *)
(* one receive buffer serves all plugs, boards answer late, and a line may *)
(* still be coming in when the bridge turns to the next plug.              *)
ForwardedOwn == \A p \in Plugs : heard[p].by \in {0, p}

(* A board's answers are passed on in the order of the requests, each at   *)
(* most once: nothing is served or passed on twice after a broken line.    *)
ForwardedInOrder == ~stale

(* No board that reads its sensor on request answers with the value it     *)
(* woke up with.  The CO2 board is excepted: its failed first reading      *)
(* counts as one.                                                          *)
ReadingMeasured ==
  \A p \in Plugs :
    /\ Does[Sketch[p]].reads /\ Sketch[p] # "co2"
    /\ heard[p].cmd = "v"
    => heard[p].arg # Nothing

(* README, IDs: a board's ID is "stored on the device and preserved", also *)
(* when its power fails while the ID is being chosen.                      *)
IdKept == \A p \in Plugs : \A a, b \in usedIds[p] : a = b

(* doPolling leaves a plug without having passed on the answer to this     *)
(* very request only if something disturbed the plug in this exchange or   *)
(* in one of the two before: noise, a power cut, a busy board, a line      *)
(* passed on to it.  So whatever a broken line leaves in the buffers of    *)
(* the two ends spoils one more exchange at most.                          *)
SilenceHasCause ==
  [][\A p \in Plugs :
       waiting /\ cur = p /\ cur' # p /\ calm[p] = 2 => heard'[p].nr = asked[p]]_vars

(* Sensaur.cpp: parseMessage "returns number of args or -1 if error (e.g.  *)
(* checksum error)", and the sketches serve a line only if that is at      *)
(* least 0: an output follows only a line whose checksum fits.             *)
OnlyCheckedServed ==
  [][\A p \in Plugs :
       power'[p] = "up" /\ level'[p] # level[p] => ~Refused(NextLine(p))]_vars
=============================================================================

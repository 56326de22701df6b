----------------------------- MODULE HubPolling -----------------------------
(***************************************************************************)
(* The hub's main loop and the plugs it polls (hub-esp32/hub-esp32.ino,    *)
(* the USE_SWSERIAL build, with Device/Component of libraries/             *)
(* SensaurDevice).  Once per poll the hub asks every plug for 'v'alues, or *)
(* for 'm'etadata while it knows no component there, and waits for one     *)
(* line of answer; a queued actuator request makes it send an 's'et line   *)
(* to the devices it names.  Devices are inserted, pulled out and swapped  *)
(* at any moment.                                                          *)
(*                                                                         *)
(* A line of text is one message here.  What survives of the characters is *)
(* the receive buffer's leftover: flush() empties the decoded bytes only,  *)
(* so line-end edges captured after the read loop broke off are decoded by *)
(* the next write and head the next answer.                                *)
(***************************************************************************)
EXTENDS Naturals, Sequences, FiniteSets

CONSTANTS
  MAX_DEVICE_COUNT,     (* number of plugs (6 on the board)                *)
  MAX_COMPONENT_COUNT,  (* component slots per Device object (6)           *)
  Devices,              (* the sensor/actuator boards                      *)
  NoDevice,             (* an empty plug, an empty m_id, an empty m_value  *)
  Meta,                 (* what each board's metadata line says            *)
  ActValues,            (* values an output can have; 0 is power-on        *)
  Requests,             (* actuator requests the queue can hand over       *)
  NoResponseCap,        (* bound: m_noResponseCount saturates here         *)
  Leftovers,            (* what can head the next answer after an answer   *)
  Mishaps,              (* what can befall a publish: "lost", "late"       *)
  MaxFaults,            (* bound: lost, late or garbled messages           *)
  MaxMoves,             (* bound: insertions and removals                  *)
  MaxRestarts           (* bound: esp_restart() calls                      *)

Plugs == 1 .. MAX_DEVICE_COUNT
Slots == 1 .. MAX_COMPONENT_COUNT

(***************************************************************************)
(* Meta[d] lists the suffixes of d's components in order (the ID suffix is *)
(* the first 5 characters of the type), the slots that are outputs and     *)
(* those that are inputs, and how many values d's 'v' answer carries (the  *)
(* relay reports its output there too).  Boards with all                   *)
(* MAX_COMPONENT_COUNT components are left out: the argument array of      *)
(* processMessageFromDevice is one pointer short for them.                 *)
(***************************************************************************)
ASSUME HubAssumption ==
  /\ MAX_DEVICE_COUNT \in Nat \ {0}
  /\ MAX_COMPONENT_COUNT \in Nat \ {0}
  /\ NoDevice \notin Devices
  /\ 0 \in ActValues
  /\ NoResponseCap \in Nat /\ NoResponseCap >= 2
  /\ Leftovers \subseteq {"clear", "eol", "junk"}
  /\ Mishaps \subseteq {"lost", "late"}
  /\ MaxFaults \in Nat /\ MaxMoves \in Nat /\ MaxRestarts \in Nat
  /\ \A d \in Devices :
       /\ Len(Meta[d].suffix) \in 1 .. MAX_COMPONENT_COUNT - 1
       /\ Meta[d].outs \in Seq(1 .. Len(Meta[d].suffix))
       /\ Meta[d].ins \in Seq(1 .. Len(Meta[d].suffix))
       /\ Meta[d].readings \in Nat
  /\ \A r \in Requests : \A a \in r : a.v \in ActValues

VARIABLES
  (* the boards *)
  plug,             (* plug[p]: the board in plug p                        *)
  out,              (* out[d][k]: the level of d's output k                *)
  inbox,            (* inbox[p]: command received by p's board, unserved   *)
  (* the line *)
  line,             (* line[p]: what heads the next answer read from p     *)
  reply,            (* the answer on its way to the hub                    *)
  waiting,          (* the hub is inside waitForResponse for plug cur      *)
  (* the hub *)
  pc,               (* where loop() is                                     *)
  cur,              (* plug of the doPolling/updateActuators iteration     *)
  todo,             (* the actuator request being served                   *)
  connected, noResponseCount, componentCount, devId, value, actuatorValue,
  led,              (* the plug's yellow LED                               *)
  (* the topics the hub publishes to *)
  announced,        (* .../devices, as the server has it: plug, ID, count  *)
  sensors,          (* .../sensors, last sent: ID, slot, origin of value   *)
  asked,            (* {l}: aws_iot_task is about to send l on req_devices *)
  (* history and bounds *)
  unanswered,       (* exchanges in a row p's occupant left unanswered     *)
  clean,            (* p's occupant was inserted while the hub knew of none*)
  untold,           (* a list newer than announced was lost or overtaken   *)
  overtaken,        (* loop() sent a list since the one of asked was made  *)
  faults, moves, restarts

boardVars == <<plug, out, inbox>>
lineVars  == <<line, reply, waiting>>
loopVars  == <<pc, cur, todo>>
devVars   == <<connected, noResponseCount, componentCount, devId, value, actuatorValue, led>>
toldVars  == <<announced, untold, overtaken>>
sentVars  == <<toldVars, sensors, asked>>
histVars  == <<unanswered, clean>>
bounds    == <<faults, moves, restarts>>
vars == <<boardVars, lineVars, loopVars, devVars, sentVars, histVars, bounds>>

-----------------------------------------------------------------------------
(* Messages *)

NoCommand == [cmd |-> "none", args |-> << >>]
Commands  == [cmd : {"v", "m", "s"}, args : Seq(ActValues)] \cup {NoCommand}

Nothing    == [kind |-> "nothing", from |-> NoDevice]
Garbled(d) == [kind |-> "garbled", from |-> d]
Messages   == [kind : {"v", "m", "s", "e", "garbled"}, from : Devices] \cup {Nothing}

(* Outputs board d sets when it serves command c: an 's' with too few      *)
(* arguments is refused with an 'e' line.                                  *)
Accepts(d, c) == c.cmd = "s" /\ Len(c.args) >= Len(Meta[d].outs)

Served(d, c) ==
  [k \in Slots |->
     IF Accepts(d, c) /\ \E r \in 1 .. Len(Meta[d].outs) : Meta[d].outs[r] = k
     THEN c.args[CHOOSE r \in 1 .. Len(Meta[d].outs) : Meta[d].outs[r] = k]
     ELSE out[d][k]]

Answer(d, c) ==
  [kind |-> IF c.cmd = "s" /\ ~Accepts(d, c) THEN "e" ELSE c.cmd, from |-> d]

PowerOn == [k \in Slots |-> 0]

-----------------------------------------------------------------------------
(* What the hub knows of plug p; count is a componentCount function so     *)
(* that an announcement can be computed from the state a step leads to.    *)

ConnectedPlugs(conn) == {p \in Plugs : conn[p]}

DeviceList(conn, ids, count) ==
  {<<p, ids[p], count[p]>> : p \in ConnectedPlugs(conn)}

SensorList ==
  UNION {{<<devId[p], k, value[p][k]>> : k \in 1 .. componentCount[p]}
           : p \in ConnectedPlugs(connected)}

Named(p, k) ==
  {a \in todo : a.id = devId[p] /\ a.suffix = Meta[devId[p]].suffix[k]}

IsUpdated(p) == \E k \in 1 .. componentCount[p] : Named(p, k) # {}

Updated(p) ==
  [k \in Slots |->
     IF k <= componentCount[p] /\ Named(p, k) # {}
     THEN (CHOOSE a \in Named(p, k) : TRUE).v
     ELSE actuatorValue[p][k]]

(* Mutant: unnamed outputs are sent as 0 instead of their last value.      *)
SetCommandNamedOnly(p) ==
  [cmd  |-> "s",
   args |-> [r \in 1 .. Len(Meta[devId[p]].outs) |->
               IF Named(p, Meta[devId[p]].outs[r]) = {} THEN 0
               ELSE Updated(p)[Meta[devId[p]].outs[r]]]]

SetCommand(p) ==
  [cmd  |-> "s",
   args |-> [r \in 1 .. Len(Meta[devId[p]].outs) |-> Updated(p)[Meta[devId[p]].outs[r]]]]

(* Mutant: values are asked for from the first contact on.                 *)
PollCommandOnContact(p) ==
  [cmd |-> IF connected[p] THEN "v" ELSE "m", args |-> << >>]

PollCommand(p) ==
  [cmd |-> IF componentCount[p] > 0 THEN "v" ELSE "m", args |-> << >>]

Bump(n) == IF n < NoResponseCap THEN n + 1 ELSE n

-----------------------------------------------------------------------------
Init ==
  /\ plug = [p \in Plugs |-> NoDevice]
  /\ out = [d \in Devices |-> PowerOn]
  /\ inbox = [p \in Plugs |-> NoCommand]
  /\ line = [p \in Plugs |-> "clear"]
  /\ reply = Nothing /\ waiting = FALSE
  /\ pc = "queue" /\ cur = 0 /\ todo = {}
  /\ connected = [p \in Plugs |-> FALSE]
  /\ noResponseCount = [p \in Plugs |-> 0]
  /\ componentCount = [p \in Plugs |-> 0]
  /\ devId = [p \in Plugs |-> NoDevice]
  /\ value = [p \in Plugs |-> [k \in Slots |-> NoDevice]]
  /\ actuatorValue = [p \in Plugs |-> PowerOn]
  /\ led = [p \in Plugs |-> FALSE]
  /\ announced = {} /\ sensors = {} /\ asked = {}
  /\ untold = FALSE /\ overtaken = FALSE
  /\ unanswered = [p \in Plugs |-> 0]
  /\ clean = [p \in Plugs |-> TRUE]
  /\ faults = 0 /\ moves = 0 /\ restarts = 0

-----------------------------------------------------------------------------
(* The boards and the people who plug them *)

Insert(p, d) ==
  /\ moves < MaxMoves
  /\ plug[p] = NoDevice
  /\ \A q \in Plugs : plug[q] # d
  /\ plug' = [plug EXCEPT ![p] = d]
  /\ clean' = [clean EXCEPT ![p] = ~connected[p] /\ ~(waiting /\ cur = p)]
  /\ moves' = moves + 1
  /\ UNCHANGED <<out, inbox, lineVars, loopVars, devVars, sentVars, unanswered, faults, restarts>>

(* The board loses its power, hence its outputs and what it had received.  *)
Remove(p) ==
  /\ moves < MaxMoves
  /\ plug[p] # NoDevice
  /\ plug' = [plug EXCEPT ![p] = NoDevice]
  /\ out' = [out EXCEPT ![plug[p]] = PowerOn]
  /\ inbox' = [inbox EXCEPT ![p] = NoCommand]
  /\ moves' = moves + 1
  /\ UNCHANGED <<lineVars, loopVars, devVars, sentVars, histVars, faults, restarts>>

(* The sketches' processIncomingByte/processMessage.  The hub hears the    *)
(* answer only while it is still in the read loop for this plug.           *)
Serve(p) ==
  /\ inbox[p] # NoCommand
  /\ out' = [out EXCEPT ![plug[p]] = Served(plug[p], inbox[p])]
  /\ reply' = IF waiting /\ cur = p THEN Answer(plug[p], inbox[p]) ELSE reply
  /\ inbox' = [inbox EXCEPT ![p] = NoCommand]
  /\ UNCHANGED <<plug, line, waiting, loopVars, devVars, sentVars, histVars, bounds>>

(* Noise on the line: a command nobody understands, an answer whose        *)
(* checksum is wrong.                                                      *)
LoseCommand(p) ==
  /\ faults < MaxFaults
  /\ inbox[p] # NoCommand
  /\ inbox' = [inbox EXCEPT ![p] = NoCommand]
  /\ faults' = faults + 1
  /\ UNCHANGED <<plug, out, lineVars, loopVars, devVars, sentVars, histVars, moves, restarts>>

GarbleReply ==
  /\ faults < MaxFaults
  /\ reply.kind \notin {"nothing", "garbled"}
  /\ reply' = Garbled(reply.from)
  /\ faults' = faults + 1
  /\ UNCHANGED <<boardVars, line, waiting, loopVars, devVars, sentVars, histVars, moves, restarts>>

-----------------------------------------------------------------------------
(* processMessageFromDevice, called by waitForResponseSwSerial *)

(* What the read loop yields: nothing before a control character or the    *)
(* timeout, or one line, its checksum spoilt by whatever preceded it.      *)
Read(p, msg) ==
  IF line[p] = "junk" THEN Garbled(msg.from) ELSE msg

(* Mutant: a silence is not counted.                                       *)
NoResponseUncounted(p) ==
  UNCHANGED <<noResponseCount, connected, componentCount, devId, value, actuatorValue, led,
              toldVars>>

NoResponse(p) ==
  /\ noResponseCount' = [noResponseCount EXCEPT ![p] = Bump(@)]
  /\ UNCHANGED <<connected, componentCount, devId, value, actuatorValue, led, toldVars>>

Responded(p) ==
  /\ connected' = [connected EXCEPT ![p] = TRUE]
  /\ noResponseCount' = [noResponseCount EXCEPT ![p] = 0]

(* componentCount once a first answer has reset the components.            *)
CountOnContact(p) == IF connected[p] THEN componentCount[p] ELSE 0

(* sendDeviceInfo() in loop(): hubPublish() delivers the list or fails,    *)
(* whatever it returns, and nobody sends it again.                         *)
SendDeviceInfo(list) ==
  /\ \/ announced' = list /\ untold' = FALSE
     \/ "lost" \in Mishaps /\ announced' = announced /\ untold' = TRUE
  /\ overtaken' = (asked # {})

(* Mutant: the first ID a plug ever had is kept.                           *)
TakeMetadataKeepId(p, d) ==
  /\ devId' = [devId EXCEPT ![p] = IF @ = NoDevice THEN d ELSE @]
  /\ componentCount' = [componentCount EXCEPT ![p] = Len(Meta[d].suffix)]
  /\ led' = [led EXCEPT ![p] = TRUE]
  /\ SendDeviceInfo(DeviceList([connected EXCEPT ![p] = TRUE], devId', componentCount'))
  /\ UNCHANGED <<value, actuatorValue>>

TakeMetadata(p, d) ==
  /\ devId' = [devId EXCEPT ![p] = d]
  /\ componentCount' = [componentCount EXCEPT ![p] = Len(Meta[d].suffix)]
  /\ led' = [led EXCEPT ![p] = TRUE]
  /\ SendDeviceInfo(DeviceList([connected EXCEPT ![p] = TRUE], devId', componentCount'))
  /\ UNCHANGED <<value, actuatorValue>>

TakeValues(p, d) ==
  LET ins == Meta[devId[p]].ins IN
  /\ componentCount' = [componentCount EXCEPT ![p] = CountOnContact(p)]
  /\ value' = [value EXCEPT ![p] =
       [k \in Slots |->
          IF /\ CountOnContact(p) > 0
             /\ \E r \in 1 .. Len(ins) : ins[r] = k /\ r <= Meta[d].readings
          THEN d ELSE value[p][k]]]
  /\ UNCHANGED <<devId, actuatorValue, led, toldVars>>

TakeNothing(p) ==
  /\ componentCount' = [componentCount EXCEPT ![p] = CountOnContact(p)]
  /\ UNCHANGED <<devId, value, actuatorValue, led, toldVars>>

Response(p, msg) ==
  \/ msg.kind = "nothing" /\ NoResponse(p)
  \/ msg.kind = "m" /\ Responded(p) /\ TakeMetadata(p, msg.from)
  \/ msg.kind = "v" /\ Responded(p) /\ TakeValues(p, msg.from)
  \/ msg.kind \in {"s", "e", "garbled"} /\ Responded(p) /\ TakeNothing(p)

-----------------------------------------------------------------------------
(* One iteration of the plug loop of doPolling or of updateActuators *)

NextPlug ==
  IF cur < MAX_DEVICE_COUNT
  THEN cur' = cur + 1 /\ UNCHANGED <<pc, todo>>
  ELSE /\ cur' = 0 /\ todo' = {}
       /\ pc' = IF pc = "act" THEN "poll" ELSE "check"

(* flush(), then the command.  Its first write decodes what is left on the *)
(* line; a line end there ends the read loop before the board can answer.  *)
(* The pauses between exchanges give a board time to finish its last one.  *)
Send(p, c) ==
  /\ inbox[p] = NoCommand
  /\ inbox' = [inbox EXCEPT ![p] = IF plug[p] = NoDevice THEN NoCommand ELSE c]
  /\ \/ /\ line[p] = "eol"
        /\ line' = [line EXCEPT ![p] = "clear"]
        /\ noResponseCount' = [noResponseCount EXCEPT ![p] = Bump(@)]
        /\ unanswered' = [unanswered EXCEPT ![p] = IF plug[p] = NoDevice THEN Bump(@) ELSE 0]
        /\ NextPlug
        /\ UNCHANGED waiting
     \/ /\ line[p] # "eol"
        /\ waiting' = TRUE
        /\ UNCHANGED <<line, noResponseCount, unanswered, loopVars>>
  /\ UNCHANGED <<plug, out, reply, connected, componentCount, devId, value, led,
                 sentVars, clean, bounds>>

PollPlug ==
  /\ pc = "poll" /\ cur > 0 /\ ~waiting
  /\ Send(cur, PollCommand(cur))
  /\ UNCHANGED actuatorValue

UpdatePlug ==
  /\ pc = "act" /\ ~waiting
  /\ IsUpdated(cur)
  /\ actuatorValue' = [actuatorValue EXCEPT ![cur] = Updated(cur)]
  /\ Send(cur, SetCommand(cur))

SkipPlug ==
  /\ pc = "act" /\ ~waiting
  /\ ~IsUpdated(cur)
  /\ NextPlug
  /\ UNCHANGED <<boardVars, lineVars, devVars, sentVars, histVars, bounds>>

(* The end of the read loop: a line end after an answer, or the timeout.   *)
(* enableTx(true) may come before, during or after the board's last LF.    *)
GetReply ==
  /\ waiting /\ reply # Nothing
  /\ Response(cur, Read(cur, reply))
  /\ \E left \in Leftovers : line' = [line EXCEPT ![cur] = left]
  /\ waiting' = FALSE /\ reply' = Nothing
  /\ unanswered' = [unanswered EXCEPT ![cur] = 0]
  /\ NextPlug
  /\ UNCHANGED <<boardVars, sensors, asked, clean, bounds>>

TimeOut ==
  /\ waiting /\ reply = Nothing
  /\ \/ inbox[cur] = NoCommand /\ UNCHANGED faults
     \/ inbox[cur] # NoCommand /\ faults < MaxFaults /\ faults' = faults + 1  \* too late
  /\ Response(cur, Read(cur, Nothing))
  /\ line' = [line EXCEPT ![cur] = "clear"]
  /\ waiting' = FALSE
  /\ unanswered' = [unanswered EXCEPT ![cur] = Bump(@)]
  /\ NextPlug
  /\ UNCHANGED <<boardVars, reply, sensors, asked, clean, moves, restarts>>

-----------------------------------------------------------------------------
(* loop() *)

(* The queue holds an actuator request, or nothing that touches a plug.    *)
ActuatorRequest ==
  /\ pc = "queue"
  /\ \E r \in Requests : todo' = r
  /\ pc' = "act" /\ cur' = 1
  /\ UNCHANGED <<boardVars, lineVars, devVars, sentVars, histVars, bounds>>

NoRequest ==
  /\ pc = "queue"
  /\ pc' = "poll"
  /\ UNCHANGED <<cur, todo, boardVars, lineVars, devVars, sentVars, histVars, bounds>>

PollDue ==
  /\ pc = "poll" /\ cur = 0
  /\ cur' = 1
  /\ UNCHANGED <<pc, todo, boardVars, lineVars, devVars, sentVars, histVars, bounds>>

PollNotDue ==
  /\ pc = "poll" /\ cur = 0
  /\ pc' = "check"
  /\ UNCHANGED <<cur, todo, boardVars, lineVars, devVars, sentVars, histVars, bounds>>

(* Mutant: one silence is enough.                                          *)
UnresponsiveAtOnce == {p \in Plugs : connected[p] /\ noResponseCount[p] >= 1}

Unresponsive == {p \in Plugs : connected[p] /\ noResponseCount[p] >= 2}

(* The list sent when the unresponsive plugs up to p have been dropped.    *)
ListAfterDrop(p) ==
  LET left == [q \in Plugs |-> connected[q] /\ ~(q \in Unresponsive /\ q <= p)] IN
  DeviceList(left, devId, [q \in Plugs |-> IF left[q] THEN componentCount[q] ELSE 0])

(* One list for each drop; the last that is delivered stays announced.     *)
SendDrops ==
  /\ \/ "lost" \in Mishaps /\ announced' = announced /\ untold' = TRUE
     \/ \E p \in Unresponsive :
          /\ announced' = ListAfterDrop(p)
          /\ untold' = (\E q \in Unresponsive : q > p)
          /\ untold' => "lost" \in Mishaps
  /\ overtaken' = (asked # {})

(* Mutants: the components are not reset; the server is not told.          *)
CheckKeepsComponents ==
  /\ pc = "check"
  /\ connected' = [p \in Plugs |-> connected[p] /\ p \notin Unresponsive]
  /\ led' = [p \in Plugs |-> led[p] /\ p \notin Unresponsive]
  /\ IF Unresponsive = {} THEN UNCHANGED toldVars ELSE SendDrops
  /\ clean' = [p \in Plugs |-> clean[p] \/ p \in Unresponsive]
  /\ pc' = "send"
  /\ UNCHANGED <<cur, todo, boardVars, lineVars, componentCount, noResponseCount, devId, value,
                 actuatorValue, sensors, asked, unanswered, bounds>>

CheckTellsNobody ==
  /\ pc = "check"
  /\ connected' = [p \in Plugs |-> connected[p] /\ p \notin Unresponsive]
  /\ componentCount' = [p \in Plugs |-> IF p \in Unresponsive THEN 0 ELSE componentCount[p]]
  /\ led' = [p \in Plugs |-> led[p] /\ p \notin Unresponsive]
  /\ clean' = [p \in Plugs |-> clean[p] \/ p \in Unresponsive]
  /\ pc' = "send"
  /\ UNCHANGED <<cur, todo, boardVars, lineVars, noResponseCount, devId, value, actuatorValue,
                 sentVars, unanswered, bounds>>

(* One plug of the disconnect check after another, in a single step.       *)
CheckDisconnects ==
  /\ pc = "check"
  /\ connected' = [p \in Plugs |-> connected[p] /\ p \notin Unresponsive]
  /\ componentCount' = [p \in Plugs |-> IF p \in Unresponsive THEN 0 ELSE componentCount[p]]
  /\ led' = [p \in Plugs |-> led[p] /\ p \notin Unresponsive]
  /\ IF Unresponsive = {} THEN UNCHANGED toldVars ELSE SendDrops
  /\ clean' = [p \in Plugs |-> clean[p] \/ p \in Unresponsive]
  /\ pc' = "send"
  /\ UNCHANGED <<cur, todo, boardVars, lineVars, noResponseCount, devId, value, actuatorValue,
                 sensors, asked, unanswered, bounds>>

(* Whether the values arrive is of no consequence for the hub.             *)
SendSensorValues ==
  /\ pc = "send"
  /\ sensors' = SensorList
  /\ pc' = "queue"
  /\ UNCHANGED <<cur, todo, boardVars, lineVars, devVars, toldVars, asked, histVars, bounds>>

SendNotDue ==
  /\ pc = "send"
  /\ pc' = "queue"
  /\ UNCHANGED <<cur, todo, boardVars, lineVars, devVars, sentVars, histVars, bounds>>

(* esp_restart(), on a reboot command (before polling) or the button (at   *)
(* the end of loop()): the globals start over, the boards keep their power.*)
Restart ==
  /\ restarts < MaxRestarts
  /\ pc = "queue" \/ (pc = "poll" /\ cur = 0)
  /\ restarts' = restarts + 1
  /\ pc' = "queue" /\ cur' = 0 /\ todo' = {}
  /\ line' = [p \in Plugs |-> "clear"]
  /\ connected' = [p \in Plugs |-> FALSE]
  /\ noResponseCount' = [p \in Plugs |-> 0]
  /\ componentCount' = [p \in Plugs |-> 0]
  /\ devId' = [p \in Plugs |-> NoDevice]
  /\ value' = [p \in Plugs |-> [k \in Slots |-> NoDevice]]
  /\ actuatorValue' = [p \in Plugs |-> PowerOn]
  /\ led' = [p \in Plugs |-> FALSE]
  /\ clean' = [p \in Plugs |-> TRUE]
  /\ asked' = {} /\ overtaken' = FALSE /\ untold' = TRUE   \* setup() sends no list
  /\ UNCHANGED <<boardVars, reply, waiting, announced, sensors, unanswered, faults, moves>>

-----------------------------------------------------------------------------
(* req_devices, which runCommand serves in aws_iot_task (and for the       *)
(* console in loop(), without a step in between).  The task goes through   *)
(* the devices and publishes; loop() runs while it waits for the network,  *)
(* and the list it ends up sending may be older than one sent meanwhile.   *)
RequestDevices ==
  /\ "late" \in Mishaps
  /\ asked = {}
  /\ asked' = {DeviceList(connected, devId, componentCount)}
  /\ overtaken' = FALSE
  /\ UNCHANGED <<boardVars, lineVars, loopVars, devVars, announced, untold, sensors, histVars,
                 bounds>>

RequestServed ==
  /\ asked # {} /\ asked' = {}
  /\ \/ announced' \in asked /\ untold' = overtaken
     \/ "lost" \in Mishaps /\ UNCHANGED <<announced, untold>>
  /\ overtaken' = FALSE
  /\ UNCHANGED <<boardVars, lineVars, loopVars, devVars, sensors, histVars, bounds>>

-----------------------------------------------------------------------------
Boards ==
  \/ \E p \in Plugs, d \in Devices : Insert(p, d)
  \/ \E p \in Plugs : Remove(p) \/ Serve(p) \/ LoseCommand(p)
  \/ GarbleReply

Hub ==
  \/ ActuatorRequest \/ NoRequest
  \/ PollDue \/ PollNotDue \/ PollPlug \/ UpdatePlug \/ SkipPlug
  \/ GetReply \/ TimeOut
  \/ CheckDisconnects
  \/ SendSensorValues \/ SendNotDue

Server == RequestDevices \/ RequestServed

Next == Boards \/ Hub \/ Restart \/ Server

Spec == Init /\ [][Next]_vars

(* The loop() task never stops, millis() advances so that a poll comes due *)
(* again and again, and a board that got a command serves it.  Nothing is  *)
(* assumed of people, noise, restarts and actuator requests.               *)
Fairness ==
  /\ WF_vars(Hub)
  /\ SF_vars(PollDue)
  /\ \A p \in Plugs : WF_vars(Serve(p))

FairSpec == Spec /\ Fairness
-----------------------------------------------------------------------------
(* Properties *)

(* Every variable of the boards, the line and the hub keeps its kind.      *)
TypeOK ==
  /\ plug \in [Plugs -> Devices \cup {NoDevice}]
  /\ out \in [Devices -> [Slots -> ActValues]]
  /\ inbox \in [Plugs -> Commands]
  /\ line \in [Plugs -> {"clear", "eol", "junk"}]
  /\ reply \in Messages
  /\ waiting \in BOOLEAN
  /\ pc \in {"queue", "act", "poll", "check", "send"}
  /\ cur \in 0 .. MAX_DEVICE_COUNT
  /\ todo \in Requests \cup {{}}
  /\ connected \in [Plugs -> BOOLEAN]
  /\ noResponseCount \in [Plugs -> 0 .. NoResponseCap]
  /\ componentCount \in [Plugs -> 0 .. MAX_COMPONENT_COUNT]
  /\ devId \in [Plugs -> Devices \cup {NoDevice}]
  /\ value \in [Plugs -> [Slots -> Devices \cup {NoDevice}]]
  /\ actuatorValue \in [Plugs -> [Slots -> ActValues]]
  /\ led \in [Plugs -> BOOLEAN]
  /\ unanswered \in [Plugs -> 0 .. NoResponseCap]
  /\ clean \in [Plugs -> BOOLEAN]
  /\ faults \in 0 .. MaxFaults
  /\ moves \in 0 .. MaxMoves
  /\ restarts \in 0 .. MaxRestarts

(* The yellow LED of a plug is lit exactly while the hub holds metadata    *)
(* for it (README, Status LEDs), it holds metadata only of a connected     *)
(* device, and the components are those the device with that ID listed.    *)
PlugState ==
  \A p \in Plugs :
    /\ led[p] <=> componentCount[p] > 0
    /\ componentCount[p] > 0 =>
         /\ connected[p]
         /\ devId[p] \in Devices
         /\ componentCount[p] = Len(Meta[devId[p]].suffix)

(* The hub knows a board by its own ID, provided the board was inserted    *)
(* while the hub held its plug for empty and was not listening there.      *)
(* Without the proviso it is false for good: a swap between two polls is   *)
(* never noticed, since only silence makes doPolling ask for 'm' again.    *)
KnownDevice ==
  \A p \in Plugs :
    clean[p] /\ componentCount[p] > 0 /\ plug[p] # NoDevice => devId[p] = plug[p]

(* When loop() has passed the disconnect check, no plug that let two       *)
(* exchanges go unanswered is still held for connected.                    *)
SilentPlugDropped ==
  pc \in {"send", "queue"} => \A p \in Plugs : connected[p] => noResponseCount[p] < 2

(* A list agrees with what the hub holds: no dropped plug is in it, and    *)
(* every plug with metadata, with its present device and components.       *)
Agrees(list) ==
  /\ \A e \in list :
       /\ connected[e[1]]
       /\ e[3] > 0 => e = <<e[1], devId[e[1]], componentCount[e[1]]>>
  /\ \A p \in Plugs :
       componentCount[p] > 0 => <<p, devId[p], componentCount[p]>> \in list

(* The list the server holds agrees with the hub, unless a list the hub    *)
(* made since was lost or overtaken by an older one, or the hub restarted: *)
(* whatever changes the hub's view of a plug sends the list, and one list  *)
(* that gets through makes up for all that were lost.                      *)
ServerListCurrent == ~untold => Agrees(announced)

(* While no board was unplugged, nothing was lost and the hub did not      *)
(* restart, actuatorValue mirrors the boards' outputs, so that an 's' line *)
(* leaves the outputs it does not name alone, whatever the leftovers made  *)
(* the hub miss of the answers.                                            *)
NothingDisturbed ==
  /\ faults = 0 /\ restarts = 0
  /\ moves = Cardinality({p \in Plugs : plug[p] # NoDevice})

ActuatorMirror ==
  NothingDisturbed =>
    \A p \in Plugs :
      componentCount[p] > 0 /\ inbox[p] = NoCommand =>
        \A r \in 1 .. Len(Meta[devId[p]].outs) :
          LET k == Meta[devId[p]].outs[r] IN actuatorValue[p][k] = out[plug[p]][k]

(* A plug is dropped by the disconnect check only after its device really  *)
(* left an exchange unanswered; a line end left over from an answer can    *)
(* make the hub miss one answer, never two in a row.                       *)
DropHasCause ==
  [][\A p \in Plugs :
       pc = "check" /\ connected[p] /\ ~connected'[p] => unanswered[p] >= 1]_vars

(* A reading is filed only under the device that sent it, for a board      *)
(* inserted as KnownDevice asks.                                           *)
ReadingsFiledUnderSender ==
  [][\A p \in Plugs, k \in Slots :
       clean[p] /\ value'[p][k] # value[p][k] /\ value'[p][k] # NoDevice
         => value'[p][k] = devId[p]]_vars

(* A plug that stays empty is dropped: two silent polls are enough.        *)
RemovalNoticed ==
  \A p \in Plugs : plug[p] = NoDevice ~> (~connected[p] \/ plug[p] # NoDevice)

(* A board inserted as KnownDevice asks, and left in place, is identified, *)
(* unless characters left over from its answers spoil answers for ever.    *)
BoardIdentified ==
  \A p \in Plugs, d \in Devices :
    <>[](line[p] # "junk") =>
      (plug[p] = d /\ clean[p] ~> (plug[p] # d \/ (devId[p] = d /\ led[p])))
=============================================================================

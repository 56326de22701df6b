-------------------------- MODULE HubPollingProofs --------------------------
(***************************************************************************)
(* Proofs about HubPolling, for any number of plugs, boards and moves.     *)
(***************************************************************************)
EXTENDS HubPolling, FiniteSetTheorems, TLAPS

(* Where loop() is, and which exchange is open.                            *)
Control ==
  /\ waiting => pc \in {"act", "poll"} /\ cur \in Plugs
  /\ pc = "act" => cur \in Plugs
  /\ pc \notin {"act", "poll"} => cur = 0
  /\ reply # Nothing => waiting
  /\ \A p \in Plugs : inbox[p] # NoCommand => plug[p] \in Devices

(* An answer on its way comes from the plug's occupant, and values from    *)
(* the device the hub knows there, unless a board was inserted since the   *)
(* exchange began.                                                         *)
ReplyFromOccupant ==
  /\ reply.kind = "m" /\ clean[cur] /\ plug[cur] # NoDevice => reply.from = plug[cur]
  /\ reply.kind = "v" /\ clean[cur] /\ componentCount[cur] > 0 => reply.from = devId[cur]

(* A left-over line end follows an answer, so what it makes the hub miss   *)
(* is the first answer missed; a second miss in a row is a real silence.   *)
MissesCounted ==
  \A p \in Plugs :
    /\ line[p] = "eol" => noResponseCount[p] = 0
    /\ noResponseCount[p] >= 2 => unanswered[p] >= 1

IndInv ==
  /\ TypeOK /\ Control /\ PlugState /\ KnownDevice /\ ReplyFromOccupant
  /\ MissesCounted /\ SilentPlugDropped

(* HubAssumption but for what it says of boards and requests.              *)
LEMMA Bounds ==
  /\ MAX_DEVICE_COUNT \in Nat \ {0} /\ MAX_COMPONENT_COUNT \in Nat \ {0}
  /\ NoDevice \notin Devices
  /\ 0 \in ActValues
  /\ NoResponseCap \in Nat /\ NoResponseCap >= 2
  /\ Leftovers \subseteq {"clear", "eol", "junk"}
  /\ Mishaps \subseteq {"lost", "late"}
  /\ MaxFaults \in Nat /\ MaxMoves \in Nat /\ MaxRestarts \in Nat
BY HubAssumption

(* A metadata line lists components and outputs the Device object has      *)
(* slots for.                                                              *)
LEMMA MetaType ==
  ASSUME NEW d \in Devices
  PROVE  /\ Len(Meta[d].suffix) \in 1 .. MAX_COMPONENT_COUNT
         /\ Len(Meta[d].outs) \in Nat
         /\ \A r \in 1 .. Len(Meta[d].outs) : Meta[d].outs[r] \in Slots
<1>1. /\ MAX_COMPONENT_COUNT \in Nat
      /\ Len(Meta[d].suffix) \in 1 .. MAX_COMPONENT_COUNT - 1
      /\ Meta[d].outs \in Seq(1 .. Len(Meta[d].suffix))
    BY HubAssumption
<1>2. Len(Meta[d].suffix) \in 1 .. MAX_COMPONENT_COUNT
    BY <1>1
<1>3. Len(Meta[d].outs) \in Nat
    BY <1>1
<1>4. \A r \in 1 .. Len(Meta[d].outs) : Meta[d].outs[r] \in 1 .. Len(Meta[d].suffix)
    BY <1>1, SMTT(30)
<1> QED  BY <1>1, <1>2, <1>3, <1>4 DEF Slots

(* An empty receive buffer is a command like another.                      *)
LEMMA NoCommandType == NoCommand \in Commands
BY DEF Commands

(* A request asks for legal levels.                                        *)
LEMMA RequestType ==
  \A r \in Requests : \A a \in r : a.v \in ActValues
BY HubAssumption

USE Bounds DEF Plugs, Slots

(* A saturating count stays below its cap and is positive after a step.    *)
LEMMA BumpType ==
  \A n \in 0 .. NoResponseCap : Bump(n) \in 0 .. NoResponseCap /\ Bump(n) >= 1
BY DEF Bump

(* A board that serves a command leaves its outputs at legal levels.       *)
LEMMA ServedType ==
  ASSUME TypeOK, NEW d \in Devices, NEW c \in Commands
  PROVE  Served(d, c) \in [Slots -> ActValues]
<1> SUFFICES ASSUME NEW k \in Slots
             PROVE  Served(d, c)[k] \in ActValues
    BY DEF Served
<1>1. CASE Accepts(d, c) /\ \E r \in 1 .. Len(Meta[d].outs) : Meta[d].outs[r] = k
  <2> DEFINE r == CHOOSE r \in 1 .. Len(Meta[d].outs) : Meta[d].outs[r] = k
  <2>1. r \in 1 .. Len(Meta[d].outs)  BY <1>1
  <2>2. c.args \in Seq(ActValues) /\ Len(c.args) >= Len(Meta[d].outs)
      BY <1>1 DEF Accepts, Commands, NoCommand
  <2>3. c.args[r] \in ActValues  BY <2>1, <2>2
  <2> QED  BY <1>1, <2>3 DEF Served
<1>2. CASE ~(Accepts(d, c) /\ \E r \in 1 .. Len(Meta[d].outs) : Meta[d].outs[r] = k)
    BY <1>2 DEF Served, TypeOK
<1> QED  BY <1>1, <1>2

(* doPolling and updateActuators send well-formed lines.                   *)
LEMMA CommandTypes ==
  ASSUME TypeOK, PlugState, NEW p \in Plugs
  PROVE  /\ PollCommand(p) \in Commands /\ PollCommand(p) # NoCommand
         /\ Updated(p) \in [Slots -> ActValues]
         /\ IsUpdated(p) => SetCommand(p) \in Commands /\ SetCommand(p) # NoCommand
<1>1. PollCommand(p) \in Commands /\ PollCommand(p) # NoCommand
    BY DEF PollCommand, Commands, NoCommand
<1>2. Updated(p) \in [Slots -> ActValues]
  <2> SUFFICES ASSUME NEW k \in Slots
               PROVE  Updated(p)[k] \in ActValues
      BY DEF Updated
  <2>1. CASE k <= componentCount[p] /\ Named(p, k) # {}
    <3>1. PICK a \in Named(p, k) : a = (CHOOSE b \in Named(p, k) : TRUE)  BY <2>1
    <3>2. a \in todo /\ todo \in Requests
      <4>1. todo \in Requests \cup {{}}  BY DEF TypeOK
      <4>2. a \in todo  BY <3>1 DEF Named
      <4> QED  BY <4>1, <4>2
    <3>3. a.v \in ActValues  BY <3>2, RequestType
    <3> QED  BY <2>1, <3>1, <3>3 DEF Updated
  <2>2. CASE ~(k <= componentCount[p] /\ Named(p, k) # {})
    <3>0. actuatorValue \in [Plugs -> [Slots -> ActValues]]  BY Zenon DEF TypeOK
    <3>1. actuatorValue[p][k] \in ActValues  BY <3>0
    <3> QED  BY <2>2, <3>1 DEF Updated
  <2> QED  BY <2>1, <2>2
<1>3. ASSUME IsUpdated(p)
      PROVE  SetCommand(p) \in Commands /\ SetCommand(p) # NoCommand
  <2>1. componentCount[p] > 0
    <3>1. componentCount[p] \in 0 .. MAX_COMPONENT_COUNT  BY DEF TypeOK
    <3> QED  BY <1>3, <3>1 DEF IsUpdated
  <2>2. devId[p] \in Devices  BY <2>1 DEF PlugState
  <2>3. /\ Len(Meta[devId[p]].outs) \in Nat
        /\ \A r \in 1 .. Len(Meta[devId[p]].outs) : Meta[devId[p]].outs[r] \in Slots
      BY <2>2, MetaType
  <2>4. [r \in 1 .. Len(Meta[devId[p]].outs) |-> Updated(p)[Meta[devId[p]].outs[r]]]
          \in Seq(ActValues)
      BY <1>2, <2>3
  <2> QED  BY <2>4 DEF SetCommand, Commands, NoCommand
<1> QED  BY <1>1, <1>2, <1>3

(* The plug loop goes to the next plug, or ends and loop() goes on.        *)
LEMMA NextPlugStays ==
  ASSUME TypeOK, cur \in Plugs, pc \in {"act", "poll"}, NextPlug
  PROVE  /\ cur' \in 0 .. MAX_DEVICE_COUNT
         /\ pc' \in {"act", "poll", "check"}
         /\ pc' = "act" => cur' \in Plugs
         /\ pc' = "check" => cur' = 0
         /\ todo' \in Requests \cup {{}}
<1>1. todo \in Requests \cup {{}}  BY DEF TypeOK
<1> QED  BY <1>1 DEF NextPlug

-----------------------------------------------------------------------------
(* What a message, or its absence, does to the hub's view of a plug.       *)

LEMMA ResponseKeepsPlugs ==
  ASSUME IndInv, NEW p \in Plugs,
         NEW msg \in Messages \cup {Garbled(NoDevice)},
         msg.kind = "m" /\ clean[p] /\ plug[p] # NoDevice => msg.from = plug[p],
         Response(p, msg), UNCHANGED <<plug, clean>>
  PROVE  /\ connected' \in [Plugs -> BOOLEAN]
         /\ noResponseCount' \in [Plugs -> 0 .. NoResponseCap]
         /\ componentCount' \in [Plugs -> 0 .. MAX_COMPONENT_COUNT]
         /\ devId' \in [Plugs -> Devices \cup {NoDevice}]
         /\ value' \in [Plugs -> [Slots -> Devices \cup {NoDevice}]]
         /\ actuatorValue' = actuatorValue
         /\ led' \in [Plugs -> BOOLEAN]
         /\ PlugState' /\ KnownDevice'
         /\ noResponseCount' = [noResponseCount EXCEPT ![p] =
               IF msg.kind = "nothing" THEN Bump(@) ELSE 0]
<1>0. /\ connected \in [Plugs -> BOOLEAN]
      /\ noResponseCount \in [Plugs -> 0 .. NoResponseCap]
      /\ componentCount \in [Plugs -> 0 .. MAX_COMPONENT_COUNT]
      /\ devId \in [Plugs -> Devices \cup {NoDevice}]
      /\ value \in [Plugs -> [Slots -> Devices \cup {NoDevice}]]
      /\ led \in [Plugs -> BOOLEAN]
      /\ PlugState /\ KnownDevice
      /\ CountOnContact(p) = componentCount[p]
  <2>1. TypeOK /\ PlugState /\ KnownDevice  BY DEF IndInv
  <2>2. /\ connected \in [Plugs -> BOOLEAN]
        /\ noResponseCount \in [Plugs -> 0 .. NoResponseCap]
        /\ componentCount \in [Plugs -> 0 .. MAX_COMPONENT_COUNT]
        /\ devId \in [Plugs -> Devices \cup {NoDevice}]
        /\ value \in [Plugs -> [Slots -> Devices \cup {NoDevice}]]
        /\ led \in [Plugs -> BOOLEAN]
      BY <2>1, Zenon DEF TypeOK
  <2>3. ~connected[p] => componentCount[p] = 0  BY <2>1, <2>2 DEF PlugState
  <2> QED  BY <2>1, <2>2, <2>3 DEF CountOnContact
<1>1. CASE msg.kind = "nothing" /\ NoResponse(p)
  <2>1. /\ UNCHANGED <<connected, componentCount, devId, value, actuatorValue, led>>
        /\ noResponseCount' = [noResponseCount EXCEPT ![p] = Bump(@)]
      BY <1>1 DEF NoResponse
  <2>2. noResponseCount' \in [Plugs -> 0 .. NoResponseCap]
      BY <1>0, <2>1, BumpType
  <2>3. PlugState' /\ KnownDevice'
      BY <1>0, <2>1 DEF PlugState, KnownDevice
  <2> QED  BY <1>0, <1>1, <2>1, <2>2, <2>3
<1>2. CASE msg.kind = "m" /\ Responded(p) /\ TakeMetadata(p, msg.from)
  <2>1. msg.from \in Devices  BY <1>2 DEF Messages, Nothing, Garbled
  <2>2. Len(Meta[msg.from].suffix) \in 1 .. MAX_COMPONENT_COUNT  BY <2>1, MetaType
  <2>3. /\ connected' = [connected EXCEPT ![p] = TRUE]
        /\ noResponseCount' = [noResponseCount EXCEPT ![p] = 0]
        /\ devId' = [devId EXCEPT ![p] = msg.from]
        /\ componentCount' = [componentCount EXCEPT ![p] = Len(Meta[msg.from].suffix)]
        /\ led' = [led EXCEPT ![p] = TRUE]
        /\ UNCHANGED <<value, actuatorValue>>
      BY <1>2 DEF Responded, TakeMetadata
  <2>4. /\ connected' \in [Plugs -> BOOLEAN]
        /\ noResponseCount' \in [Plugs -> 0 .. NoResponseCap]
        /\ componentCount' \in [Plugs -> 0 .. MAX_COMPONENT_COUNT]
        /\ devId' \in [Plugs -> Devices \cup {NoDevice}]
        /\ led' \in [Plugs -> BOOLEAN]
    <3>1. connected' \in [Plugs -> BOOLEAN] /\ led' \in [Plugs -> BOOLEAN]
        BY <1>0, <2>3
    <3>2. noResponseCount' \in [Plugs -> 0 .. NoResponseCap]
      <4>1. 0 \in 0 .. NoResponseCap  OBVIOUS
      <4> QED  BY <1>0, <2>3, <4>1
    <3>3. componentCount' \in [Plugs -> 0 .. MAX_COMPONENT_COUNT]
      <4>1. Len(Meta[msg.from].suffix) \in 0 .. MAX_COMPONENT_COUNT  BY <2>2
      <4> QED  BY <1>0, <2>3, <4>1
    <3>4. devId' \in [Plugs -> Devices \cup {NoDevice}]
        BY <1>0, <2>1, <2>3
    <3> QED  BY <3>1, <3>2, <3>3, <3>4
  <2>5. PlugState'
    <3> SUFFICES ASSUME NEW q \in Plugs
                 PROVE  /\ led'[q] <=> componentCount'[q] > 0
                        /\ componentCount'[q] > 0 =>
                             /\ connected'[q]
                             /\ devId'[q] \in Devices
                             /\ componentCount'[q] = Len(Meta[devId'[q]].suffix)
        BY DEF PlugState
    <3>1. CASE q = p  BY <3>1, <1>0, <2>1, <2>2, <2>3
    <3>2. CASE q # p  BY <3>2, <1>0, <2>3 DEF PlugState
    <3> QED  BY <3>1, <3>2
  <2>6. KnownDevice'
    <3> SUFFICES ASSUME NEW q \in Plugs, clean[q], componentCount'[q] > 0, plug[q] # NoDevice
                 PROVE  devId'[q] = plug[q]
        BY DEF KnownDevice
    <3>1. CASE q = p  BY <3>1, <1>0, <1>2, <2>3
    <3>2. CASE q # p  BY <3>2, <1>0, <2>3 DEF KnownDevice
    <3> QED  BY <3>1, <3>2
  <2> QED  BY <1>0, <1>2, <2>3, <2>4, <2>5, <2>6
<1>3. CASE msg.kind = "v" /\ Responded(p) /\ TakeValues(p, msg.from)
  <2>1. msg.from \in Devices  BY <1>3 DEF Messages, Nothing, Garbled
  <2>2. /\ UNCHANGED <<componentCount, devId, led, actuatorValue>>
        /\ connected' = [connected EXCEPT ![p] = TRUE]
        /\ noResponseCount' = [noResponseCount EXCEPT ![p] = 0]
      BY <1>0, <1>3 DEF TakeValues, Responded
  <2>3. value' \in [Plugs -> [Slots -> Devices \cup {NoDevice}]]
      BY <1>0, <1>3, <2>1 DEF TakeValues
  <2>4. /\ connected' \in [Plugs -> BOOLEAN]
        /\ noResponseCount' \in [Plugs -> 0 .. NoResponseCap]
    <3>1. 0 \in 0 .. NoResponseCap  OBVIOUS
    <3> QED  BY <1>0, <2>2, <3>1
  <2>5. PlugState' /\ KnownDevice'
      BY <1>0, <2>2 DEF PlugState, KnownDevice
  <2> QED  BY <1>0, <1>3, <2>2, <2>3, <2>4, <2>5
<1>4. CASE msg.kind \in {"s", "e", "garbled"} /\ Responded(p) /\ TakeNothing(p)
  <2>1. /\ componentCount' = componentCount
        /\ UNCHANGED <<devId, value, actuatorValue, led>>
        /\ connected' = [connected EXCEPT ![p] = TRUE]
        /\ noResponseCount' = [noResponseCount EXCEPT ![p] = 0]
      BY <1>0, <1>4 DEF TakeNothing, Responded
  <2>2. msg.kind # "nothing"  BY <1>4
  <2>3. /\ connected' \in [Plugs -> BOOLEAN]
        /\ noResponseCount' \in [Plugs -> 0 .. NoResponseCap]
    <3>1. 0 \in 0 .. NoResponseCap  OBVIOUS
    <3> QED  BY <1>0, <2>1, <3>1
  <2>4. PlugState' /\ KnownDevice'
      BY <1>0, <2>1 DEF PlugState, KnownDevice
  <2> QED  BY <1>0, <2>1, <2>2, <2>3, <2>4
<1> QED  BY <1>1, <1>2, <1>3, <1>4 DEF Response

-----------------------------------------------------------------------------
(* Before the first loop() the hub knows nothing and no plug is in use.    *)
LEMMA InitInv == Init => IndInv
<1> SUFFICES ASSUME Init PROVE IndInv
    OBVIOUS
<1>1. TypeOK
  <2>1. PowerOn \in [Slots -> ActValues]  BY DEF PowerOn
  <2>2. NoCommand \in Commands /\ Nothing \in Messages  BY DEF Commands, Messages
  <2>3. /\ plug \in [Plugs -> Devices \cup {NoDevice}]
        /\ out \in [Devices -> [Slots -> ActValues]]
        /\ inbox \in [Plugs -> Commands]
        /\ line \in [Plugs -> {"clear", "eol", "junk"}]
        /\ reply \in Messages
      BY <2>1, <2>2 DEF Init
  <2>4. /\ connected \in [Plugs -> BOOLEAN] /\ led \in [Plugs -> BOOLEAN]
        /\ clean \in [Plugs -> BOOLEAN]
        /\ noResponseCount \in [Plugs -> 0 .. NoResponseCap]
        /\ unanswered \in [Plugs -> 0 .. NoResponseCap]
        /\ componentCount \in [Plugs -> 0 .. MAX_COMPONENT_COUNT]
      BY DEF Init
  <2>5. /\ devId \in [Plugs -> Devices \cup {NoDevice}]
        /\ value \in [Plugs -> [Slots -> Devices \cup {NoDevice}]]
        /\ actuatorValue \in [Plugs -> [Slots -> ActValues]]
      BY <2>1 DEF Init
  <2>6. /\ waiting \in BOOLEAN /\ pc = "queue" /\ cur \in 0 .. MAX_DEVICE_COUNT
        /\ todo = {}
        /\ faults \in 0 .. MaxFaults /\ moves \in 0 .. MaxMoves
        /\ restarts \in 0 .. MaxRestarts
    <3>1. /\ 0 \in 0 .. MAX_DEVICE_COUNT /\ 0 \in 0 .. MaxFaults
          /\ 0 \in 0 .. MaxMoves /\ 0 \in 0 .. MaxRestarts
        OBVIOUS
    <3> QED  BY <3>1 DEF Init
  <2> QED  BY <2>3, <2>4, <2>5, <2>6 DEF TypeOK
<1>2. Control  BY DEF Init, Control
<1>3. PlugState /\ KnownDevice  BY DEF Init, PlugState, KnownDevice
<1>4. ReplyFromOccupant  BY DEF Init, ReplyFromOccupant, Nothing
<1>5. MissesCounted /\ SilentPlugDropped  BY DEF Init, MissesCounted, SilentPlugDropped
<1> QED  BY <1>1, <1>2, <1>3, <1>4, <1>5 DEF IndInv

(* What the people, the boards and the noise do.                           *)
LEMMA BoardsInv == IndInv /\ Boards => IndInv'
<1> SUFFICES ASSUME IndInv, Boards PROVE IndInv'
    OBVIOUS
<1> USE DEF lineVars, loopVars, devVars, sentVars, histVars, boardVars, bounds
<1>1. ASSUME NEW p \in Plugs, NEW d \in Devices, Insert(p, d)
      PROVE  IndInv'
  <2>1. TypeOK'
    <3>1. /\ plug' \in [Plugs -> Devices \cup {NoDevice}]
          /\ clean' \in [Plugs -> BOOLEAN]
          /\ moves' \in 0 .. MaxMoves
        BY <1>1 DEF Insert, IndInv, TypeOK
    <3>2. UNCHANGED <<out, inbox, lineVars, loopVars, devVars, unanswered, faults, restarts>>
        BY <1>1 DEF Insert
    <3> QED  BY <3>1, <3>2 DEF IndInv, TypeOK
  <2>2. Control'  BY <1>1 DEF Insert, IndInv, Control, TypeOK
  <2>3. PlugState' /\ MissesCounted' /\ SilentPlugDropped'
      BY <1>1 DEF Insert, IndInv, PlugState, MissesCounted, SilentPlugDropped
  <2>4. KnownDevice'
      BY <1>1 DEF Insert, IndInv, TypeOK, PlugState, KnownDevice
  <2>5. ReplyFromOccupant'
    <3>1. CASE reply = Nothing
        BY <1>1, <3>1 DEF Insert, ReplyFromOccupant, Nothing
    <3>2. CASE reply # Nothing
      <4>1. waiting /\ cur \in Plugs  BY <3>2 DEF IndInv, Control
      <4>2. clean'[cur] => cur # p
          BY <1>1, <4>1 DEF Insert, IndInv, TypeOK
      <4>3. cur # p => clean'[cur] = clean[cur] /\ plug'[cur] = plug[cur]
          BY <1>1, <4>1 DEF Insert, IndInv, TypeOK
      <4> QED  BY <1>1, <4>2, <4>3 DEF Insert, IndInv, ReplyFromOccupant
    <3> QED  BY <3>1, <3>2
  <2> QED  BY <2>1, <2>2, <2>3, <2>4, <2>5 DEF IndInv
<1>2. ASSUME NEW p \in Plugs, Remove(p)
      PROVE  IndInv'
  <2>1. TypeOK'
    <3>1. PowerOn \in [Slots -> ActValues]  BY DEF PowerOn
    <3>2. /\ plug \in [Plugs -> Devices \cup {NoDevice}]
          /\ out \in [Devices -> [Slots -> ActValues]]
          /\ inbox \in [Plugs -> Commands]
          /\ moves \in 0 .. MaxMoves
        BY DEF IndInv, TypeOK
    <3>3. /\ plug' = [plug EXCEPT ![p] = NoDevice]
          /\ out' = [out EXCEPT ![plug[p]] = PowerOn]
          /\ inbox' = [inbox EXCEPT ![p] = NoCommand]
          /\ moves < MaxMoves /\ moves' = moves + 1
        BY <1>2 DEF Remove
    <3>4. plug' \in [Plugs -> Devices \cup {NoDevice}]  BY <3>2, <3>3
    <3>5. out' \in [Devices -> [Slots -> ActValues]]  BY <3>1, <3>2, <3>3
    <3>6. inbox' \in [Plugs -> Commands]  BY <3>2, <3>3, NoCommandType
    <3>7. moves' \in 0 .. MaxMoves  BY <3>2, <3>3
    <3>8. UNCHANGED <<lineVars, loopVars, devVars, sentVars, histVars, faults, restarts>>
        BY <1>2 DEF Remove
    <3> QED  BY <3>4, <3>5, <3>6, <3>7, <3>8 DEF IndInv, TypeOK
  <2>2. Control'  BY <1>2 DEF Remove, IndInv, Control, TypeOK
  <2>3. PlugState' /\ MissesCounted' /\ SilentPlugDropped'
      BY <1>2 DEF Remove, IndInv, PlugState, MissesCounted, SilentPlugDropped
  <2>4. KnownDevice' /\ ReplyFromOccupant'
    <3>1. /\ plug \in [Plugs -> Devices \cup {NoDevice}]
          /\ plug' = [plug EXCEPT ![p] = NoDevice]
          /\ UNCHANGED <<clean, componentCount, devId, reply, cur>>
        BY <1>2 DEF Remove, IndInv, TypeOK
    <3>2. \A q \in Plugs : plug'[q] = NoDevice \/ plug'[q] = plug[q]
        BY <3>1
    <3>3. KnownDevice'
        BY <3>1, <3>2 DEF IndInv, KnownDevice
    <3>4. reply.kind = "m" => cur \in Plugs
        BY DEF IndInv, Control, Nothing
    <3>5. ReplyFromOccupant'
        BY <3>1, <3>2, <3>4 DEF IndInv, ReplyFromOccupant
    <3> QED  BY <3>3, <3>5
  <2> QED  BY <2>1, <2>2, <2>3, <2>4 DEF IndInv
<1>3. ASSUME NEW p \in Plugs, Serve(p)
      PROVE  IndInv'
  <2>1. plug[p] \in Devices /\ inbox[p] \in Commands /\ inbox[p] # NoCommand
      BY <1>3 DEF Serve, IndInv, TypeOK, Control
  <2>2. Served(plug[p], inbox[p]) \in [Slots -> ActValues]
      BY <2>1, ServedType DEF IndInv
  <2>3. Answer(plug[p], inbox[p]) \in Messages \ {Nothing}
      BY <2>1 DEF Answer, Messages, Nothing, Commands
  <2>4. Answer(plug[p], inbox[p]).from = plug[p]
      BY DEF Answer
  <2>5. TypeOK'
    <3>1. /\ out' = [out EXCEPT ![plug[p]] = Served(plug[p], inbox[p])]
          /\ inbox' = [inbox EXCEPT ![p] = NoCommand]
          /\ reply' \in {reply, Answer(plug[p], inbox[p])}
          /\ UNCHANGED <<plug, line, waiting, loopVars, devVars, sentVars, histVars, bounds>>
        BY <1>3 DEF Serve
    <3>2. /\ out \in [Devices -> [Slots -> ActValues]]
          /\ inbox \in [Plugs -> Commands] /\ reply \in Messages
        BY DEF IndInv, TypeOK
    <3>3. out' \in [Devices -> [Slots -> ActValues]]  BY <2>1, <2>2, <3>1, <3>2
    <3>4. inbox' \in [Plugs -> Commands]  BY <3>1, <3>2, NoCommandType
    <3>5. reply' \in Messages  BY <2>3, <3>1, <3>2
    <3> QED  BY <3>1, <3>3, <3>4, <3>5 DEF IndInv, TypeOK
  <2>6. Control'  BY <1>3, <2>3 DEF Serve, IndInv, Control, TypeOK
  <2>7. PlugState' /\ MissesCounted' /\ SilentPlugDropped' /\ KnownDevice'
      BY <1>3 DEF Serve, IndInv, PlugState, MissesCounted, SilentPlugDropped, KnownDevice
  <2>8. ReplyFromOccupant'
    <3>1. CASE waiting /\ cur = p
      <4>1. reply'.from = plug[cur] /\ UNCHANGED <<plug, cur, clean, componentCount, devId>>
          BY <1>3, <2>4, <3>1 DEF Serve
      <4>2. clean[cur] /\ componentCount[cur] > 0 => devId[cur] = plug[cur]
          BY <2>1, <3>1 DEF IndInv, KnownDevice
      <4> QED  BY <4>1, <4>2 DEF ReplyFromOccupant
    <3>2. CASE ~(waiting /\ cur = p)
        BY <1>3, <3>2 DEF Serve, IndInv, ReplyFromOccupant
    <3> QED  BY <3>1, <3>2
  <2> QED  BY <2>5, <2>6, <2>7, <2>8 DEF IndInv
<1>4. ASSUME NEW p \in Plugs, LoseCommand(p)
      PROVE  IndInv'
  <2>1. TypeOK'
    <3>1. inbox' \in [Plugs -> Commands]
        BY <1>4, NoCommandType DEF LoseCommand, IndInv, TypeOK
    <3>2. faults' \in 0 .. MaxFaults
        BY <1>4 DEF LoseCommand, IndInv, TypeOK
    <3>3. UNCHANGED <<plug, out, lineVars, loopVars, devVars, sentVars, histVars, moves, restarts>>
        BY <1>4 DEF LoseCommand
    <3> QED  BY <3>1, <3>2, <3>3 DEF IndInv, TypeOK
  <2>2. Control'  BY <1>4 DEF LoseCommand, IndInv, Control, TypeOK
  <2> QED  BY <1>4, <2>1, <2>2
           DEF LoseCommand, IndInv, PlugState, KnownDevice, ReplyFromOccupant,
               MissesCounted, SilentPlugDropped
<1>5. ASSUME GarbleReply
      PROVE  IndInv'
  <2>1. Garbled(reply.from) \in Messages /\ Garbled(reply.from) # Nothing
      BY <1>5 DEF GarbleReply, IndInv, TypeOK, Messages, Nothing, Garbled
  <2>2. reply # Nothing  BY <1>5 DEF GarbleReply, Nothing
  <2>3. TypeOK'
    <3>1. reply' \in Messages  BY <1>5, <2>1 DEF GarbleReply
    <3>2. faults' \in 0 .. MaxFaults
        BY <1>5 DEF GarbleReply, IndInv, TypeOK
    <3>3. UNCHANGED <<boardVars, line, waiting, loopVars, devVars, sentVars, histVars, moves,
                      restarts>>
        BY <1>5 DEF GarbleReply
    <3> QED  BY <3>1, <3>2, <3>3 DEF IndInv, TypeOK
  <2>4. Control'  BY <1>5, <2>2 DEF GarbleReply, IndInv, Control
  <2>5. ReplyFromOccupant'  BY <1>5 DEF GarbleReply, Garbled, ReplyFromOccupant
  <2> QED  BY <1>5, <2>3, <2>4, <2>5
           DEF GarbleReply, IndInv, PlugState, KnownDevice, MissesCounted, SilentPlugDropped
<1> QED  BY <1>1, <1>2, <1>3, <1>4, <1>5 DEF Boards

-----------------------------------------------------------------------------
(* One exchange with a plug.                                               *)

(* The command, and the exchange a left-over line end cuts short.          *)
LEMMA SendInv ==
  ASSUME IndInv, cur \in Plugs, pc \in {"act", "poll"}, ~waiting,
         NEW c \in Commands, c # NoCommand, Send(cur, c),
         actuatorValue' \in [Plugs -> [Slots -> ActValues]]
  PROVE  IndInv'
<1> USE DEF loopVars, sentVars, bounds
<1>1. /\ UNCHANGED <<plug, out, reply, connected, componentCount, devId, value, led, clean,
                     faults, moves, restarts>>
      /\ inbox' = [inbox EXCEPT ![cur] = IF plug[cur] = NoDevice THEN NoCommand ELSE c]
    BY DEF Send
<1>2. reply = Nothing  BY DEF IndInv, Control
<1>t. /\ plug' \in [Plugs -> Devices \cup {NoDevice}]
      /\ out' \in [Devices -> [Slots -> ActValues]]
      /\ reply' \in Messages
      /\ connected' \in [Plugs -> BOOLEAN]
      /\ componentCount' \in [Plugs -> 0 .. MAX_COMPONENT_COUNT]
      /\ devId' \in [Plugs -> Devices \cup {NoDevice}]
      /\ value' \in [Plugs -> [Slots -> Devices \cup {NoDevice}]]
      /\ led' \in [Plugs -> BOOLEAN]
      /\ clean' \in [Plugs -> BOOLEAN]
      /\ faults' \in 0 .. MaxFaults
      /\ moves' \in 0 .. MaxMoves
      /\ restarts' \in 0 .. MaxRestarts
    BY <1>1 DEF IndInv, TypeOK
<1>3. inbox' \in [Plugs -> Commands]
    BY <1>1 DEF IndInv, TypeOK, Commands
<1>4. \A p \in Plugs : inbox'[p] # NoCommand => plug'[p] \in Devices
    BY <1>1 DEF IndInv, TypeOK, Control
<1>5. PlugState' /\ KnownDevice'
    BY <1>1 DEF IndInv, PlugState, KnownDevice
<1>6. ReplyFromOccupant'
    BY <1>1, <1>2 DEF ReplyFromOccupant, Nothing
<1>7. CASE /\ line[cur] = "eol"
           /\ line' = [line EXCEPT ![cur] = "clear"]
           /\ noResponseCount' = [noResponseCount EXCEPT ![cur] = Bump(@)]
           /\ unanswered' =
                [unanswered EXCEPT ![cur] = IF plug[cur] = NoDevice THEN Bump(@) ELSE 0]
           /\ NextPlug
           /\ UNCHANGED waiting
  <2>1. /\ cur' \in 0 .. MAX_DEVICE_COUNT /\ pc' \in {"act", "poll", "check"}
        /\ pc' = "act" => cur' \in Plugs
        /\ pc' = "check" => cur' = 0
        /\ todo' \in Requests \cup {{}}
      BY <1>7, NextPlugStays DEF IndInv
  <2>2. /\ noResponseCount' \in [Plugs -> 0 .. NoResponseCap]
        /\ unanswered' \in [Plugs -> 0 .. NoResponseCap]
        /\ line' \in [Plugs -> {"clear", "eol", "junk"}]
    <3>1. noResponseCount' \in [Plugs -> 0 .. NoResponseCap]
        BY <1>7, BumpType DEF IndInv, TypeOK
    <3>2. unanswered' \in [Plugs -> 0 .. NoResponseCap]
      <4>1. unanswered \in [Plugs -> 0 .. NoResponseCap]  BY DEF IndInv, TypeOK
      <4>2. Bump(unanswered[cur]) \in 0 .. NoResponseCap /\ 0 \in 0 .. NoResponseCap
          BY <4>1, BumpType
      <4> QED  BY <1>7, <4>1, <4>2
    <3>3. line' \in [Plugs -> {"clear", "eol", "junk"}]
        BY <1>7 DEF IndInv, TypeOK
    <3> QED  BY <3>1, <3>2, <3>3
  <2>3. TypeOK'
    <3>1. waiting' \in BOOLEAN /\ pc' \in {"queue", "act", "poll", "check", "send"}
        BY <1>7, <2>1 DEF IndInv, TypeOK
    <3> QED  BY <1>t, <1>3, <2>1, <2>2, <3>1, Zenon DEF TypeOK
  <2>4. Control'
      BY <1>1, <1>2, <1>4, <1>7, <2>1 DEF Control
  <2>5. MissesCounted'
    <3>1. noResponseCount[cur] = 0  BY <1>7 DEF IndInv, MissesCounted
    <3>2. noResponseCount'[cur] < 2 /\ line'[cur] = "clear"
        BY <1>7, <3>1 DEF Bump, IndInv, TypeOK
    <3>3. \A p \in Plugs \ {cur} : /\ line'[p] = line[p]
                                   /\ noResponseCount'[p] = noResponseCount[p]
                                   /\ unanswered'[p] = unanswered[p]
        BY <1>7 DEF IndInv, TypeOK
    <3>4. ASSUME NEW p \in Plugs
          PROVE  /\ line'[p] = "eol" => noResponseCount'[p] = 0
                 /\ noResponseCount'[p] >= 2 => unanswered'[p] >= 1
      <4>1. CASE p = cur
        <5>1. noResponseCount'[cur] \in 0 .. NoResponseCap  BY <2>2
        <5> QED  BY <4>1, <5>1, <3>2
      <4>2. CASE p # cur  BY <4>2, <3>3 DEF IndInv, MissesCounted
      <4> QED  BY <4>1, <4>2
    <3> QED  BY <3>4 DEF MissesCounted
  <2>6. SilentPlugDropped'  BY <2>1 DEF SilentPlugDropped
  <2> QED  BY <1>5, <1>6, <2>3, <2>4, <2>5, <2>6 DEF IndInv
<1>8. CASE /\ line[cur] # "eol"
           /\ waiting' = TRUE
           /\ UNCHANGED <<line, noResponseCount, unanswered, loopVars>>
  <2>1. TypeOK'
    <3>1. /\ line' \in [Plugs -> {"clear", "eol", "junk"}]
          /\ waiting' \in BOOLEAN
          /\ pc' \in {"queue", "act", "poll", "check", "send"}
          /\ cur' \in 0 .. MAX_DEVICE_COUNT
          /\ todo' \in Requests \cup {{}}
          /\ noResponseCount' \in [Plugs -> 0 .. NoResponseCap]
          /\ unanswered' \in [Plugs -> 0 .. NoResponseCap]
        BY <1>8 DEF IndInv, TypeOK
    <3> QED  BY <1>t, <1>3, <3>1, Zenon DEF TypeOK
  <2>2. Control'  BY <1>1, <1>2, <1>4, <1>8 DEF Control
  <2>3. MissesCounted' /\ SilentPlugDropped'
      BY <1>1, <1>8 DEF IndInv, MissesCounted, SilentPlugDropped
  <2> QED  BY <1>5, <1>6, <2>1, <2>2, <2>3 DEF IndInv
<1> QED  BY <1>7, <1>8 DEF Send

(* The end of the read loop, with a message or without.                    *)
LEMMA ExchangeEnd ==
  ASSUME IndInv, waiting, waiting' = FALSE, reply' = Nothing, NextPlug,
         NEW msg \in Messages \cup {Garbled(NoDevice)},
         msg.kind = "m" => msg = reply,
         Response(cur, msg),
         UNCHANGED <<plug, out, inbox, clean, moves, restarts>>,
         faults' \in 0 .. MaxFaults,
         line' \in [Plugs -> {"clear", "eol", "junk"}],
         \A p \in Plugs \ {cur} : line'[p] = line[p],
         line'[cur] = "eol" => msg.kind # "nothing",
         unanswered' \in [Plugs -> 0 .. NoResponseCap],
         \A p \in Plugs \ {cur} : unanswered'[p] = unanswered[p],
         msg.kind = "nothing" => unanswered'[cur] >= 1
  PROVE  IndInv'
<1>1. cur \in Plugs /\ pc \in {"act", "poll"}  BY DEF IndInv, Control
<1>2. msg.kind = "m" /\ clean[cur] /\ plug[cur] # NoDevice => msg.from = plug[cur]
    BY DEF IndInv, ReplyFromOccupant
<1>3. /\ connected' \in [Plugs -> BOOLEAN]
      /\ noResponseCount' \in [Plugs -> 0 .. NoResponseCap]
      /\ componentCount' \in [Plugs -> 0 .. MAX_COMPONENT_COUNT]
      /\ devId' \in [Plugs -> Devices \cup {NoDevice}]
      /\ value' \in [Plugs -> [Slots -> Devices \cup {NoDevice}]]
      /\ actuatorValue' = actuatorValue
      /\ led' \in [Plugs -> BOOLEAN]
      /\ PlugState' /\ KnownDevice'
      /\ noResponseCount' = [noResponseCount EXCEPT ![cur] =
            IF msg.kind = "nothing" THEN Bump(@) ELSE 0]
    BY <1>1, <1>2, ResponseKeepsPlugs
<1>4. /\ cur' \in 0 .. MAX_DEVICE_COUNT /\ pc' \in {"act", "poll", "check"}
      /\ pc' = "act" => cur' \in Plugs
      /\ pc' = "check" => cur' = 0
      /\ todo' \in Requests \cup {{}}
    BY <1>1, NextPlugStays DEF IndInv
<1>5. TypeOK'
  <2>1. /\ plug' \in [Plugs -> Devices \cup {NoDevice}]
        /\ out' \in [Devices -> [Slots -> ActValues]]
        /\ inbox' \in [Plugs -> Commands]
        /\ actuatorValue' \in [Plugs -> [Slots -> ActValues]]
        /\ clean' \in [Plugs -> BOOLEAN]
        /\ moves' \in 0 .. MaxMoves
        /\ restarts' \in 0 .. MaxRestarts
      BY <1>3 DEF IndInv, TypeOK
  <2>2. /\ reply' \in Messages /\ waiting' \in BOOLEAN
        /\ pc' \in {"queue", "act", "poll", "check", "send"}
      BY <1>4 DEF Messages
  <2> QED  BY <1>3, <1>4, <2>1, <2>2, Zenon DEF TypeOK
<1>6. Control'
    BY <1>4 DEF IndInv, Control
<1>7. ReplyFromOccupant'  BY DEF ReplyFromOccupant, Nothing
<1>8. MissesCounted'
  <2>1. \A p \in Plugs \ {cur} : /\ line'[p] = line[p]
                                 /\ noResponseCount'[p] = noResponseCount[p]
                                 /\ unanswered'[p] = unanswered[p]
      BY <1>3 DEF IndInv, TypeOK
  <2>2. msg.kind # "nothing" => noResponseCount'[cur] = 0
      BY <1>1, <1>3 DEF IndInv, TypeOK
  <2>3. ASSUME NEW p \in Plugs
        PROVE  /\ line'[p] = "eol" => noResponseCount'[p] = 0
               /\ noResponseCount'[p] >= 2 => unanswered'[p] >= 1
    <3>1. CASE p = cur  BY <3>1, <2>2
    <3>2. CASE p # cur  BY <3>2, <2>1 DEF IndInv, MissesCounted
    <3> QED  BY <3>1, <3>2
  <2> QED  BY <2>3 DEF MissesCounted
<1>9. SilentPlugDropped'  BY <1>4 DEF SilentPlugDropped
<1> QED  BY <1>3, <1>5, <1>6, <1>7, <1>8, <1>9 DEF IndInv
-----------------------------------------------------------------------------
(* What loop() does.                                                       *)
LEMMA HubInv == IndInv /\ Hub => IndInv'
<1> SUFFICES ASSUME IndInv, Hub PROVE IndInv'
    OBVIOUS
<1> USE DEF lineVars, loopVars, devVars, sentVars, histVars, boardVars, bounds
<1>0. TypeOK /\ Control /\ PlugState  BY DEF IndInv
<1>1. ASSUME ActuatorRequest \/ NoRequest \/ PollDue \/ PollNotDue
      PROVE  IndInv'
  <2>1. /\ pc \in {"queue", "poll"} /\ pc' \in {"act", "poll", "check"}
        /\ cur = 0 /\ ~waiting /\ reply = Nothing
        /\ cur' \in 0 .. MAX_DEVICE_COUNT
        /\ pc' = "act" => cur' \in Plugs
        /\ pc' = "check" => cur' = 0
        /\ todo' \in Requests \cup {{}}
    <3>1. /\ pc \in {"queue", "poll"} /\ cur = 0 /\ ~waiting /\ reply = Nothing
        BY <1>0, <1>1 DEF ActuatorRequest, NoRequest, PollDue, PollNotDue, Control
    <3>2. /\ pc' \in {"act", "poll", "check"} /\ cur' \in {0, 1}
          /\ pc' = "act" => cur' = 1
          /\ pc' = "check" => cur' = 0
          /\ todo' \in Requests \cup {todo}
        BY <1>1, <3>1 DEF ActuatorRequest, NoRequest, PollDue, PollNotDue
    <3>3. todo \in Requests \cup {{}}  BY <1>0 DEF TypeOK
    <3> QED  BY <3>1, <3>2, <3>3
  <2>2. UNCHANGED <<boardVars, lineVars, devVars, sentVars, histVars, bounds>>
      BY <1>1 DEF ActuatorRequest, NoRequest, PollDue, PollNotDue
  <2>3. TypeOK'  BY <1>0, <2>1, <2>2 DEF TypeOK
  <2>4. Control'  BY <1>0, <2>1, <2>2 DEF Control
  <2>5. PlugState' /\ KnownDevice' /\ MissesCounted' /\ SilentPlugDropped'
      BY <2>1, <2>2 DEF IndInv, PlugState, KnownDevice, MissesCounted, SilentPlugDropped
  <2>6. ReplyFromOccupant'  BY <2>1, <2>2 DEF ReplyFromOccupant, Nothing
  <2> QED  BY <2>3, <2>4, <2>5, <2>6 DEF IndInv
<1>2. ASSUME PollPlug
      PROVE  IndInv'
  <2>1. cur \in Plugs /\ actuatorValue' \in [Plugs -> [Slots -> ActValues]]
    <3>1. cur \in 0 .. MAX_DEVICE_COUNT /\ actuatorValue \in [Plugs -> [Slots -> ActValues]]
        BY <1>0, Zenon DEF TypeOK
    <3> QED  BY <1>2, <3>1 DEF PollPlug
  <2>2. PollCommand(cur) \in Commands /\ PollCommand(cur) # NoCommand
      BY <1>0, <2>1, CommandTypes
  <2> QED  BY <1>2, <2>1, <2>2, SendInv DEF PollPlug
<1>3. ASSUME UpdatePlug
      PROVE  IndInv'
  <2>1. cur \in Plugs  BY <1>0, <1>3 DEF UpdatePlug, Control
  <2>2. /\ Updated(cur) \in [Slots -> ActValues]
        /\ SetCommand(cur) \in Commands /\ SetCommand(cur) # NoCommand
      BY <1>0, <1>3, <2>1, CommandTypes DEF UpdatePlug
  <2>3. actuatorValue' \in [Plugs -> [Slots -> ActValues]]
      BY <1>0, <1>3, <2>2 DEF UpdatePlug, TypeOK
  <2> QED  BY <1>3, <2>1, <2>2, <2>3, SendInv DEF UpdatePlug
<1>4. ASSUME SkipPlug
      PROVE  IndInv'
  <2>1. cur \in Plugs /\ pc = "act" /\ ~waiting /\ reply = Nothing
      BY <1>0, <1>4 DEF SkipPlug, Control
  <2>2. /\ cur' \in 0 .. MAX_DEVICE_COUNT /\ pc' \in {"act", "poll", "check"}
        /\ pc' = "act" => cur' \in Plugs
        /\ pc' = "check" => cur' = 0
        /\ todo' \in Requests \cup {{}}
      BY <1>0, <1>4, <2>1, NextPlugStays DEF SkipPlug
  <2>3. UNCHANGED <<boardVars, lineVars, devVars, sentVars, histVars, bounds>>
      BY <1>4 DEF SkipPlug
  <2>4. TypeOK'  BY <1>0, <2>2, <2>3 DEF TypeOK
  <2>5. Control'  BY <1>0, <2>1, <2>2, <2>3 DEF Control
  <2>6. PlugState' /\ KnownDevice' /\ MissesCounted' /\ SilentPlugDropped'
      BY <2>2, <2>3 DEF IndInv, PlugState, KnownDevice, MissesCounted, SilentPlugDropped
  <2>7. ReplyFromOccupant'  BY <2>1, <2>3 DEF ReplyFromOccupant, Nothing
  <2> QED  BY <2>4, <2>5, <2>6, <2>7 DEF IndInv
<1>5. ASSUME GetReply
      PROVE  IndInv'
  <2> DEFINE msg == Read(cur, reply)
  <2>1. cur \in Plugs /\ waiting  BY <1>0, <1>5 DEF GetReply, Control
  <2>2. /\ msg \in Messages \cup {Garbled(NoDevice)}
        /\ msg.kind = "m" => msg = reply
        /\ msg.kind # "nothing"
      BY <1>0, <1>5 DEF GetReply, Read, TypeOK, Messages, Garbled, Nothing
  <2>3. /\ line' \in [Plugs -> {"clear", "eol", "junk"}]
        /\ \A p \in Plugs \ {cur} : line'[p] = line[p]
      BY <1>0, <1>5 DEF GetReply, TypeOK
  <2>4. /\ unanswered' \in [Plugs -> 0 .. NoResponseCap]
        /\ \A p \in Plugs \ {cur} : unanswered'[p] = unanswered[p]
    <3>1. /\ unanswered \in [Plugs -> 0 .. NoResponseCap]
          /\ unanswered' = [unanswered EXCEPT ![cur] = 0]
        BY <1>0, <1>5 DEF GetReply, TypeOK
    <3>2. 0 \in 0 .. NoResponseCap  OBVIOUS
    <3> QED  BY <2>1, <3>1, <3>2
  <2>5. faults' \in 0 .. MaxFaults  BY <1>0, <1>5 DEF GetReply, TypeOK
  <2>6. /\ Response(cur, msg) /\ NextPlug /\ waiting' = FALSE /\ reply' = Nothing
        /\ UNCHANGED <<plug, out, inbox, clean, moves, restarts>>
      BY <1>5 DEF GetReply
  <2> HIDE DEF msg
  <2> QED  BY <2>1, <2>2, <2>3, <2>4, <2>5, <2>6, ExchangeEnd
<1>6. ASSUME TimeOut
      PROVE  IndInv'
  <2> DEFINE msg == Read(cur, Nothing)
  <2>1. cur \in Plugs /\ waiting /\ reply = Nothing
      BY <1>0, <1>6 DEF TimeOut, Control
  <2>2. msg \in Messages \cup {Garbled(NoDevice)} /\ msg.kind # "m"
      BY DEF Read, Messages, Garbled, Nothing
  <2>3. /\ line' \in [Plugs -> {"clear", "eol", "junk"}]
        /\ \A p \in Plugs \ {cur} : line'[p] = line[p]
        /\ line'[cur] = "clear"
      BY <1>0, <1>6, <2>1 DEF TimeOut, TypeOK
  <2>4. /\ unanswered' \in [Plugs -> 0 .. NoResponseCap]
        /\ \A p \in Plugs \ {cur} : unanswered'[p] = unanswered[p]
        /\ unanswered'[cur] >= 1
    <3>1. /\ unanswered \in [Plugs -> 0 .. NoResponseCap]
          /\ unanswered' = [unanswered EXCEPT ![cur] = Bump(@)]
        BY <1>0, <1>6 DEF TimeOut, TypeOK
    <3>2. Bump(unanswered[cur]) \in 0 .. NoResponseCap /\ Bump(unanswered[cur]) >= 1
        BY <2>1, <3>1, BumpType
    <3> QED  BY <2>1, <3>1, <3>2
  <2>5. faults' \in 0 .. MaxFaults  BY <1>0, <1>6 DEF TimeOut, TypeOK
  <2>6. /\ Response(cur, msg) /\ NextPlug /\ waiting' = FALSE /\ reply' = Nothing
        /\ UNCHANGED <<plug, out, inbox, clean, moves, restarts>>
      BY <1>6, <2>1 DEF TimeOut
  <2> HIDE DEF msg
  <2> QED  BY <2>1, <2>2, <2>3, <2>4, <2>5, <2>6, ExchangeEnd
<1>7. ASSUME CheckDisconnects
      PROVE  IndInv'
  <2>1. /\ pc = "check" /\ pc' = "send" /\ cur = 0 /\ ~waiting /\ reply = Nothing
        /\ UNCHANGED <<plug, out, inbox, line, reply, waiting, cur, todo, noResponseCount,
                       devId, value, actuatorValue, unanswered, faults, moves, restarts>>
      BY <1>0, <1>7 DEF CheckDisconnects, Control
  <2>2. \A p \in Plugs :
          IF connected[p] /\ noResponseCount[p] >= 2
          THEN ~connected'[p] /\ componentCount'[p] = 0 /\ led'[p] = FALSE /\ clean'[p] = TRUE
          ELSE /\ connected'[p] = connected[p] /\ componentCount'[p] = componentCount[p]
               /\ led'[p] = led[p] /\ clean'[p] = clean[p]
      BY <1>0, <1>7 DEF CheckDisconnects, Unresponsive, TypeOK
  <2>3. /\ connected' \in [Plugs -> BOOLEAN]
        /\ componentCount' \in [Plugs -> 0 .. MAX_COMPONENT_COUNT]
        /\ led' \in [Plugs -> BOOLEAN] /\ clean' \in [Plugs -> BOOLEAN]
    <3>1. connected' \in [Plugs -> BOOLEAN] /\ led' \in [Plugs -> BOOLEAN]
        BY <1>7 DEF CheckDisconnects
    <3>2. componentCount' \in [Plugs -> 0 .. MAX_COMPONENT_COUNT]
        BY <1>0, <1>7 DEF CheckDisconnects, TypeOK
    <3>3. clean' \in [Plugs -> BOOLEAN]
        BY <1>7 DEF CheckDisconnects
    <3> QED  BY <3>1, <3>2, <3>3
  <2>4. TypeOK'
    <3>1. /\ plug' \in [Plugs -> Devices \cup {NoDevice}]
          /\ out' \in [Devices -> [Slots -> ActValues]]
          /\ inbox' \in [Plugs -> Commands]
          /\ line' \in [Plugs -> {"clear", "eol", "junk"}]
          /\ reply' \in Messages /\ waiting' \in BOOLEAN
          /\ pc' \in {"queue", "act", "poll", "check", "send"}
          /\ cur' \in 0 .. MAX_DEVICE_COUNT /\ todo' \in Requests \cup {{}}
        BY <1>0, <2>1 DEF TypeOK
    <3>2. /\ noResponseCount' \in [Plugs -> 0 .. NoResponseCap]
          /\ devId' \in [Plugs -> Devices \cup {NoDevice}]
          /\ value' \in [Plugs -> [Slots -> Devices \cup {NoDevice}]]
          /\ actuatorValue' \in [Plugs -> [Slots -> ActValues]]
          /\ unanswered' \in [Plugs -> 0 .. NoResponseCap]
          /\ faults' \in 0 .. MaxFaults /\ moves' \in 0 .. MaxMoves
          /\ restarts' \in 0 .. MaxRestarts
        BY <1>0, <2>1 DEF TypeOK
    <3> QED  BY <2>3, <3>1, <3>2, Zenon DEF TypeOK
  <2>5. Control'  BY <1>0, <2>1 DEF Control
  <2>6. PlugState'  BY <1>0, <2>1, <2>2 DEF PlugState
  <2>7. KnownDevice'  BY <2>1, <2>2 DEF IndInv, KnownDevice
  <2>8. ReplyFromOccupant'  BY <2>1 DEF ReplyFromOccupant, Nothing
  <2>9. MissesCounted'  BY <2>1 DEF IndInv, MissesCounted
  <2>10. SilentPlugDropped'
      BY <1>0, <2>1, <2>2 DEF SilentPlugDropped, TypeOK
  <2> QED  BY <2>4, <2>5, <2>6, <2>7, <2>8, <2>9, <2>10 DEF IndInv
<1>8. ASSUME SendSensorValues \/ SendNotDue
      PROVE  IndInv'
  <2>1. /\ pc = "send" /\ pc' = "queue" /\ cur = 0 /\ reply = Nothing
        /\ UNCHANGED <<cur, todo, boardVars, lineVars, devVars, histVars, bounds>>
      BY <1>0, <1>8 DEF SendSensorValues, SendNotDue, Control
  <2>2. TypeOK'  BY <1>0, <2>1 DEF TypeOK
  <2>3. Control'  BY <1>0, <2>1 DEF Control
  <2>4. PlugState' /\ KnownDevice' /\ MissesCounted' /\ SilentPlugDropped'
      BY <2>1 DEF IndInv, PlugState, KnownDevice, MissesCounted, SilentPlugDropped
  <2>5. ReplyFromOccupant'  BY <2>1 DEF ReplyFromOccupant, Nothing
  <2> QED  BY <2>2, <2>3, <2>4, <2>5 DEF IndInv
<1> QED  BY <1>1, <1>2, <1>3, <1>4, <1>5, <1>6, <1>7, <1>8 DEF Hub

(* esp_restart() forgets all the hub knew.                                 *)
LEMMA RestartInv == IndInv /\ Restart => IndInv'
<1> SUFFICES ASSUME IndInv, Restart PROVE IndInv'
    OBVIOUS
<1>1. ~waiting /\ reply = Nothing
    BY DEF Restart, IndInv, Control
<1>2. UNCHANGED <<plug, out, inbox, reply, waiting, unanswered, faults, moves>>
    BY DEF Restart, boardVars
<1>3. TypeOK'
  <2>1. PowerOn \in [Slots -> ActValues]  BY DEF PowerOn
  <2>2. /\ plug' \in [Plugs -> Devices \cup {NoDevice}]
        /\ out' \in [Devices -> [Slots -> ActValues]]
        /\ inbox' \in [Plugs -> Commands]
        /\ reply' \in Messages /\ waiting' \in BOOLEAN
        /\ unanswered' \in [Plugs -> 0 .. NoResponseCap]
        /\ faults' \in 0 .. MaxFaults /\ moves' \in 0 .. MaxMoves
      BY <1>2 DEF IndInv, TypeOK
  <2>3. /\ line' \in [Plugs -> {"clear", "eol", "junk"}]
        /\ connected' \in [Plugs -> BOOLEAN]
        /\ noResponseCount' \in [Plugs -> 0 .. NoResponseCap]
        /\ componentCount' \in [Plugs -> 0 .. MAX_COMPONENT_COUNT]
        /\ devId' \in [Plugs -> Devices \cup {NoDevice}]
        /\ led' \in [Plugs -> BOOLEAN]
        /\ clean' \in [Plugs -> BOOLEAN]
      BY DEF Restart
  <2>4. /\ value' \in [Plugs -> [Slots -> Devices \cup {NoDevice}]]
        /\ actuatorValue' \in [Plugs -> [Slots -> ActValues]]
      BY <2>1 DEF Restart
  <2>5. /\ pc' \in {"queue", "act", "poll", "check", "send"}
        /\ cur' \in 0 .. MAX_DEVICE_COUNT
        /\ todo' \in Requests \cup {{}}
        /\ restarts' \in 0 .. MaxRestarts
      BY DEF Restart, IndInv, TypeOK
  <2> QED  BY <2>2, <2>3, <2>4, <2>5, Zenon DEF TypeOK
<1>4. Control'  BY <1>1, <1>2 DEF Restart, IndInv, Control
<1>5. PlugState' /\ KnownDevice'  BY DEF Restart, PlugState, KnownDevice
<1>6. ReplyFromOccupant'  BY <1>1, <1>2 DEF ReplyFromOccupant, Nothing
<1>7. MissesCounted' /\ SilentPlugDropped'
    BY DEF Restart, MissesCounted, SilentPlugDropped
<1> QED  BY <1>3, <1>4, <1>5, <1>6, <1>7 DEF IndInv

(* The server's requests leave the plugs and the hub's view alone.         *)
LEMMA ServerInv == IndInv /\ Server => IndInv'
<1> SUFFICES ASSUME IndInv, Server PROVE IndInv'
    OBVIOUS
<1> USE DEF lineVars, loopVars, devVars, histVars, boardVars, bounds
<1>1. UNCHANGED <<boardVars, lineVars, loopVars, devVars, histVars, bounds>>
    BY DEF Server, RequestDevices, RequestServed
<1>2. TypeOK'  BY <1>1 DEF IndInv, TypeOK
<1>3. Control' /\ PlugState' /\ KnownDevice'
    BY <1>1 DEF IndInv, Control, PlugState, KnownDevice
<1>4. ReplyFromOccupant' /\ MissesCounted' /\ SilentPlugDropped'
    BY <1>1 DEF IndInv, ReplyFromOccupant, MissesCounted, SilentPlugDropped
<1> QED  BY <1>2, <1>3, <1>4 DEF IndInv

(* IndInv is inductive.                                                    *)
THEOREM Inductive == Spec => []IndInv
<1>1. IndInv /\ UNCHANGED vars => IndInv'
  <2> USE DEF vars, lineVars, loopVars, devVars, histVars, boardVars, bounds
  <2>1. TypeOK /\ UNCHANGED vars => TypeOK'  BY DEF TypeOK
  <2>2. Control /\ PlugState /\ KnownDevice /\ UNCHANGED vars
          => Control' /\ PlugState' /\ KnownDevice'
      BY DEF Control, PlugState, KnownDevice
  <2>3. ReplyFromOccupant /\ MissesCounted /\ SilentPlugDropped /\ UNCHANGED vars
          => ReplyFromOccupant' /\ MissesCounted' /\ SilentPlugDropped'
      BY DEF ReplyFromOccupant, MissesCounted, SilentPlugDropped
  <2> QED  BY <2>1, <2>2, <2>3 DEF IndInv
<1>2. IndInv /\ [Next]_vars => IndInv'
    BY <1>1, BoardsInv, HubInv, RestartInv, ServerInv DEF Next
<1> QED  BY InitInv, <1>2, PTL DEF Spec

-----------------------------------------------------------------------------
(* Every variable of the hub, of the boards and of the line keeps its      *)
(* kind.                                                                   *)
THEOREM TypeCorrect == Spec => []TypeOK
<1>1. IndInv => TypeOK  BY DEF IndInv
<1> QED  BY <1>1, Inductive, PTL

(* The LED, the component count and the ID the hub holds for a plug agree. *)
THEOREM PlugStateHolds == Spec => []PlugState
<1>1. IndInv => PlugState  BY DEF IndInv
<1> QED  BY <1>1, Inductive, PTL

(* A board inserted in a plug held for empty is known by its own ID.       *)
THEOREM KnownDeviceHolds == Spec => []KnownDevice
<1>1. IndInv => KnownDevice  BY DEF IndInv
<1> QED  BY <1>1, Inductive, PTL

(* Past the disconnect check no connected plug has two silences against    *)
(* it.                                                                     *)
THEOREM SilentPlugDroppedHolds == Spec => []SilentPlugDropped
<1>1. IndInv => SilentPlugDropped  BY DEF IndInv
<1> QED  BY <1>1, Inductive, PTL

(* No plug is dropped unless its device left an exchange unanswered.       *)
THEOREM DropHasCauseHolds == Spec => DropHasCause
<1> DEFINE Caused == \A p \in Plugs :
               pc = "check" /\ connected[p] /\ ~connected'[p] => unanswered[p] >= 1
<1>1. IndInv /\ Next => Caused
  <2> SUFFICES ASSUME IndInv, Next, NEW p \in Plugs,
                      pc = "check", connected[p], ~connected'[p]
               PROVE  unanswered[p] >= 1
      OBVIOUS
  <2>1. ~waiting /\ reply = Nothing  BY DEF IndInv, Control
  <2>2. connected' # connected  OBVIOUS
  <2>3. CheckDisconnects
      BY <2>1, <2>2
      DEF Next, Boards, Hub, Insert, Remove, Serve, LoseCommand, GarbleReply, ActuatorRequest,
          NoRequest, PollDue, PollNotDue, PollPlug, UpdatePlug, SkipPlug, GetReply, TimeOut,
          SendSensorValues, SendNotDue, Restart, Server, RequestDevices, RequestServed, Send,
          devVars
  <2>4. p \in Unresponsive  BY <2>3 DEF CheckDisconnects
  <2> QED  BY <2>4 DEF Unresponsive, IndInv, MissesCounted
<1>2. IndInv /\ [Next]_vars => [Caused]_vars
    BY <1>1
<1> QED  BY <1>2, Inductive, PTL DEF Spec, DropHasCause

-----------------------------------------------------------------------------
(* The server's list: what each step does to it.                           *)

(* What Agrees looks at changes only when an answer brings metadata, a     *)
(* plug is dropped or the hub restarts; a list made for req_devices agrees *)
(* as long as loop() sends none.                                           *)
ListInv ==
  /\ ServerListCurrent
  /\ ~overtaken => \A l \in asked : Agrees(l)

(* The plugs a list is about: connected, with the ID and count it names.   *)
Listed(conn, count) == \A p \in Plugs : count[p] > 0 => conn[p]

(* A list made of the hub's state agrees with it.                          *)
LEMMA DeviceListAgrees ==
  ASSUME Listed(connected, componentCount)
  PROVE  Agrees(DeviceList(connected, devId, componentCount))
BY DEF Agrees, Listed, DeviceList, ConnectedPlugs

(* What loses a connection or metadata, or gains metadata, is a change.    *)
LEMMA AgreesStays ==
  ASSUME NEW l, Agrees(l), UNCHANGED <<devId, componentCount>>,
         \A p : connected[p] => connected'[p]
  PROVE  Agrees(l)'
BY DEF Agrees

(* Nothing is announced and nothing connected at first.                    *)
LEMMA ListInit == Init => ListInv
BY DEF Init, ListInv, ServerListCurrent, Agrees

(* loop() sends the list it should: it may be lost, but is then untold.    *)
LEMMA ListSent ==
  ASSUME NEW list, SendDeviceInfo(list), UNCHANGED asked, Agrees(list)'
  PROVE  ListInv'
<1>1. ServerListCurrent'
    BY DEF SendDeviceInfo, ServerListCurrent
<1>2. ~overtaken' => asked' = {}  BY DEF SendDeviceInfo
<1> QED  BY <1>1, <1>2 DEF ListInv

(* An answer announces what it changes; a silence changes nothing.         *)
LEMMA ListOnResponse ==
  ASSUME IndInv, ListInv, NEW p \in Plugs,
         NEW msg \in Messages \cup {Garbled(NoDevice)},
         Response(p, msg), UNCHANGED asked
  PROVE  ListInv'
<1>0. /\ connected \in [Plugs -> BOOLEAN]
      /\ componentCount \in [Plugs -> 0 .. MAX_COMPONENT_COUNT]
      /\ PlugState
      /\ CountOnContact(p) = componentCount[p]
  <2>1. TypeOK /\ PlugState  BY DEF IndInv
  <2>2. connected \in [Plugs -> BOOLEAN]
        /\ componentCount \in [Plugs -> 0 .. MAX_COMPONENT_COUNT]
      BY <2>1 DEF TypeOK
  <2>3. ~connected[p] => componentCount[p] = 0  BY <2>1, <2>2 DEF PlugState
  <2> QED  BY <2>1, <2>2, <2>3 DEF CountOnContact
<1>1. ASSUME UNCHANGED <<toldVars, devId, componentCount>>,
             \A q : connected[q] => connected'[q]
      PROVE  ListInv'
  <2>1. \A l : Agrees(l) => Agrees(l)'  BY <1>1, AgreesStays
  <2> QED  BY <1>1, <2>1 DEF ListInv, ServerListCurrent, toldVars
<1>2. CASE msg.kind = "nothing" /\ NoResponse(p)
    BY <1>1, <1>2 DEF NoResponse
<1>3. CASE msg.kind = "m" /\ Responded(p) /\ TakeMetadata(p, msg.from)
  <2>1. /\ connected' = [connected EXCEPT ![p] = TRUE]
        /\ SendDeviceInfo(DeviceList(connected', devId', componentCount'))
        /\ componentCount' = [componentCount EXCEPT ![p] = Len(Meta[msg.from].suffix)]
      BY <1>3 DEF Responded, TakeMetadata
  <2>2. Listed(connected', componentCount')  BY <1>0, <2>1 DEF PlugState, Listed
  <2>3. PICK l : l = DeviceList(connected', devId', componentCount')  OBVIOUS
  <2>4. Agrees(l)'  BY <2>2, <2>3 DEF Agrees, Listed, DeviceList, ConnectedPlugs
  <2>5. SendDeviceInfo(l)  BY <2>1, <2>3
  <2> QED  BY <2>4, <2>5, ListSent
<1>4. CASE /\ msg.kind \in {"v", "s", "e", "garbled"}
           /\ Responded(p)
           /\ TakeValues(p, msg.from) \/ TakeNothing(p)
  <2>1. /\ connected' = [connected EXCEPT ![p] = TRUE]
        /\ componentCount' = [componentCount EXCEPT ![p] = CountOnContact(p)]
        /\ UNCHANGED <<devId, toldVars>>
      BY <1>4 DEF Responded, TakeValues, TakeNothing
  <2>2. componentCount' = componentCount  BY <1>0, <2>1
  <2>3. \A q : connected[q] => connected'[q]  BY <1>0, <2>1
  <2> QED  BY <1>1, <2>1, <2>2, <2>3
<1> QED  BY <1>2, <1>3, <1>4 DEF Response

(* A drop is announced; no other step touches what is listed.              *)
LEMMA ListStep ==
  IndInv /\ ListInv /\ [Next]_vars => ListInv'
<1> SUFFICES ASSUME IndInv, ListInv, [Next]_vars PROVE ListInv'
    OBVIOUS
<1> USE DEF vars, lineVars, loopVars, devVars, histVars, boardVars, bounds
<1>0. /\ PlugState
      /\ componentCount \in [Plugs -> 0 .. MAX_COMPONENT_COUNT]
      /\ connected \in [Plugs -> BOOLEAN]
    BY DEF IndInv, TypeOK
<1>1. CASE GetReply
  <2>1. cur \in Plugs /\ Read(cur, reply) \in Messages \cup {Garbled(NoDevice)}
      BY <1>1 DEF GetReply, Read, IndInv, TypeOK, Control, Messages, Garbled, Nothing
  <2> QED  BY <1>1, <2>1, ListOnResponse DEF GetReply
<1>2. CASE TimeOut
  <2>1. cur \in Plugs /\ Read(cur, Nothing) \in Messages \cup {Garbled(NoDevice)}
      BY <1>2 DEF TimeOut, Read, IndInv, Control, Messages, Garbled, Nothing
  <2> QED  BY <1>2, <2>1, ListOnResponse DEF TimeOut
<1>3. CASE CheckDisconnects
  <2>1. /\ connected' = [p \in Plugs |-> connected[p] /\ p \notin Unresponsive]
        /\ componentCount' =
             [p \in Plugs |-> IF p \in Unresponsive THEN 0 ELSE componentCount[p]]
        /\ UNCHANGED <<devId, asked>>
      BY <1>3 DEF CheckDisconnects
  <2>2. CASE Unresponsive = {}
    <3>1. UNCHANGED toldVars  BY <1>3, <2>2 DEF CheckDisconnects
    <3>2. connected' = [p \in Plugs |-> connected[p]]  BY <1>0, <2>1, <2>2
    <3>3. connected' = connected  BY <1>0, <3>2
    <3>4. componentCount' = componentCount  BY <1>0, <2>1, <2>2
    <3>5. \A l : Agrees(l) => Agrees(l)'  BY <2>1, <3>3, <3>4, AgreesStays
    <3> QED  BY <2>1, <3>1, <3>5 DEF ListInv, ServerListCurrent, toldVars
  <2>3. CASE Unresponsive # {}
    <3>1. SendDrops  BY <1>3, <2>3 DEF CheckDisconnects
    <3>2. ~overtaken' => asked' = {}  BY <2>1, <3>1 DEF SendDrops
    <3>3. ServerListCurrent'
      <4> SUFFICES ASSUME ~untold' PROVE Agrees(announced)'
          BY DEF ServerListCurrent
      <4>1. PICK p \in Unresponsive : /\ announced' = ListAfterDrop(p)
                                      /\ ~\E q \in Unresponsive : q > p
          BY <3>1 DEF SendDrops
      <4>2. \A q \in Unresponsive : q <= p
          BY <4>1 DEF Unresponsive
      <4>3. [q \in Plugs |-> connected[q] /\ ~(q \in Unresponsive /\ q <= p)] = connected'
          BY <2>1, <4>2
      <4>4. [q \in Plugs |-> IF connected'[q] THEN componentCount[q] ELSE 0] = componentCount'
        <5>1. \A q \in Plugs : ~connected[q] => componentCount[q] = 0
            BY <1>0 DEF PlugState
        <5> QED  BY <1>0, <2>1, <5>1
      <4>5. announced' = DeviceList(connected', devId', componentCount')
          BY <2>1, <4>1, <4>3, <4>4 DEF ListAfterDrop
      <4>6. Listed(connected', componentCount')
          BY <1>0, <2>1 DEF PlugState, Listed
      <4> QED  BY <4>5, <4>6 DEF Agrees, Listed, DeviceList, ConnectedPlugs
    <3> QED  BY <3>2, <3>3 DEF ListInv
  <2> QED  BY <2>2, <2>3
<1>4. CASE Restart
    BY <1>4 DEF Restart, ListInv, ServerListCurrent
<1>5. CASE RequestDevices
  <2>1. /\ asked' = {DeviceList(connected, devId, componentCount)}
        /\ UNCHANGED <<connected, devId, componentCount, announced, untold>>
      BY <1>5 DEF RequestDevices
  <2>2. Agrees(DeviceList(connected, devId, componentCount))
      BY <1>0, DeviceListAgrees DEF PlugState, Listed
  <2> QED  BY <2>1, <2>2 DEF ListInv, ServerListCurrent, Agrees
<1>6. CASE RequestServed
  <2>1. /\ asked' = {} /\ UNCHANGED <<connected, devId, componentCount>>
        /\ \/ announced' \in asked /\ untold' = overtaken
           \/ UNCHANGED <<announced, untold>>
      BY <1>6 DEF RequestServed
  <2> QED  BY <2>1 DEF ListInv, ServerListCurrent, Agrees
<1>7. CASE Boards \/ ActuatorRequest \/ NoRequest \/ PollDue \/ PollNotDue \/ PollPlug
           \/ UpdatePlug \/ SkipPlug \/ SendSensorValues \/ SendNotDue \/ UNCHANGED vars
  <2>1. UNCHANGED <<toldVars, asked, connected, componentCount, devId>>
      BY <1>7
      DEF Boards, Insert, Remove, Serve, LoseCommand, GarbleReply, ActuatorRequest, NoRequest,
          PollDue, PollNotDue, PollPlug, UpdatePlug, SkipPlug, SendSensorValues, SendNotDue, Send,
          sentVars
  <2> QED  BY <2>1 DEF ListInv, ServerListCurrent, Agrees, toldVars
<1> QED  BY <1>1, <1>2, <1>3, <1>4, <1>5, <1>6, <1>7 DEF Next, Hub, Server

(* The server's list agrees with what the hub holds, unless a list the hub *)
(* made since was lost or overtaken, or the hub restarted.                 *)
THEOREM ServerListHolds == Spec => []ServerListCurrent
<1>1. ListInv => ServerListCurrent  BY DEF ListInv
<1> QED  BY <1>1, ListInit, ListStep, Inductive, PTL DEF Spec

-----------------------------------------------------------------------------
(* A reading is filed only under the device that sent it.                  *)
THEOREM ReadingsHold == Spec => ReadingsFiledUnderSender
<1> DEFINE Filed == \A p \in Plugs, k \in Slots :
               clean[p] /\ value'[p][k] # value[p][k] /\ value'[p][k] # NoDevice
                 => value'[p][k] = devId[p]
<1>1. IndInv /\ Next => Filed
  <2> SUFFICES ASSUME IndInv, Next, NEW p \in Plugs, NEW k \in Slots, clean[p],
                      value'[p][k] # value[p][k], value'[p][k] # NoDevice
               PROVE  value'[p][k] = devId[p]
      OBVIOUS
  <2>1. value' # value  OBVIOUS
  <2>2. ~Restart  BY DEF Restart
  <2>3. GetReply \/ TimeOut
      BY <2>1, <2>2
      DEF Next, Boards, Hub, Insert, Remove, Serve, LoseCommand, GarbleReply, ActuatorRequest,
          NoRequest, PollDue, PollNotDue, PollPlug, UpdatePlug, SkipPlug, CheckDisconnects,
          SendSensorValues, SendNotDue, Server, RequestDevices, RequestServed, Send, devVars
  <2>4. PICK msg \in {Read(cur, reply), Read(cur, Nothing)} : Response(cur, msg)
      BY <2>3 DEF GetReply, TimeOut
  <2>5. msg.kind = "v" /\ TakeValues(cur, msg.from)
      BY <2>1, <2>4 DEF Response, NoResponse, TakeMetadata, TakeNothing
  <2>6. msg = reply /\ reply.kind = "v"
      BY <2>4, <2>5 DEF Read, Garbled, Nothing
  <2>7. cur \in Plugs /\ value \in [Plugs -> [Slots -> Devices \cup {NoDevice}]]
      BY <2>3 DEF GetReply, TimeOut, IndInv, Control, TypeOK
  <2>8. p = cur /\ CountOnContact(cur) > 0 /\ value'[p][k] = msg.from
      BY <2>5, <2>7 DEF TakeValues
  <2>9. componentCount[cur] > 0  BY <2>8 DEF CountOnContact
  <2> QED  BY <2>6, <2>8, <2>9 DEF IndInv, ReplyFromOccupant
<1>2. IndInv /\ [Next]_vars => [Filed]_vars
    BY <1>1
<1> QED  BY <1>2, Inductive, PTL DEF Spec, ReadingsFiledUnderSender

-----------------------------------------------------------------------------
(* The mirror of the outputs.                                              *)

Occupied == {p \in Plugs : plug[p] # NoDevice}

(* What command c makes of the output levels of board d.                   *)
Levels(d, c, levels) ==
  [k \in Slots |->
     IF Accepts(d, c) /\ \E r \in 1 .. Len(Meta[d].outs) : Meta[d].outs[r] = k
     THEN c.args[CHOOSE r \in 1 .. Len(Meta[d].outs) : Meta[d].outs[r] = k]
     ELSE levels[k]]

(* What the board in plug p has made, or will make of the command that is  *)
(* in its inbox, of its outputs, is what the hub keeps for that plug.      *)
Mirrors(p) ==
  \A r \in 1 .. Len(Meta[plug[p]].outs) :
    LET k == Meta[plug[p]].outs[r]
    IN  Levels(plug[p], inbox[p], out[plug[p]])[k] = actuatorValue[p][k]

(* A board sits in one plug.  While nothing was disturbed, no board left   *)
(* its plug: the hub knows it by its ID, only it answers, and before it    *)
(* came neither the hub nor the board had set an output.                   *)
OneBoard ==
  /\ moves >= Cardinality(Occupied)
  /\ \A p, q \in Plugs : plug[p] = plug[q] /\ plug[p] # NoDevice => p = q

AtPlug(p) ==
  /\ reply # Nothing /\ cur = p => reply.from = plug[p]
  /\ componentCount[p] > 0 => devId[p] = plug[p]
  /\ plug[p] = NoDevice => actuatorValue[p] = PowerOn
  /\ plug[p] # NoDevice => Mirrors(p)

Unused == \A d \in Devices : (\A p \in Plugs : plug[p] # d) => out[d] = PowerOn

MirrorInv ==
  OneBoard /\ (NothingDisturbed => Unused /\ \A p \in Plugs : AtPlug(p))

LEMMA MirrorInit == Init => MirrorInv
<1> SUFFICES ASSUME Init PROVE MirrorInv
    OBVIOUS
<1>1. Occupied = {}  BY DEF Init, Occupied
<1>2. OneBoard  BY <1>1, FS_EmptySet DEF Init, OneBoard
<1>3. Unused /\ \A p \in Plugs : AtPlug(p)
    BY DEF Init, Unused, AtPlug
<1> QED  BY <1>2, <1>3 DEF MirrorInv

LEMMA OccupiedFinite == IsFiniteSet(Occupied) /\ Cardinality(Occupied) \in Nat
<1>1. IsFiniteSet(Plugs)  BY FS_Interval
<1>2. Occupied \in SUBSET Plugs  BY DEF Occupied
<1> QED  BY <1>1, <1>2, FS_Subset, FS_CardinalityType

(* What was disturbed stays disturbed.                                     *)
LEMMA CalmBefore ==
  ASSUME TypeOK, UNCHANGED <<plug, moves>>,
         faults' \in Nat, restarts' \in Nat, faults' >= faults, restarts' >= restarts,
         NothingDisturbed'
  PROVE  NothingDisturbed
BY DEF NothingDisturbed, TypeOK

(* A step that leaves boards, commands and outputs alone.                  *)
LEMMA MirrorKept ==
  ASSUME TypeOK, MirrorInv, UNCHANGED <<plug, out, inbox, actuatorValue, moves>>,
         faults' \in Nat, restarts' \in Nat, faults' >= faults, restarts' >= restarts,
         NothingDisturbed =>
           \A p \in Plugs :
             /\ reply' # Nothing /\ cur' = p => reply'.from = plug[p]
             /\ componentCount'[p] > 0 => devId'[p] = plug[p]
  PROVE  MirrorInv'
<1>1. OneBoard'  BY DEF MirrorInv, OneBoard, Occupied
<1>2. ASSUME NothingDisturbed' PROVE Unused' /\ \A p \in Plugs : AtPlug(p)'
  <2>1. NothingDisturbed  BY <1>2, CalmBefore
  <2>2. Unused'  BY <2>1 DEF MirrorInv, Unused
  <2>3. ASSUME NEW p \in Plugs PROVE AtPlug(p)'
    <3>1. Mirrors(p) => Mirrors(p)'  BY DEF Mirrors
    <3> QED  BY <2>1, <3>1 DEF MirrorInv, AtPlug
  <2> QED  BY <2>2, <2>3
<1> QED  BY <1>1, <1>2 DEF MirrorInv

(* A step that lost or reset something.                                    *)
LEMMA MirrorLost ==
  ASSUME MirrorInv, UNCHANGED <<plug, moves>>, ~NothingDisturbed'
  PROVE  MirrorInv'
BY DEF MirrorInv, OneBoard, Occupied

-----------------------------------------------------------------------------
(* A board that comes meets the state the hub and it started in.           *)
LEMMA InsertMirrors ==
  ASSUME IndInv, MirrorInv, NEW p \in Plugs, NEW d \in Devices, Insert(p, d)
  PROVE  MirrorInv'
<1> USE DEF lineVars, loopVars, devVars
<1>0. TypeOK /\ Control /\ PlugState  BY DEF IndInv
<1>1. /\ plug[p] = NoDevice /\ \A q \in Plugs : plug[q] # d
      /\ plug' = [plug EXCEPT ![p] = d] /\ moves' = moves + 1
      /\ UNCHANGED <<out, inbox, reply, cur, componentCount, devId, actuatorValue, faults, restarts>>
    BY DEF Insert
<1>2. /\ plug' \in [Plugs -> Devices \cup {NoDevice}] /\ plug'[p] = d /\ d # NoDevice
      /\ \A q \in Plugs : q # p => plug'[q] = plug[q]
    BY <1>0, <1>1 DEF TypeOK
<1>3. Occupied' = Occupied \cup {p} /\ p \notin Occupied
    BY <1>1, <1>2 DEF Occupied
<1>4. Cardinality(Occupied') = Cardinality(Occupied) + 1
    BY <1>3, OccupiedFinite, FS_AddElement
<1>5. moves \in Nat  BY <1>0 DEF TypeOK
<1>6. OneBoard'
  <2>1. moves' >= Cardinality(Occupied')
      BY <1>1, <1>4, <1>5, OccupiedFinite DEF MirrorInv, OneBoard
  <2>2. \A q, s \in Plugs : plug'[q] = plug'[s] /\ plug'[q] # NoDevice => q = s
      BY <1>1, <1>2 DEF MirrorInv, OneBoard
  <2> QED  BY <2>1, <2>2 DEF OneBoard
<1>7. ASSUME NothingDisturbed' PROVE Unused' /\ \A q \in Plugs : AtPlug(q)'
  <2>1. NothingDisturbed
    <3>1. moves + 1 = Cardinality(Occupied) + 1
        BY <1>1, <1>4, <1>7 DEF NothingDisturbed, Occupied
    <3>2. moves = Cardinality(Occupied)  BY <1>5, <3>1, OccupiedFinite
    <3> QED  BY <1>1, <1>7, <3>2 DEF NothingDisturbed, Occupied
  <2>2. Unused /\ \A q \in Plugs : AtPlug(q)  BY <2>1 DEF MirrorInv
  <2>3. Unused'
    <3> SUFFICES ASSUME NEW e \in Devices, \A q \in Plugs : plug'[q] # e
                 PROVE  out'[e] = PowerOn
        BY DEF Unused
    <3>1. \A q \in Plugs : plug[q] # e  BY <1>1, <1>2
    <3> QED  BY <1>1, <2>2, <3>1 DEF Unused
  <2>4. ASSUME NEW q \in Plugs, q # p PROVE AtPlug(q)'
    <3>1. Mirrors(q) => Mirrors(q)'  BY <1>1, <1>2, <2>4 DEF Mirrors
    <3> QED  BY <1>1, <1>2, <2>2, <2>4, <3>1 DEF AtPlug
  <2>5. AtPlug(p)'
    <3>1. out[d] = PowerOn /\ actuatorValue[p] = PowerOn
        BY <1>1, <2>2 DEF Unused, AtPlug
    <3>2. inbox[p] = NoCommand
      <4>1. inbox[p] # NoCommand => plug[p] \in Devices  BY <1>0 DEF Control
      <4> QED  BY <1>1, <4>1
    <3>3. reply # Nothing => cur # p
      <4>1. reply # Nothing => reply.from \in Devices  BY <1>0 DEF TypeOK, Messages
      <4> QED  BY <1>1, <2>2, <4>1 DEF AtPlug
    <3>4. ~(componentCount[p] > 0)
      <4>1. componentCount[p] > 0 => devId[p] \in Devices  BY <1>0 DEF PlugState
      <4> QED  BY <1>1, <2>2, <4>1 DEF AtPlug
    <3>5. Mirrors(p)'
      <4> SUFFICES ASSUME NEW r \in 1 .. Len(Meta[d].outs)
                   PROVE  Levels(d, inbox[p], out[d])[Meta[d].outs[r]]
                            = actuatorValue[p][Meta[d].outs[r]]
          BY <1>1, <1>2 DEF Mirrors
      <4>1. Meta[d].outs[r] \in Slots  BY MetaType
      <4>2. ~Accepts(d, inbox[p])  BY <3>2 DEF Accepts, NoCommand
      <4> QED  BY <3>1, <4>1, <4>2 DEF Levels, PowerOn
    <3> QED  BY <1>1, <1>2, <3>3, <3>4, <3>5 DEF AtPlug
  <2> QED  BY <2>3, <2>4, <2>5
<1> QED  BY <1>6, <1>7 DEF MirrorInv

(* A board that goes is one of the moves that disturb.                     *)
LEMMA RemoveMirrors ==
  ASSUME IndInv, MirrorInv, NEW p \in Plugs, Remove(p)
  PROVE  MirrorInv'
<1>0. TypeOK  BY DEF IndInv
<1>1. /\ plug[p] # NoDevice /\ plug' = [plug EXCEPT ![p] = NoDevice] /\ moves' = moves + 1
    BY DEF Remove
<1>2. plug'[p] = NoDevice /\ \A q \in Plugs : q # p => plug'[q] = plug[q]
    BY <1>0, <1>1 DEF TypeOK
<1>3. Occupied' = Occupied \ {p} /\ p \in Occupied
    BY <1>1, <1>2 DEF Occupied
<1>4. Cardinality(Occupied') = Cardinality(Occupied) - 1
    BY <1>3, OccupiedFinite, FS_RemoveElement
<1>5. moves \in Nat  BY <1>0 DEF TypeOK
<1>6. moves' >= Cardinality(Occupied') /\ moves' # Cardinality(Occupied')
    BY <1>1, <1>4, <1>5, OccupiedFinite DEF MirrorInv, OneBoard
<1>7. OneBoard'  BY <1>2, <1>6 DEF MirrorInv, OneBoard
<1>8. ~NothingDisturbed'  BY <1>6 DEF NothingDisturbed, Occupied
<1> QED  BY <1>7, <1>8 DEF MirrorInv

(* A board that serves a command only does what was foreseen.              *)
LEMMA ServeMirrors ==
  ASSUME IndInv, MirrorInv, NEW p \in Plugs, Serve(p)
  PROVE  MirrorInv'
<1> USE DEF loopVars, devVars, bounds
<1>0. TypeOK /\ Control  BY DEF IndInv
<1>1. /\ inbox[p] # NoCommand
      /\ out' = [out EXCEPT ![plug[p]] = Served(plug[p], inbox[p])]
      /\ reply' = IF waiting /\ cur = p THEN Answer(plug[p], inbox[p]) ELSE reply
      /\ inbox' = [inbox EXCEPT ![p] = NoCommand]
      /\ UNCHANGED <<plug, cur, componentCount, devId, actuatorValue, moves, faults, restarts>>
    BY DEF Serve
<1>2. plug[p] \in Devices  BY <1>0, <1>1 DEF Control
<1>3. OneBoard'  BY <1>1 DEF MirrorInv, OneBoard, Occupied
<1>4. ASSUME NothingDisturbed' PROVE Unused' /\ \A q \in Plugs : AtPlug(q)'
  <2>1. NothingDisturbed  BY <1>1, <1>4 DEF NothingDisturbed
  <2>2. Unused /\ \A q \in Plugs : AtPlug(q)  BY <2>1 DEF MirrorInv
  <2>3. Unused'
    <3> SUFFICES ASSUME NEW e \in Devices, \A q \in Plugs : plug[q] # e
                 PROVE  out'[e] = PowerOn
        BY <1>1 DEF Unused
    <3>1. e # plug[p]  OBVIOUS
    <3>2. out'[e] = out[e]  BY <1>0, <1>1, <3>1 DEF TypeOK
    <3> QED  BY <2>2, <3>2 DEF Unused
  <2>4. ASSUME NEW q \in Plugs, q # p PROVE AtPlug(q)'
    <3>1. plug[q] # NoDevice => plug[q] \in Devices /\ plug[q] # plug[p]
        BY <1>0, <2>4 DEF MirrorInv, OneBoard, TypeOK
    <3>2. ASSUME plug[q] # NoDevice PROVE out'[plug[q]] = out[plug[q]]
        BY <1>0, <1>1, <3>1, <3>2 DEF TypeOK
    <3>3. inbox'[q] = inbox[q]  BY <1>0, <1>1, <2>4 DEF TypeOK
    <3>4. ASSUME plug[q] # NoDevice, Mirrors(q) PROVE Mirrors(q)'
        BY <1>1, <3>2, <3>3, <3>4 DEF Mirrors
    <3>5. reply' # Nothing /\ cur' = q => reply' = reply /\ cur = q
        BY <1>1, <2>4
    <3> QED  BY <1>1, <2>2, <3>4, <3>5 DEF AtPlug
  <2>5. AtPlug(p)'
    <3>1. reply' # Nothing /\ cur' = p => reply'.from = plug[p]
        BY <1>1, <2>2 DEF AtPlug, Answer
    <3>2. Mirrors(p)'
      <4>1. inbox'[p] = NoCommand  BY <1>0, <1>1 DEF TypeOK
      <4>2. out'[plug[p]] = Served(plug[p], inbox[p])  BY <1>0, <1>1, <1>2 DEF TypeOK
      <4>3. Served(plug[p], inbox[p]) = Levels(plug[p], inbox[p], out[plug[p]])
          BY DEF Served, Levels
      <4>4. Mirrors(p)  BY <1>2, <2>2 DEF AtPlug
      <4>5. \A r \in 1 .. Len(Meta[plug[p]].outs) : Meta[plug[p]].outs[r] \in Slots
          BY <1>2, MetaType
      <4>6. \A k \in Slots :
              Levels(plug[p], NoCommand, out'[plug[p]])[k] = out'[plug[p]][k]
          BY DEF Levels, Accepts, NoCommand
      <4>7. \A r \in 1 .. Len(Meta[plug[p]].outs) :
              Levels(plug[p], NoCommand, out'[plug[p]])[Meta[plug[p]].outs[r]]
                = actuatorValue[p][Meta[plug[p]].outs[r]]
          BY <4>2, <4>3, <4>4, <4>5, <4>6 DEF Mirrors
      <4> QED  BY <1>1, <4>1, <4>7 DEF Mirrors
    <3> QED  BY <1>1, <2>2, <3>1, <3>2 DEF AtPlug
  <2> QED  BY <2>4, <2>5, <2>3
<1> QED  BY <1>3, <1>4 DEF MirrorInv

(* Commands other than 's' leave the outputs alone.                        *)
LEMMA PollMirrors ==
  ASSUME IndInv, MirrorInv, PollPlug
  PROVE  MirrorInv'
<1> USE DEF bounds
<1>0. TypeOK /\ Control  BY DEF IndInv
<1>1. /\ cur \in Plugs /\ ~waiting
      /\ inbox[cur] = NoCommand
      /\ inbox' = [inbox EXCEPT ![cur] =
                     IF plug[cur] = NoDevice THEN NoCommand ELSE PollCommand(cur)]
      /\ UNCHANGED <<plug, out, reply, componentCount, devId, actuatorValue, moves, faults, restarts>>
    BY <1>0 DEF PollPlug, Send, TypeOK
<1>2. reply = Nothing  BY <1>0, <1>1 DEF Control
<1>3. OneBoard'  BY <1>1 DEF MirrorInv, OneBoard, Occupied
<1>4. ASSUME NothingDisturbed' PROVE Unused' /\ \A q \in Plugs : AtPlug(q)'
  <2>1. NothingDisturbed  BY <1>1, <1>4 DEF NothingDisturbed
  <2>2. Unused /\ \A q \in Plugs : AtPlug(q)  BY <2>1 DEF MirrorInv
  <2>3. Unused'  BY <1>1, <2>2 DEF Unused
  <2>4. ASSUME NEW q \in Plugs PROVE Levels(plug[q], inbox'[q], out[plug[q]])
                                       = Levels(plug[q], inbox[q], out[plug[q]])
    <3>1. CASE q # cur
      <4>1. inbox'[q] = inbox[q]  BY <1>0, <1>1, <3>1 DEF TypeOK
      <4> QED  BY <4>1
    <3>2. CASE q = cur
      <4>1. ~Accepts(plug[q], inbox[q])  BY <1>1, <3>2 DEF Accepts, NoCommand
      <4>2. inbox'[q] \in {NoCommand, PollCommand(cur)}  BY <1>0, <1>1, <3>2 DEF TypeOK
      <4>3. ~Accepts(plug[q], inbox'[q])  BY <4>2 DEF Accepts, NoCommand, PollCommand
      <4> QED  BY <4>1, <4>3 DEF Levels
    <3> QED  BY <3>1, <3>2
  <2>5. ASSUME NEW q \in Plugs PROVE AtPlug(q)'
    <3>1. Mirrors(q) => Mirrors(q)'  BY <1>1, <2>4 DEF Mirrors
    <3> QED  BY <1>1, <1>2, <2>2, <3>1 DEF AtPlug
  <2> QED  BY <2>3, <2>5
<1> QED  BY <1>3, <1>4 DEF MirrorInv

(* The 's' line carries the new value of every output of the board, and    *)
(* the board obeys it in full.                                             *)
LEMMA UpdateMirrors ==
  ASSUME IndInv, MirrorInv, UpdatePlug
  PROVE  MirrorInv'
<1> USE DEF bounds
<1>0. TypeOK /\ Control /\ PlugState  BY DEF IndInv
<1>1. /\ cur \in Plugs /\ ~waiting /\ IsUpdated(cur)
      /\ actuatorValue' = [actuatorValue EXCEPT ![cur] = Updated(cur)]
      /\ inbox[cur] = NoCommand
      /\ inbox' = [inbox EXCEPT ![cur] =
                     IF plug[cur] = NoDevice THEN NoCommand ELSE SetCommand(cur)]
      /\ UNCHANGED <<plug, out, reply, componentCount, devId, moves, faults, restarts>>
    BY <1>0 DEF UpdatePlug, Send, Control
<1>2. reply = Nothing  BY <1>0, <1>1 DEF Control
<1>3. OneBoard'  BY <1>1 DEF MirrorInv, OneBoard, Occupied
<1>4. componentCount[cur] > 0 /\ devId[cur] \in Devices
  <2>1. componentCount[cur] \in 0 .. MAX_COMPONENT_COUNT  BY <1>0, <1>1 DEF TypeOK
  <2>2. componentCount[cur] > 0  BY <1>1, <2>1 DEF IsUpdated
  <2> QED  BY <1>0, <1>1, <2>2 DEF PlugState
<1>5. ASSUME NothingDisturbed' PROVE Unused' /\ \A q \in Plugs : AtPlug(q)'
  <2>1. NothingDisturbed  BY <1>1, <1>5 DEF NothingDisturbed
  <2>2. Unused /\ \A q \in Plugs : AtPlug(q)  BY <2>1 DEF MirrorInv
  <2>3. Unused'  BY <1>1, <2>2 DEF Unused
  <2>4. ASSUME NEW q \in Plugs, q # cur PROVE AtPlug(q)'
    <3>1. inbox'[q] = inbox[q] /\ actuatorValue'[q] = actuatorValue[q]
        BY <1>0, <1>1, <2>4 DEF TypeOK
    <3>2. Mirrors(q) => Mirrors(q)'  BY <1>1, <3>1 DEF Mirrors
    <3> QED  BY <1>1, <1>2, <2>2, <3>1, <3>2 DEF AtPlug
  <2>5. devId[cur] = plug[cur] /\ plug[cur] \in Devices
      BY <1>1, <1>4, <2>2 DEF AtPlug
  <2>6. /\ inbox'[cur] = SetCommand(cur) /\ actuatorValue'[cur] = Updated(cur)
        /\ plug[cur] # NoDevice
      BY <1>0, <1>1, <2>5 DEF TypeOK
  <2>7. ASSUME NEW r \in 1 .. Len(Meta[plug[cur]].outs)
        PROVE  Levels(plug[cur], SetCommand(cur), out[plug[cur]])[Meta[plug[cur]].outs[r]]
                 = Updated(cur)[Meta[plug[cur]].outs[r]]
    <3> DEFINE outs == Meta[plug[cur]].outs
               k == outs[r]
               s == CHOOSE s \in 1 .. Len(outs) : outs[s] = k
    <3>1. k \in Slots /\ Len(outs) \in Nat  BY <2>5, MetaType
    <3>2. s \in 1 .. Len(outs) /\ outs[s] = k  OBVIOUS
    <3>3. /\ SetCommand(cur).cmd = "s"
          /\ SetCommand(cur).args = [i \in 1 .. Len(outs) |-> Updated(cur)[outs[i]]]
        BY <2>5 DEF SetCommand
    <3>4. Len(SetCommand(cur).args) = Len(outs)  BY <3>1, <3>3
    <3>5. Accepts(plug[cur], SetCommand(cur))  BY <3>1, <3>3, <3>4 DEF Accepts
    <3>6. SetCommand(cur).args[s] = Updated(cur)[k]  BY <3>2, <3>3
    <3> HIDE DEF k, outs
    <3>7. \E i \in 1 .. Len(outs) : outs[i] = k  BY DEF k, outs
    <3>8. Levels(plug[cur], SetCommand(cur), out[plug[cur]])[k] = SetCommand(cur).args[s]
        BY <3>1, <3>5, <3>7 DEF Levels, outs
    <3> QED  BY <3>6, <3>8 DEF k, outs
  <2>8. ASSUME NEW q \in Plugs, q = cur PROVE AtPlug(q)'
    <3>1. Mirrors(q)'  BY <1>1, <2>6, <2>7, <2>8 DEF Mirrors
    <3> QED  BY <1>1, <1>2, <2>5, <2>6, <2>8, <3>1 DEF AtPlug
  <2> QED  BY <2>3, <2>4, <2>8
<1> QED  BY <1>3, <1>5 DEF MirrorInv

(* An answer identifies the board that sent it, or keeps what is known.    *)
LEMMA ResponseMirrors ==
  ASSUME IndInv, NEW p \in Plugs, NEW msg \in Messages \cup {Garbled(NoDevice)},
         Response(p, msg)
  PROVE  /\ actuatorValue' = actuatorValue
         /\ \A q \in Plugs : q # p =>
              devId'[q] = devId[q] /\ componentCount'[q] = componentCount[q]
         /\ \/ msg.kind = "m" /\ devId'[p] = msg.from
            \/ devId'[p] = devId[p] /\ componentCount'[p] = componentCount[p]
<1>1. /\ componentCount \in [Plugs -> 0 .. MAX_COMPONENT_COUNT]
      /\ devId \in [Plugs -> Devices \cup {NoDevice}]
  <2>1. TypeOK  BY DEF IndInv
  <2> QED  BY <2>1, Zenon DEF TypeOK
<1>2. CountOnContact(p) = componentCount[p]
    BY <1>1 DEF IndInv, PlugState, CountOnContact
<1>3. CASE msg.kind = "nothing" /\ NoResponse(p)  BY <1>3 DEF NoResponse
<1>4. CASE msg.kind = "m" /\ Responded(p) /\ TakeMetadata(p, msg.from)
    BY <1>1, <1>4 DEF TakeMetadata
<1>5. CASE msg.kind = "v" /\ Responded(p) /\ TakeValues(p, msg.from)
    BY <1>1, <1>2, <1>5 DEF TakeValues
<1>6. CASE msg.kind \in {"s", "e", "garbled"} /\ Responded(p) /\ TakeNothing(p)
    BY <1>1, <1>2, <1>6 DEF TakeNothing
<1> QED  BY <1>3, <1>4, <1>5, <1>6 DEF Response

(* The end of an exchange: what is heard comes from the board in the plug. *)
LEMMA HearingMirrors ==
  ASSUME IndInv, MirrorInv, GetReply \/ TimeOut
  PROVE  MirrorInv'
<1> USE DEF boardVars
<1>0. TypeOK /\ Control /\ PlugState  BY DEF IndInv
<1>1. cur \in Plugs  BY <1>0 DEF GetReply, TimeOut, Control
<1>2. CASE GetReply
  <2>1. /\ UNCHANGED <<plug, out, inbox, moves, faults, restarts>>
        /\ reply # Nothing /\ reply' = Nothing
      BY <1>2 DEF GetReply, bounds
  <2>2. Read(cur, reply) \in Messages \cup {Garbled(NoDevice)} /\ Response(cur, Read(cur, reply))
      BY <1>0, <1>2 DEF GetReply, Read, TypeOK, Messages, Garbled, Nothing
  <2>3. Read(cur, reply).kind = "m" => Read(cur, reply) = reply  BY DEF Read, Garbled
  <2>4. ASSUME NothingDisturbed, NEW p \in Plugs, componentCount'[p] > 0
        PROVE  devId'[p] = plug[p]
      BY <1>1, <2>1, <2>2, <2>3, <2>4, ResponseMirrors DEF MirrorInv, AtPlug
  <2>5. actuatorValue' = actuatorValue  BY <1>1, <2>2, ResponseMirrors
  <2>6. faults' \in Nat /\ restarts' \in Nat /\ faults' >= faults /\ restarts' >= restarts
      BY <1>0, <2>1 DEF TypeOK
  <2> QED  BY <1>0, <2>1, <2>4, <2>5, <2>6, MirrorKept
<1>3. CASE TimeOut
  <2>1. /\ UNCHANGED <<plug, out, inbox, reply, moves, restarts>>
        /\ reply = Nothing /\ faults' \in {faults, faults + 1}
      BY <1>3 DEF TimeOut
  <2>2. Read(cur, Nothing) \in Messages \cup {Garbled(NoDevice)} /\ Response(cur, Read(cur, Nothing))
      BY <1>3 DEF TimeOut, Read, Messages, Garbled, Nothing
  <2>3. Read(cur, Nothing).kind # "m"  BY DEF Read, Garbled, Nothing
  <2>4. ASSUME NothingDisturbed, NEW p \in Plugs, componentCount'[p] > 0
        PROVE  devId'[p] = plug[p]
      BY <1>1, <2>2, <2>3, <2>4, ResponseMirrors DEF MirrorInv, AtPlug
  <2>5. actuatorValue' = actuatorValue  BY <1>1, <2>2, ResponseMirrors
  <2>6. faults' \in Nat /\ restarts' \in Nat /\ faults' >= faults /\ restarts' >= restarts
      BY <1>0, <2>1 DEF TypeOK
  <2> QED  BY <1>0, <2>1, <2>4, <2>5, <2>6, MirrorKept
<1> QED  BY <1>2, <1>3

LEMMA MirrorStep == IndInv /\ MirrorInv /\ [Next]_vars => MirrorInv'
<1> SUFFICES ASSUME IndInv, MirrorInv, [Next]_vars PROVE MirrorInv'
    OBVIOUS
<1> USE DEF vars, lineVars, loopVars, devVars, sentVars, histVars, boardVars, bounds
<1>0. TypeOK /\ Control  BY DEF IndInv
<1>1. faults \in Nat /\ restarts \in Nat  BY <1>0 DEF TypeOK
<1>2. ASSUME NEW p \in Plugs, NEW d \in Devices, Insert(p, d) PROVE MirrorInv'
    BY <1>2, InsertMirrors
<1>3. ASSUME NEW p \in Plugs, Remove(p) PROVE MirrorInv'
    BY <1>3, RemoveMirrors
<1>4. ASSUME NEW p \in Plugs, Serve(p) PROVE MirrorInv'
    BY <1>4, ServeMirrors
<1>5. ASSUME NEW p \in Plugs, LoseCommand(p) \/ GarbleReply PROVE MirrorInv'
  <2>1. faults' = faults + 1 /\ UNCHANGED <<plug, moves>>
      BY <1>5 DEF LoseCommand, GarbleReply
  <2>2. ~NothingDisturbed'  BY <1>1, <2>1 DEF NothingDisturbed
  <2> QED  BY <2>1, <2>2, MirrorLost
<1>6. CASE PollPlug  BY <1>6, PollMirrors
<1>7. CASE UpdatePlug  BY <1>7, UpdateMirrors
<1>8. CASE GetReply \/ TimeOut  BY <1>8, HearingMirrors
<1>9. CASE CheckDisconnects
  <2>1. /\ UNCHANGED <<plug, out, inbox, actuatorValue, moves, faults, restarts, reply, cur, devId>>
        /\ componentCount' = [p \in Plugs |-> IF p \in Unresponsive THEN 0 ELSE componentCount[p]]
      BY <1>9 DEF CheckDisconnects
  <2>2. \A p \in Plugs : componentCount'[p] > 0 => componentCount[p] > 0  BY <2>1
  <2> QED  BY <1>0, <1>1, <2>1, <2>2, MirrorKept DEF MirrorInv, AtPlug
<1>10. CASE Restart
  <2>1. restarts' = restarts + 1 /\ UNCHANGED <<plug, moves>>
      BY <1>10 DEF Restart
  <2>2. ~NothingDisturbed'  BY <1>1, <2>1 DEF NothingDisturbed
  <2> QED  BY <2>1, <2>2, MirrorLost
<1>11. CASE \/ ActuatorRequest \/ NoRequest \/ PollDue \/ PollNotDue \/ SkipPlug
            \/ SendSensorValues \/ SendNotDue \/ Server \/ UNCHANGED vars
  <2>1. /\ UNCHANGED <<plug, out, inbox, actuatorValue, moves, faults, restarts, reply, devId,
                       componentCount>>
        /\ UNCHANGED cur \/ ~waiting \/ pc = "queue" \/ cur = 0
      BY <1>11 DEF ActuatorRequest, NoRequest, PollDue, PollNotDue, SkipPlug, SendSensorValues,
                   SendNotDue, Server, RequestDevices, RequestServed
  <2>2. reply # Nothing => cur' = cur  BY <1>0, <2>1 DEF Control
  <2>3. NothingDisturbed =>
           \A p \in Plugs :
             /\ reply' # Nothing /\ cur' = p => reply'.from = plug[p]
             /\ componentCount'[p] > 0 => devId'[p] = plug[p]
      BY <2>1, <2>2 DEF MirrorInv, AtPlug
  <2>4. faults' >= faults /\ restarts' >= restarts  BY <1>1, <2>1
  <2> QED  BY <1>0, <1>1, <2>1, <2>3, <2>4, MirrorKept
<1> QED
    BY <1>2, <1>3, <1>4, <1>5, <1>6, <1>7, <1>8, <1>9, <1>10, <1>11 DEF Next, Boards, Hub

(* What an 's' line does not name keeps its level: while no board was      *)
(* unplugged, nothing was lost and the hub did not restart, actuatorValue  *)
(* is what the boards' outputs are.                                        *)
THEOREM ActuatorMirrorHolds == Spec => []ActuatorMirror
<1>1. IndInv /\ MirrorInv => ActuatorMirror
  <2> SUFFICES ASSUME IndInv, MirrorInv, NothingDisturbed, NEW p \in Plugs,
                      componentCount[p] > 0, inbox[p] = NoCommand,
                      NEW r \in 1 .. Len(Meta[devId[p]].outs)
               PROVE  actuatorValue[p][Meta[devId[p]].outs[r]]
                        = out[plug[p]][Meta[devId[p]].outs[r]]
      BY DEF ActuatorMirror
  <2>1. devId[p] \in Devices  BY DEF IndInv, PlugState
  <2>2. devId[p] = plug[p] /\ Mirrors(p)  BY <2>1 DEF MirrorInv, AtPlug
  <2>3. Meta[plug[p]].outs[r] \in Slots  BY <2>1, <2>2, MetaType
  <2>4. \A k \in Slots : Levels(plug[p], NoCommand, out[plug[p]])[k] = out[plug[p]][k]
      BY DEF Levels, Accepts, NoCommand
  <2>5. r \in 1 .. Len(Meta[plug[p]].outs)  BY <2>2
  <2>6. Levels(plug[p], inbox[p], out[plug[p]])[Meta[plug[p]].outs[r]]
          = actuatorValue[p][Meta[plug[p]].outs[r]]
      BY <2>2, <2>5 DEF Mirrors
  <2>7. Levels(plug[p], inbox[p], out[plug[p]])[Meta[plug[p]].outs[r]]
          = out[plug[p]][Meta[plug[p]].outs[r]]
      BY <2>3, <2>4
  <2> QED  BY <2>2, <2>6, <2>7
<1> QED  BY <1>1, MirrorInit, MirrorStep, Inductive, PTL DEF Spec
=============================================================================

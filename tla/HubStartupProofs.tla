--------------------------- MODULE HubStartupProofs ---------------------------
(***************************************************************************)
(* What setup() reaches before loop() runs, for any number of retries and  *)
(* any commands.  A connection exists only after the control points that   *)
(* make it; each point that follows knows the subscriptions made so far;   *)
(* and a mode that outlives a software restart is one that was asked for.  *)
(***************************************************************************)
EXTENDS HubStartup, TLAPS

\* What each control point of setup() and loop() says of the connection.
Stages ==
  /\ pc \in {"boot", "wifi", "settle", "time", "connect"} =>
       link = "none" /\ handlers = {}
  /\ pc = "command topic" => link # "none"
  /\ pc = "actuators topic" => link # "none" /\ "command topic" \in handlers
  /\ handlers \in SUBSET BothTopics
  /\ renewed = TRUE => subscribed = handlers
  /\ pc \in LoopPoints /\ link # "none" => handlers = BothTopics /\ pubsubEnabled = TRUE

\* BLE is up only in a loop() that setup() entered without connecting.
BleStages == ble /\ started # TRUE => pc \in LoopPoints \union {"restarting"} /\ link = "none"

\* A mode that the next boot may trust was asked for.
ModeWasAsked == (pc # "boot" \/ reason = "sw") /\ bleMode => asked

LEMMA Limits == MAX_WIFI_RETRIES \in Nat /\ CONNECT_RETRIES \in Nat
  BY StartupAssumption DEF StartupAssumption

(* Each step keeps the types of the flags.                                 *)
LEMMA FlagsStep ==
  ASSUME Flags, Next
  PROVE  Flags'
<1> USE DEF Flags, mode, radio, mqtt, world
<1>1. CASE Boot
  BY <1>1 DEF Boot, AfterBle, ModeAtBoot
<1>2. CASE Settle \/ UpdateTime
  BY <1>2 DEF Settle, UpdateTime, GoOn, Freeze
<1>3. CASE Associated \/ NotAssociated \/ Connected \/ NotConnected
  <2>1. CASE Associated
    BY <2>1 DEF Associated, GoOn
  <2>2. CASE NotAssociated
    <3>1. UNCHANGED <<mode, ble, mqtt, late, world>>
      BY <2>2 DEF NotAssociated
    <3>2. UNCHANGED retryDue
      BY <2>2 DEF NotAssociated
    <3>3. QED  BY <3>1, <3>2
  <2>3. CASE Connected
    BY <2>3 DEF Connected, GoOn
  <2>4. CASE NotConnected
    <3>1. UNCHANGED <<mode, ble, radio, mqtt, late, world>>
      BY <2>4 DEF NotConnected
    <3>2. QED  BY <3>1
  <2>5. QED  BY <1>3, <2>1, <2>2, <2>3, <2>4
<1>4. CASE SubscribeCommand \/ SubscribeActuators
  <2>1. UNCHANGED <<mode, ble, radio, renewed, late, world>>
    BY <1>4 DEF SubscribeCommand, SubscribeActuators, Subscribe
  <2>2. pubsubEnabled' = TRUE \/ pubsubEnabled' = pubsubEnabled
    BY <1>4 DEF SubscribeCommand, SubscribeActuators, Subscribe, Freeze
  <2>3. QED  BY <2>1, <2>2
<1>5. CASE Loop
  <2>1. CASE CheckNetwork
    <3>1. UNCHANGED <<mode, ble, mqtt, late, world>>
      BY <2>1 DEF CheckNetwork
    <3>2. retryDue' = FALSE \/ retryDue' = retryDue
      BY <2>1 DEF CheckNetwork
    <3>3. QED  BY <3>1, <3>2
  <2>2. CASE ConsoleDone \/ CheckReboot
    BY <2>2 DEF ConsoleDone, CheckReboot
  <2>3. CASE CheckButton
    BY <2>3 DEF CheckButton
  <2>4. CASE Restart
    BY <2>4 DEF Restart, StartOver
  <2>5. QED  BY <1>5, <2>1, <2>2, <2>3, <2>4 DEF Loop
<1>6. CASE Clock
  <2>1. CASE RetryDue
    BY <2>1 DEF RetryDue
  <2>2. CASE Late
    BY <2>2 DEF Late
  <2>3. QED  BY <1>6, <2>1, <2>2 DEF Clock
<1>7. CASE ServerCommand \/ BleCommand \/ ConsoleCommand
  <2>1. UNCHANGED <<mqtt, late, world>>
    BY <1>7 DEF ServerCommand, BleCommand, ConsoleCommand
  <2>2. CASE BleCommand
    BY <2>1, <2>2 DEF BleCommand, ChangeMode
  <2>3. CASE ServerCommand \/ ConsoleCommand
    <3>1. PICK command : RunCommand(command)
      BY <2>3 DEF ServerCommand, ConsoleCommand
    <3>2. CASE UNCHANGED <<reason, bleMode, swReboot, radio>> /\ ble' = TRUE /\ asked' = TRUE
               /\ started' = (started \/ ~ble)
      BY <2>1, <3>2
    <3>3. CASE UNCHANGED <<mode, ble, retryDue>>
      BY <2>1, <3>3
    <3>4. CASE ChangeMode(command) /\ UNCHANGED <<ble, radio>>
      BY <2>1, <3>4 DEF ChangeMode
    <3>5. QED  BY <3>1, <3>2, <3>3, <3>4 DEF RunCommand
  <2>4. QED  BY <1>7, <2>2, <2>3
<1>8. CASE Reset
  BY <1>8 DEF Reset, StartOver
<1>9. CASE Button \/ NetworkChange \/ WifiUp \/ LinkLost \/ LinkRestored
  <2>1. CASE Button \/ NetworkChange \/ WifiUp \/ LinkLost
    <3>1. UNCHANGED <<bleMode, swReboot, asked, started, ble, retryDue, pubsubEnabled, late,
                      renewed>>
      BY <2>1 DEF Button, NetworkChange, WifiUp, LinkLost
    <3>2. network' \in BOOLEAN /\ button' \in BOOLEAN
      BY <2>1 DEF Button, NetworkChange, WifiUp, LinkLost
    <3>3. QED  BY <3>1, <3>2
  <2>2. CASE LinkRestored
    <3>1. renewed' = TRUE \/ renewed' = FALSE
      BY <2>2 DEF LinkRestored
    <3>2. UNCHANGED <<mode, ble, radio, pubsubEnabled, late, world>>
      BY <2>2 DEF LinkRestored
    <3>3. QED  BY <3>1, <3>2
  <2>3. QED  BY <1>9, <2>1, <2>2
<1>10. QED
  BY <1>1, <1>2, <1>3, <1>4, <1>5, <1>6, <1>7, <1>8, <1>9
  DEF Next, Setup, Loop, Clock, Environment

\* freezeWithError takes the hub to a frozen state that blinks its code.
LEMMA FreezeStep ==
  ASSUME NEW c \in 1 .. 4, Freeze(c)
  PROVE  Places'
  BY DEF Places, Freeze

\* A step between the points of setup() and loop() sets no code.
LEMMA PointStep ==
  ASSUME Places, pc # "frozen", code' = code,
         NEW p \in SetupPoints \union LoopPoints \union {"restarting"}, pc' = p
  PROVE  Places'
<1>1. p # "frozen"
  BY DEF SetupPoints, LoopPoints
<1>2. code = 0
  BY DEF Places
<1>3. QED  BY <1>1, <1>2 DEF Places

(* Only Freeze sets a code, and a frozen hub leaves only by a reset.       *)
LEMMA PlacesStep ==
  ASSUME Places, Next
  PROVE  Places'
<1>1. CASE Boot
  BY <1>1, PointStep DEF Boot, AfterBle, SetupPoints, LoopPoints
<1>2. CASE Associated \/ Settle \/ Connected
  BY <1>2, PointStep DEF Associated, Settle, Connected, GoOn, SetupPoints
<1>3. CASE NotAssociated
  BY <1>3 DEF NotAssociated, Freeze, Places
<1>4. CASE UpdateTime
  <2>1. CASE Freeze(2)
    BY <2>1, FreezeStep
  <2>2. CASE GoOn("connect")
    BY <1>4, <2>2, PointStep DEF UpdateTime, GoOn, SetupPoints
  <2>3. QED  BY <1>4, <2>1, <2>2 DEF UpdateTime
<1>5. CASE NotConnected
  BY <1>5 DEF NotConnected, Freeze, Places
<1>6. Freeze(4) => Places'
  BY FreezeStep
<1>7. ASSUME NEW topic \in {"command topic", "actuators topic"},
             NEW next \in SetupPoints \union LoopPoints, Subscribe(topic, next)
      PROVE  Places'
  <2>1. CASE Freeze(4)
    BY <2>1, <1>6
  <2>2. CASE GoOn(next)
    BY <1>7, <2>2, PointStep DEF Subscribe, GoOn
  <2>3. QED  BY <1>7, <2>1, <2>2 DEF Subscribe
<1>8. CASE SubscribeCommand \/ SubscribeActuators
  BY <1>7, <1>8 DEF SubscribeCommand, SubscribeActuators, SetupPoints, LoopPoints
<1>9. CASE CheckNetwork \/ ConsoleDone \/ CheckReboot \/ CheckButton
  BY <1>9, PointStep
  DEF CheckNetwork, ConsoleDone, CheckReboot, CheckButton, LoopPoints
<1>10. CASE Restart \/ Reset
  BY <1>10, Zenon DEF Restart, Reset, StartOver, Places, SetupPoints
<1>11. CASE Clock
  BY <1>11 DEF Clock, RetryDue, Late, Places
<1>12. CASE Environment /\ ~Reset
  BY <1>12 DEF Environment, ServerCommand, BleCommand, ConsoleCommand, Button,
               NetworkChange, WifiUp, LinkLost, LinkRestored, Places
<1>13. QED
  BY <1>1, <1>2, <1>3, <1>4, <1>5, <1>8, <1>9, <1>10, <1>11, <1>12
  DEF Next, Setup, Loop

(* Retries stop at the limits of the two connections.                      *)
LEMMA RetriesStep ==
  ASSUME Retries, Next
  PROVE  Retries'
<1> USE Limits DEF Retries
<1>1. CASE Boot \/ Settle \/ UpdateTime
  BY <1>1 DEF Boot, AfterBle, ModeAtBoot, Settle, UpdateTime, GoOn, Freeze
<1>2. CASE Associated \/ NotAssociated
  BY <1>2 DEF Associated, NotAssociated, GoOn, Freeze
<1>3. CASE Connected \/ NotConnected
  <2>1. CASE Connected
    <3>1. tries' = 0
      BY <2>1 DEF Connected, GoOn
    <3>2. QED  BY <3>1
  <2>2. CASE NotConnected
    BY <2>2 DEF NotConnected, Freeze
  <2>3. QED  BY <1>3, <2>1, <2>2
<1>4. CASE SubscribeCommand \/ SubscribeActuators
  <2>1. tries' = 0 \/ tries' = tries
    BY <1>4 DEF SubscribeCommand, SubscribeActuators, Subscribe, GoOn
  <2>2. QED  BY <2>1
<1>5. CASE Loop
  BY <1>5 DEF Loop, CheckNetwork, Blink, ConsoleDone, CheckReboot, CheckButton,
              Restart, StartOver
<1>6. CASE Clock
  BY <1>6 DEF Clock, RetryDue, Late
<1>7. CASE ServerCommand \/ BleCommand \/ ConsoleCommand
  BY <1>7 DEF ServerCommand, BleCommand, ConsoleCommand, RunCommand, ChangeMode
<1>8. CASE Reset
  BY <1>8 DEF Reset, StartOver
<1>9. CASE Button \/ NetworkChange \/ WifiUp \/ LinkLost \/ LinkRestored
  BY <1>9 DEF Button, NetworkChange, WifiUp, LinkLost, LinkRestored
<1>10. QED
  BY <1>1, <1>2, <1>3, <1>4, <1>5, <1>6, <1>7, <1>8, <1>9
  DEF Next, Setup, Loop, Clock, Environment

(* Each step keeps the types of the connections and of the LED.            *)
LEMMA ConnectionsStep ==
  ASSUME Connections, Next
  PROVE  Connections'
<1> USE DEF Connections, mode, radio, mqtt
<1>1. CASE Boot \/ Settle \/ UpdateTime
  BY <1>1 DEF Boot, AfterBle, ModeAtBoot, Settle, UpdateTime, GoOn, Freeze
<1>2. CASE Associated \/ NotAssociated
  BY <1>2 DEF Associated, NotAssociated, GoOn, Freeze
<1>3. CASE Connected \/ NotConnected
  BY <1>3 DEF Connected, NotConnected, GoOn, Freeze
<1>4. CASE SubscribeCommand \/ SubscribeActuators
  BY <1>4 DEF SubscribeCommand, SubscribeActuators, Subscribe,
              GoOn, Freeze
<1>5. CASE Loop
  BY <1>5 DEF Loop, CheckNetwork, Blink, ConsoleDone, CheckReboot, CheckButton,
              Restart, StartOver
<1>6. CASE Clock
  BY <1>6 DEF Clock, RetryDue, Late
<1>7. CASE ServerCommand \/ BleCommand \/ ConsoleCommand
  BY <1>7 DEF ServerCommand, BleCommand, ConsoleCommand, RunCommand, ChangeMode
<1>8. CASE Reset
  BY <1>8 DEF Reset, StartOver
<1>9. CASE Button \/ NetworkChange \/ WifiUp \/ LinkLost \/ LinkRestored
  BY <1>9 DEF Button, NetworkChange, WifiUp, LinkLost, LinkRestored
<1>10. QED
  BY <1>1, <1>2, <1>3, <1>4, <1>5, <1>6, <1>7, <1>8, <1>9
  DEF Next, Setup, Loop, Clock, Environment

(* Only the two topics are ever subscribed to.                             *)
LEMMA TopicsStep ==
  ASSUME Topics, Next
  PROVE  Topics'
<1> USE DEF Topics, BothTopics, mqtt
<1>1. CASE Boot \/ Settle \/ UpdateTime
  BY <1>1 DEF Boot, AfterBle, ModeAtBoot, Settle, UpdateTime, GoOn, Freeze
<1>2. CASE Associated \/ NotAssociated
  BY <1>2 DEF Associated, NotAssociated, GoOn, Freeze
<1>3. CASE Connected \/ NotConnected
  BY <1>3 DEF Connected, NotConnected, GoOn, Freeze
<1>4. CASE SubscribeCommand \/ SubscribeActuators
  BY <1>4 DEF SubscribeCommand, SubscribeActuators, Subscribe,
              GoOn, Freeze
<1>5. CASE Loop
  BY <1>5 DEF Loop, CheckNetwork, Blink, ConsoleDone, CheckReboot, CheckButton,
              Restart, StartOver
<1>6. CASE Clock
  BY <1>6 DEF Clock, RetryDue, Late
<1>7. CASE ServerCommand \/ BleCommand \/ ConsoleCommand
  BY <1>7 DEF ServerCommand, BleCommand, ConsoleCommand, RunCommand, ChangeMode
<1>8. CASE Reset
  BY <1>8 DEF Reset, StartOver
<1>9. CASE Button \/ NetworkChange \/ WifiUp \/ LinkLost \/ LinkRestored
  BY <1>9 DEF Button, NetworkChange, WifiUp, LinkLost, LinkRestored
<1>10. QED
  BY <1>1, <1>2, <1>3, <1>4, <1>5, <1>6, <1>7, <1>8, <1>9
  DEF Next, Setup, Loop, Clock, Environment

(* Type correctness, for any limits on retries; only a frozen hub blinks   *)
(* an error code.                                                          *)
THEOREM TypeCorrect == Spec => []TypeOK
<1>1. Init => TypeOK
  <2>1. Init => Flags /\ Topics
    BY DEF Init, Flags, Topics, BothTopics
  <2>2. Init => Places /\ Retries /\ Connections
    BY Limits DEF Init, Places, Retries, Connections, SetupPoints
  <2>3. QED  BY <2>1, <2>2 DEF TypeOK
<1>2. TypeOK /\ [Next]_vars => TypeOK'
  <2>1. CASE Next
    BY <2>1, FlagsStep, PlacesStep, RetriesStep, ConnectionsStep, TopicsStep
    DEF TypeOK
  <2>2. CASE UNCHANGED vars
    <3>1. Flags /\ Topics => Flags' /\ Topics'
      BY <2>2 DEF vars, mode, radio, mqtt, world, Flags, Topics
    <3>2. Places /\ Retries => Places' /\ Retries'
      BY <2>2 DEF vars, Places, Retries
    <3>3. Connections => Connections'
      BY <2>2 DEF vars, mode, radio, mqtt, Connections
    <3>4. QED  BY <3>1, <3>2, <3>3 DEF TypeOK
  <2>3. QED  BY <2>1, <2>2
<1>3. QED  BY <1>1, <1>2, PTL DEF Spec

-----------------------------------------------------------------------------
(* Each step keeps what the control points say of the connection.          *)
LEMMA StagesStep ==
  ASSUME Stages, [Next]_vars
  PROVE  Stages'
<1> USE DEF Stages, LoopPoints, BothTopics
<1>1. CASE Setup
  <2>1. CASE Boot
    BY <2>1 DEF Boot, AfterBle, mqtt
  <2>2. CASE Associated \/ NotAssociated \/ Settle \/ UpdateTime \/ NotConnected
    BY <2>2 DEF Associated, NotAssociated, Settle, UpdateTime, NotConnected,
                GoOn, Freeze, mqtt
  <2>3. CASE Connected
    BY <2>3 DEF Connected, GoOn
  <2>4. CASE SubscribeCommand
    BY <2>4 DEF SubscribeCommand, Subscribe, GoOn, Freeze
  <2>5. CASE SubscribeActuators
    BY <2>5 DEF SubscribeActuators, Subscribe, GoOn, Freeze
  <2>6. QED  BY <1>1, <2>1, <2>2, <2>3, <2>4, <2>5 DEF Setup
<1>2. CASE Loop
  BY <1>2 DEF Loop, CheckNetwork, ConsoleDone, CheckReboot, CheckButton,
              Restart, StartOver, mqtt
<1>3. CASE Clock
  BY <1>3 DEF Clock, RetryDue, Late, mqtt
<1>4. CASE Environment
  <2>1. CASE ServerCommand \/ BleCommand \/ ConsoleCommand
    BY <2>1 DEF ServerCommand, BleCommand, ConsoleCommand, mqtt
  <2>2. CASE Button \/ NetworkChange \/ WifiUp
    BY <2>2 DEF Button, NetworkChange, WifiUp, mqtt
  <2>3. CASE Reset
    BY <2>3 DEF Reset, StartOver
  <2>4. CASE LinkLost \/ LinkRestored
    BY <2>4 DEF LinkLost, LinkRestored
  <2>5. QED  BY <1>4, <2>1, <2>2, <2>3, <2>4 DEF Environment
<1>5. CASE UNCHANGED vars
  BY <1>5 DEF vars, mqtt
<1>6. QED  BY <1>1, <1>2, <1>3, <1>4, <1>5 DEF Next

(* A hub that runs loop() with a connection has both of its handlers, and  *)
(* hears both topics unless a renewal failed.                              *)
THEOREM RunsSubscribedHolds == Spec => []RunsSubscribed
<1>1. Init => Stages
  BY DEF Init, Stages, LoopPoints
<1>2. Stages => RunsSubscribed
  BY DEF Stages, RunsSubscribed
<1>3. QED  BY <1>1, <1>2, StagesStep, PTL DEF Spec

-----------------------------------------------------------------------------
(* Until start_ble brings BLE up every step keeps it and the MQTT          *)
(* connection apart.                                                       *)
LEMMA BleStagesStep ==
  ASSUME Stages, BleStages, [Next]_vars
  PROVE  BleStages'
<1> USE DEF BleStages, LoopPoints, mode
<1>1. CASE Setup
  <2>1. CASE Boot
    <3>1. link' = "none"
      BY <2>1 DEF Boot, Stages, mqtt
    <3>2. ble' => pc' = "network"
      BY <2>1 DEF Boot, AfterBle
    <3>3. QED  BY <3>1, <3>2
  <2>2. CASE Associated \/ NotAssociated \/ Settle \/ UpdateTime
    BY <2>2 DEF Associated, NotAssociated, Settle, UpdateTime
  <2>3. CASE Connected \/ NotConnected \/ SubscribeCommand \/ SubscribeActuators
    BY <2>3 DEF Connected, NotConnected, SubscribeCommand, SubscribeActuators,
                Subscribe
  <2>4. QED  BY <1>1, <2>1, <2>2, <2>3 DEF Setup
<1>2. CASE Loop
  BY <1>2 DEF Loop, CheckNetwork, ConsoleDone, CheckReboot, CheckButton,
              Restart, StartOver, mqtt
<1>3. CASE Clock
  BY <1>3 DEF Clock, RetryDue, Late, mqtt
<1>4. CASE Environment
  <2>1. CASE BleCommand
    BY <2>1 DEF BleCommand, ChangeMode, mqtt
  <2>2. CASE ServerCommand \/ ConsoleCommand
    <3>1. UNCHANGED <<pc, link>>
      BY <2>2 DEF ServerCommand, ConsoleCommand, mqtt
    <3>2. ble' /\ started' # TRUE => ble /\ started # TRUE
      BY <2>2 DEF ServerCommand, ConsoleCommand, RunCommand, ChangeMode
    <3>3. QED  BY <3>1, <3>2
  <2>3. CASE Button \/ NetworkChange \/ WifiUp
    BY <2>3 DEF Button, NetworkChange, WifiUp, mqtt
  <2>4. CASE Reset
    BY <2>4 DEF Reset, StartOver
  <2>5. CASE LinkLost \/ LinkRestored
    BY <2>5 DEF LinkLost, LinkRestored
  <2>6. QED  BY <1>4, <2>1, <2>2, <2>3, <2>4, <2>5 DEF Environment
<1>5. CASE UNCHANGED vars
  BY <1>5 DEF vars, mqtt
<1>6. QED  BY <1>1, <1>2, <1>3, <1>4, <1>5 DEF Next

(* A hub that advertises over BLE has no MQTT connection, unless start_ble *)
(* brought BLE up since it started.                                        *)
THEOREM BleAloneHolds == Spec => []BleAlone
<1>1. Init => Stages /\ BleStages
  BY DEF Init, Stages, BleStages, LoopPoints
<1>2. BleStages => BleAlone
  BY DEF BleStages, BleAlone
<1>3. Init /\ [][Next]_vars => []BleStages
  BY <1>1, StagesStep, BleStagesStep, PTL
<1>4. QED  BY <1>2, <1>3, PTL DEF Spec

-----------------------------------------------------------------------------
(* A mode kept over a restart was asked for, and so is the BLE it starts.  *)
LEMMA ModeStep ==
  ASSUME ModeWasAsked, [Next]_vars
  PROVE  ModeWasAsked' /\ (~ble /\ ble' => asked')
<1> USE DEF ModeWasAsked
<1>1. CASE Setup
  <2>1. CASE Boot
    BY <2>1 DEF Boot, ModeAtBoot
  <2>2. CASE Associated \/ NotAssociated \/ Settle \/ UpdateTime
    BY <2>2 DEF Associated, NotAssociated, Settle, UpdateTime, mode
  <2>3. CASE Connected \/ NotConnected \/ SubscribeCommand \/ SubscribeActuators
    <3>1. pc # "boot" /\ UNCHANGED <<mode, ble>>
      BY <2>3 DEF Connected, NotConnected, SubscribeCommand, SubscribeActuators,
                  Subscribe
    <3>2. QED  BY <3>1 DEF mode
  <2>4. QED  BY <1>1, <2>1, <2>2, <2>3 DEF Setup
<1>2. CASE Loop
  <2>1. CASE CheckNetwork \/ ConsoleDone \/ CheckReboot
    BY <2>1 DEF CheckNetwork, ConsoleDone, CheckReboot, mode
  <2>2. CASE CheckButton
    BY <2>2 DEF CheckButton
  <2>3. CASE Restart
    BY <2>3 DEF Restart, StartOver
  <2>4. QED  BY <1>2, <2>1, <2>2, <2>3 DEF Loop
<1>3. CASE Clock
  BY <1>3 DEF Clock, RetryDue, Late, mode
<1>4. CASE Environment
  <2>1. CASE BleCommand
    <3>1. asked' = bleMode' /\ ble' = ble
      BY <2>1 DEF BleCommand, ChangeMode
    <3>2. QED  BY <3>1
  <2>2. CASE ServerCommand \/ ConsoleCommand
    <3>1. pc' = pc /\ \E command : RunCommand(command)
      BY <2>2 DEF ServerCommand, ConsoleCommand
    <3>2. /\ reason' = reason
          /\ \/ asked' = TRUE
             \/ asked' = asked /\ bleMode' = bleMode /\ ble' = ble
             \/ asked' = bleMode' /\ ble' = ble
      BY <3>1, Zenon DEF RunCommand, ChangeMode, mode
    <3>3. CASE asked' = TRUE
      BY <3>3
    <3>4. CASE asked' = asked /\ bleMode' = bleMode /\ ble' = ble
      BY <3>1, <3>2, <3>4
    <3>5. CASE asked' = bleMode' /\ ble' = ble
      BY <3>5
    <3>6. QED  BY <3>2, <3>3, <3>4, <3>5
  <2>3. CASE Reset
    BY <2>3 DEF Reset, StartOver
  <2>4. CASE Button \/ NetworkChange \/ WifiUp \/ LinkLost \/ LinkRestored
    <3>1. UNCHANGED <<pc, mode, ble>>
      BY <2>4 DEF Button, NetworkChange, WifiUp, LinkLost, LinkRestored
    <3>2. QED  BY <3>1 DEF mode
  <2>5. QED  BY <1>4, <2>1, <2>2, <2>3, <2>4 DEF Environment
<1>5. CASE UNCHANGED vars
  BY <1>5 DEF vars, mode
<1>6. QED  BY <1>1, <1>2, <1>3, <1>4, <1>5 DEF Next

(* BLE never comes up from what the RTC memory happened to hold.           *)
THEOREM BleOnlyAskedHolds == Spec => BleOnlyAsked
<1>1. Init => ModeWasAsked
  BY DEF Init, ModeWasAsked
<1>2. ModeWasAsked /\ [Next]_vars => [~ble /\ ble' => asked']_vars
  BY ModeStep
<1>3. ModeWasAsked /\ [Next]_vars => ModeWasAsked'
  BY ModeStep
<1>4. QED  BY <1>1, <1>2, <1>3, PTL DEF Spec, BleOnlyAsked
=============================================================================

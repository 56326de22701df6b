------------------------------ MODULE HubStartup ------------------------------
(***************************************************************************)
(* Modes and connections of the hub (AWS builds): setup() with the button, *)
(* BLE mode, WiFi, network time, the MQTT connection and its two           *)
(* subscriptions, each of which may freeze the hub; then loop() with       *)
(* checkNetwork(), commands, restarts and the button.  aws_iot_task and    *)
(* the BLE callbacks run beside it.                                        *)
(***************************************************************************)
EXTENDS Naturals

CONSTANTS EnableBle,          \* ENABLE_BLE of the build
          WifiEnabled,        \* config.wifiEnabled
          MAX_WIFI_RETRIES,
          CONNECT_RETRIES,    \* connectParams.connectRetries
          ConsoleCommands     \* commands typed at the console

Commands == {"start_ble", "bleStart", "bleExit", "wifi_begin"}

ASSUME StartupAssumption ==
  /\ EnableBle \in BOOLEAN /\ WifiEnabled \in BOOLEAN
  /\ MAX_WIFI_RETRIES \in Nat /\ CONNECT_RETRIES \in Nat
  /\ ConsoleCommands \subseteq Commands

VARIABLES
  pc,         \* where setup() or loop() is
  reason,     \* esp_reset_reason(): "sw" or "other"
  bleMode,    \* bleMode # 0; kept over a software restart
  swReboot,   \* swReboot # 0
  tries,      \* retries of the connection being made
  code,       \* what freezeWithError blinks, 0: nothing
  ble,        \* BLE advertises and its callbacks run
  wifi,       \* "off", "connecting", "up" or "lost"
  retryDue,   \* 15 s have passed since lastWifiConnectionAttempt
  link,       \* MQTT session: "none", "up" or "lost"
  handlers,   \* topics the AWS client has a handler for
  subscribed, \* topics the broker sends
  renewed,    \* history: no renewal failed when link was last restored
  pubsubEnabled,
  led,        \* the blue LED: "dark", "lit" (70) or "bright" (200)
  late,       \* millis() >> 5 is not 0
  network,    \* the access point is there
  button,     \* the button is pressed
  asked,      \* history: BLE mode was the last mode asked for since a reset
  started     \* history: start_ble has brought BLE up since the last start

radio == <<wifi, retryDue>>
mqtt == <<link, handlers, subscribed, renewed, pubsubEnabled>>
mode == <<reason, bleMode, swReboot, asked, started>>
world == <<network, button>>
vars == <<pc, mode, tries, code, ble, radio, mqtt, led, late, world>>

SetupPoints == {"boot", "wifi", "settle", "time", "connect", "command topic", "actuators topic"}
LoopPoints == {"network", "console", "reboot", "button"}

Init ==
  /\ pc = "boot" /\ swReboot = FALSE /\ tries = 0 /\ code = 0 /\ ble = FALSE
  /\ wifi = "off" /\ retryDue = FALSE
  /\ link = "none" /\ handlers = {} /\ subscribed = {} /\ renewed = TRUE
  /\ pubsubEnabled = FALSE
  /\ led = "dark" /\ late = FALSE
  /\ reason = "other" /\ bleMode \in BOOLEAN /\ asked = FALSE /\ started = FALSE
  /\ network \in BOOLEAN /\ button = FALSE

-----------------------------------------------------------------------------
(* setup() *)

(* Mutant: setup() goes on after startBLE().                               *)
AfterBleOn == IF WifiEnabled THEN "wifi" ELSE "network"

\* What setup() goes on to once BLE is up: it returns.
AfterBle == "network"

(* Mutant: bleMode is set to 0 after every reset.                          *)
ModeAtBootCleared == EnableBle /\ button

(* Mutant: bleMode is trusted after any reset.                             *)
ModeAtBootKept == bleMode \/ (EnableBle /\ button)

\* bleMode is set to 0 unless esp_restart() led here; the button sets it.
ModeAtBoot == (reason = "sw" /\ bleMode) \/ (EnableBle /\ button)

Boot ==
  /\ pc = "boot"
  /\ bleMode' = ModeAtBoot
  /\ ble' = (EnableBle /\ bleMode')
  /\ asked' = (asked \/ (EnableBle /\ button))
  /\ pc' = IF ble' THEN AfterBle ELSE IF WifiEnabled THEN "wifi" ELSE "network"
  /\ UNCHANGED <<reason, started, swReboot, tries, code, radio, mqtt, led, late, world>>

\* freezeWithError never returns; its LEDs stand for themselves.
Freeze(c) ==
  /\ pc' = "frozen" /\ code' = c

GoOn(next) ==
  /\ pc' = next /\ tries' = 0 /\ UNCHANGED code

Associated ==
  /\ pc = "wifi" /\ network
  /\ wifi' = "up" /\ GoOn("settle")
  /\ UNCHANGED <<mode, ble, retryDue, mqtt, led, late, world>>

NotAssociated ==
  /\ pc = "wifi"
  /\ wifi' = "connecting"
  /\ IF tries >= MAX_WIFI_RETRIES
       THEN Freeze(1) /\ UNCHANGED tries
       ELSE tries' = tries + 1 /\ UNCHANGED <<pc, code>>
  /\ UNCHANGED <<mode, ble, retryDue, mqtt, led, late, world>>

\* while (WiFi.status() != WL_CONNECTED) delay(100)
Settle ==
  /\ pc = "settle" /\ wifi = "up"
  /\ GoOn("time")
  /\ UNCHANGED <<mode, ble, radio, mqtt, led, late, world>>

UpdateTime ==
  /\ pc = "time"
  /\ \/ wifi = "up" /\ GoOn("connect")
     \/ Freeze(2) /\ UNCHANGED tries
  /\ UNCHANGED <<mode, ble, radio, mqtt, led, late, world>>

Connected ==
  /\ pc = "connect" /\ wifi = "up"
  /\ link' = "up" /\ GoOn("command topic")
  /\ UNCHANGED <<mode, ble, radio, handlers, subscribed, renewed, pubsubEnabled, led, late, world>>

NotConnected ==
  /\ pc = "connect"
  /\ IF tries > CONNECT_RETRIES
       THEN Freeze(3) /\ UNCHANGED tries
       ELSE tries' = tries + 1 /\ UNCHANGED <<pc, code>>
  /\ UNCHANGED <<mode, ble, radio, mqtt, led, late, world>>

Subscribe(topic, next) ==
  /\ pc = topic
  /\ \/ /\ link = "up"
        /\ handlers' = handlers \union {topic}
        /\ subscribed' = subscribed \union {topic}
        /\ GoOn(next)
     \/ Freeze(4) /\ UNCHANGED <<handlers, subscribed, tries>>
  /\ UNCHANGED <<mode, ble, radio, link, renewed, late, world>>

SubscribeCommand ==
  /\ Subscribe("command topic", "actuators topic")
  /\ UNCHANGED <<pubsubEnabled, led>>

\* The last step of setup(), with sendStatus().
SubscribeActuators ==
  /\ Subscribe("actuators topic", "network")
  /\ IF pc' = "network"
       THEN pubsubEnabled' = TRUE /\ led' = "lit"
       ELSE UNCHANGED <<pubsubEnabled, led>>

Setup ==
  \/ Boot \/ Associated \/ NotAssociated \/ Settle \/ UpdateTime
  \/ Connected \/ NotConnected \/ SubscribeCommand \/ SubscribeActuators

-----------------------------------------------------------------------------
(* loop() *)

Blink == IF late THEN "bright" ELSE "dark"

(* Mutant: only a connection that was up is made again.                    *)
CheckNetworkOnce ==
  /\ pc = "network" /\ pc' = "console"
  /\ led' = IF wifi = "up" THEN "lit" ELSE Blink
  /\ IF wifi = "connecting" /\ retryDue
       THEN wifi' = "connecting" /\ retryDue' = FALSE
       ELSE UNCHANGED radio
  /\ UNCHANGED <<mode, tries, code, ble, mqtt, late, world>>

\* (time >> 5) && 1 is 1 from 32 msec on; a retry every 15 s.
CheckNetwork ==
  /\ pc = "network" /\ pc' = "console"
  /\ led' = IF wifi = "up" THEN "lit" ELSE Blink
  /\ IF wifi # "up" /\ retryDue
       THEN wifi' = "connecting" /\ retryDue' = FALSE
       ELSE UNCHANGED radio
  /\ UNCHANGED <<mode, tries, code, ble, mqtt, late, world>>

\* "bleStart" and "bleExit" of runCommand and CmdCallbacks.
ChangeMode(command) ==
  /\ bleMode' = (command = "bleStart")
  /\ swReboot' = TRUE
  /\ asked' = (command = "bleStart")
  /\ UNCHANGED <<reason, started>>

\* The commands of runCommand that change a mode or a connection.
RunCommand(command) ==
  \/ /\ command = "start_ble" /\ EnableBle
     /\ ble' = TRUE /\ asked' = TRUE /\ started' = (started \/ ~ble)
     /\ UNCHANGED <<reason, bleMode, swReboot, radio>>
  \/ /\ command = "wifi_begin"
     /\ wifi' = IF wifi = "up" THEN "up" ELSE "connecting"
     /\ UNCHANGED <<mode, ble, retryDue>>
  \/ /\ command \in {"bleStart", "bleExit"}
     /\ ChangeMode(command)
     /\ UNCHANGED <<ble, radio>>

ConsoleCommand ==
  /\ pc = "console"
  /\ \E command \in ConsoleCommands : RunCommand(command)
  /\ UNCHANGED <<pc, tries, code, mqtt, led, late, world>>

ConsoleDone ==
  /\ pc = "console" /\ pc' = "reboot"
  /\ UNCHANGED <<mode, tries, code, ble, radio, mqtt, led, late, world>>

(* Mutant: only the way into BLE mode restarts the hub.                    *)
CheckRebootForBle ==
  /\ pc = "reboot"
  /\ pc' = IF swReboot /\ bleMode THEN "restarting" ELSE "button"
  /\ UNCHANGED <<mode, tries, code, ble, radio, mqtt, led, late, world>>

CheckReboot ==
  /\ pc = "reboot"
  /\ pc' = IF swReboot THEN "restarting" ELSE "button"
  /\ UNCHANGED <<mode, tries, code, ble, radio, mqtt, led, late, world>>

CheckButton ==
  /\ pc = "button"
  /\ IF button
       THEN bleMode' = TRUE /\ asked' = TRUE /\ pc' = "restarting"
       ELSE pc' = "network" /\ UNCHANGED <<bleMode, asked>>
  /\ UNCHANGED <<reason, started, swReboot, tries, code, ble, radio, mqtt, led, late, world>>

\* What every reset does to the ordinary variables and the radio.
StartOver(why) ==
  /\ pc' = "boot" /\ swReboot' = FALSE /\ tries' = 0 /\ code' = 0 /\ ble' = FALSE
  /\ wifi' = "off" /\ retryDue' = FALSE
  /\ link' = "none" /\ handlers' = {} /\ subscribed' = {} /\ renewed' = TRUE
  /\ pubsubEnabled' = FALSE
  /\ led' = "dark" /\ late' = FALSE
  /\ reason' = why /\ started' = FALSE

\* esp_restart() after its delay; RTC memory is kept.
Restart ==
  /\ pc = "restarting"
  /\ StartOver("sw")
  /\ UNCHANGED <<bleMode, asked, world>>

Loop == CheckNetwork \/ ConsoleDone \/ CheckReboot \/ CheckButton \/ Restart

-----------------------------------------------------------------------------
(* The other tasks, the network and the user *)

\* A message on either topic, which aws_iot_task hands to runCommand.
ServerCommand ==
  /\ link = "up" /\ subscribed # {}
  /\ \E command \in Commands : RunCommand(command)
  /\ UNCHANGED <<pc, tries, code, mqtt, led, late, world>>

BleCommand ==
  /\ ble
  /\ \E command \in {"bleStart", "bleExit"} : ChangeMode(command)
  /\ UNCHANGED <<pc, tries, code, ble, radio, mqtt, led, late, world>>

WifiUp ==
  /\ wifi = "connecting" /\ network
  /\ wifi' = "up"
  /\ UNCHANGED <<pc, mode, tries, code, ble, retryDue, mqtt, led, late, world>>

LinkLost ==
  /\ link = "up" /\ link' = "lost"
  /\ UNCHANGED <<pc, mode, tries, code, ble, radio, handlers, subscribed, renewed,
                 pubsubEnabled, led, late, world>>

(* Mutant: the loop over the handlers ends after the first.                *)
LinkRestoredFirst ==
  /\ link = "lost" /\ wifi = "up" /\ link' = "up"
  /\ subscribed' = handlers \intersect {"command topic"} /\ renewed' = TRUE
  /\ UNCHANGED <<pc, mode, tries, code, ble, radio, handlers, pubsubEnabled, led, late, world>>

\* The AWS client reconnects by itself and renews its subscriptions, one
\* after the other until one fails; nobody tries again, or is told.
LinkRestored ==
  /\ link = "lost" /\ wifi = "up" /\ link' = "up"
  /\ \/ subscribed' = handlers /\ renewed' = TRUE
     \/ /\ handlers # {}
        /\ subscribed' \in {{}, {"command topic"}, handlers}
        /\ subscribed' \subseteq handlers
        /\ renewed' = FALSE
  /\ UNCHANGED <<pc, mode, tries, code, ble, radio, handlers, pubsubEnabled, led, late, world>>

NetworkChange ==
  /\ network' = ~network
  /\ wifi' = IF wifi = "up" THEN "lost" ELSE wifi
  /\ UNCHANGED <<pc, mode, tries, code, ble, retryDue, mqtt, led, late, button>>

RetryDue ==
  /\ pc \in LoopPoints /\ ~retryDue /\ retryDue' = TRUE
  /\ UNCHANGED <<pc, mode, tries, code, ble, wifi, mqtt, led, late, world>>

Late ==
  /\ ~late /\ late' = TRUE
  /\ UNCHANGED <<pc, mode, tries, code, ble, radio, mqtt, led, world>>

Button ==
  /\ button' = ~button
  /\ UNCHANGED <<pc, mode, tries, code, ble, radio, mqtt, led, late, network>>

\* Power, the restart button or a panic; RTC memory may hold anything.
Reset ==
  /\ StartOver("other") /\ asked' = FALSE
  /\ bleMode' \in BOOLEAN
  /\ UNCHANGED world

Clock == RetryDue \/ Late

Environment ==
  \/ ServerCommand \/ BleCommand \/ ConsoleCommand \/ Button \/ Reset
  \/ NetworkChange \/ WifiUp \/ LinkLost \/ LinkRestored

Next == Setup \/ Loop \/ Clock \/ Environment

\* The hub's task runs, millis() counts on, and WiFi associates with an
\* access point that stays; users and networks promise nothing.
Spec ==
  /\ Init /\ [][Next]_vars
  /\ WF_vars(Setup) /\ WF_vars(Loop)
  /\ WF_vars(RetryDue) /\ WF_vars(Late) /\ WF_vars(WifiUp)

-----------------------------------------------------------------------------
Flags ==
  /\ bleMode \in BOOLEAN /\ swReboot \in BOOLEAN /\ asked \in BOOLEAN
  /\ started \in BOOLEAN /\ renewed \in BOOLEAN
  /\ ble \in BOOLEAN /\ retryDue \in BOOLEAN /\ pubsubEnabled \in BOOLEAN
  /\ late \in BOOLEAN /\ network \in BOOLEAN /\ button \in BOOLEAN

Places ==
  /\ pc \in SetupPoints \union LoopPoints \union {"frozen", "restarting"}
  /\ pc = "frozen" => code \in 1 .. 4
  /\ pc # "frozen" => code = 0

Retries == tries \in 0 .. MAX_WIFI_RETRIES \union 0 .. CONNECT_RETRIES + 1

Connections ==
  /\ reason \in {"sw", "other"}
  /\ wifi \in {"off", "connecting", "up", "lost"}
  /\ link \in {"none", "up", "lost"} /\ led \in {"dark", "lit", "bright"}

BothTopics == {"command topic", "actuators topic"}

Topics == handlers \subseteq BothTopics /\ subscribed \subseteq BothTopics

(* Every variable has its type; only a frozen hub blinks a code, and no    *)
(* connection is retried beyond its limit.                                 *)
TypeOK == Flags /\ Places /\ Retries /\ Connections /\ Topics

(* A hub that has a connection and runs loop() has both of its handlers    *)
(* and hears both topics, whatever failed and was lost on the way, unless  *)
(* the client could not renew a subscription when it last reconnected: in  *)
(* setup() it freezes rather than run half subscribed.                     *)
RunsSubscribed ==
  pc \in LoopPoints /\ link # "none" =>
    /\ handlers = BothTopics /\ pubsubEnabled
    /\ renewed => subscribed = BothTopics

(* "When in BLE mode, AWS IOT will be disabled", through restarts, resets, *)
(* commands and a button held at any time; only start_ble, which the       *)
(* console and the server can send to a hub that is not in BLE mode,       *)
(* brings BLE up beside a connection.                                      *)
BleAlone == ble /\ ~started => link = "none"

(* BLE comes up only if it was asked for since the last reset, although    *)
(* the mode lies in memory that no reset initialises.                      *)
BleOnlyAsked == [][~ble /\ ble' => asked']_vars

(* A bleStart or bleExit that a running hub took is followed by a restart, *)
(* also when it came in the middle of setup().                             *)
RebootHappens == [](swReboot /\ pc # "frozen" => <>(pc \in {"boot", "frozen"}))

(* The button of a running hub leads to BLE mode, across the restart,      *)
(* unless bleExit or a reset came in between.                              *)
ButtonLeadsToBle ==
  [](pc = "restarting" /\ bleMode /\ asked => <>(ble \/ ~asked))

(* A hub that stays in loop() gets its WiFi back once the access point     *)
(* stays, by trying every 15 seconds.                                      *)
WifiComesBack ==
  <>[](network /\ pc \in LoopPoints) => []<>(wifi = "up")
=============================================================================

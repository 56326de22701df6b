# Sensaurus in TLA+

Sensaurus is a hub on an ESP32 with six plugs. Sensor and actuator boards plug
into it over audio cables, answer its polls on a half-duplex serial line, and
the hub passes their readings on to an MQTT server and the server's actuator
values on to them. This directory holds TLA+ models of that program, the TLC
runs that check them, and theorems about them checked by TLAPS.

The code modelled is the AWS IoT build with the software serial library
(`USE_SWSERIAL`), the sketches of the boards, and the older hub, a bridge to a
computer. The default leaves BLE out (`BUILD_FLAVOR_AWS_NO_BLE`);
`HubStartup` takes BLE as a constant and `HubConfig` is about the build that has it.
Line numbers refer to the files of this repository; `PROJECT.json` maps every
definition to the lines it stands for.

## The system

| Component | Files | State | Operations |
|---|---|---|---|
| Hub polling | `hub-esp32/hub-esp32.ino`, `libraries/SensaurDevice` | a `Device` per plug (ID, connected, no-response count, up to six components with value and actuator value), the plugs' yellow LEDs | `loop`, `doPolling`, `updateActuators`, `waitForResponseSwSerial`, `processMessageFromDevice`, `sendDeviceInfo`, `sendSensorValues` |
| Serial receive path | `libraries/espsoftwareserial` | ring of captured edges, ring of decoded bytes | `rxBitISR`, `rxBits`, `available`, `read`, `flush`, `enableTx` |
| Request queue | `libraries/queue` | ring of `MAX_QUEUE_SIZE + 1` slots, front, back, count | `try_push`, `try_pop`, `count` |
| Request producers and consumer | `hub-esp32.ino`, `libraries/esp32-aws-iot` | two tasks on one core around that queue | `handleIncomingMessage` and `runCommand` in `aws_iot_task`, `processByteFromComputer` and `loop` in the Arduino task |
| Device sketches | `device-*/*.ino` | line buffer, component values, outputs | `processIncomingByte`, `processMessage`, `sendValues` |
| Line protocol | `libraries/Sensaur`, `libraries/CheckStream` | CRC register, device ID in EEPROM | `parseMessage`, `checksumOk`, `getDeviceId`, `CheckStream::write` |
| WiFi and publishing | `hub-esp32.ino` 364-411, 830-851, 1353-1431 | WiFi and MQTT state, retry timers | `checkNetwork`, `WiFiEvent`, `hubPublish` |
| AWS client wrapper | `libraries/esp32-aws-iot/AWS_IOT.cpp` | the client, its handler | `connect`, `subscribe`, `publish`, `aws_iot_task` |
| MQTT client | `libraries/esp32-aws-iot/aws_iot_mqtt_client*.c` | `clientState` and its mutex, `writeBuf`, `tls_write_mutex`, ping and reconnect timers, TLS context | yield, keep-alive, read and deliver, reconnect, resubscribe, publish, subscribe |
| Configuration and boot | `hub-esp32.ino` 505-650, 1536-1615, 1635-1882 | EEPROM `config`, `dirty`, RTC `bleMode`, `swReboot` | `setup`, `initConfig`, BLE callbacks, button, `runCommand` |
| Timers | `hub-esp32.ino` 700-735, 1581-1603 | `lastPollTime`, `lastSendTime` on the 32-bit `millis()` | the two interval tests of `loop`, `updateTime` |
| Hub bridge | `hub-bridge/hub-bridge.ino` | polling state, one receive buffer for all plugs, the line being collected | `loop`, `processByteFromComputer`, `doPolling`, `processDeviceMessage`, `forwardMessageFromDevice` |
| BLE page, simulator, remote test | `ble-config`, `hub-sim`, `hub-remote-test` | none of the product's | scripts at the far end of BLE or MQTT |
| Vendored libraries | ArduinoJson, PubSubClient, NTPClient, DHT, TSL2561, Adafruit, jled | - | used as they are |

How they interact. `loop()` is the only caller of the polling code in the
normal course of things: it takes one request from the queue (an actuator
update makes it send `s` lines), polls every plug when the poll interval is
over, drops the plugs that missed two exchanges, and publishes sensor values
when the send interval is over. Publishing and the MQTT handlers cross into
`aws_iot_task`, which runs on the same core at a higher priority and therefore
pre-empts `loop()` anywhere. A board hears the hub only through the line of its
plug and answers only when spoken to. People move boards whenever they like.

What is hard here, and what would be correct:

- *Polling.* The hub never sees an insertion or a removal, only answers and
  silences. Its view of a plug (connected, ID, components, LED, the server's
  list) must stay consistent through swaps between polls, answers that come too
  late, spoilt lines and characters left over from the previous exchange; an
  empty plug must be dropped, a new board identified.
- *Actuators.* A board takes its outputs all at once, so the hub must repeat
  the values of those a request does not name: its copy must follow the boards.
- *Queue.* A ring with no lock, written by a task that interrupts its reader,
  and, for `req_status` typed at the console, by both tasks.
- *Lines.* The hub decodes captured edges while more are being captured, and makes
  up the last stop bit of a byte; bytes must come out in order and in time. Boards
  read lines that may be damaged, and both ends keep what a broken line leaves.
- *Boards.* A reading is taken after the answer to the request before; an ID is
  chosen once and written byte by byte, and the power may fail at any time.
- *MQTT client.* Two tasks on one client whose mutexes are only tried, one buffer
  for what is written, a TLS context that one of them destroys: packets must stay
  whole, the client must come back to rest, a dead connection must be noticed,
  opened again and subscribed on again.
- *Timers.* Moved on by an interval, not set; tested against a `millis()` that
  wraps; changed by a task that interrupts the test.
- *Boot.* Which settings and which mode survive which kind of restart.

## Modules

| Module | Contents |
|---|---|
| `HubPolling` | hub, plugs, boards, line and server's view, one action per step |
| `MCHubPolling` | boards and requests for TLC |
| `HubPollingProofs` | inductive invariant and theorems about `HubPolling` |
| `BoundedFifo` | what the request queue promises |
| `QueueRing` | the members of the ring, for the two modules that use it |
| `ProcessingQueue`, `MCProcessingQueue` | the ring with its indices; `IsFifo` is the refinement |
| `QueueRace` | the same ring at the grain of loads and stores, two tasks |
| `QueueProofs` | the ring's invariant and its refinement, for every size; what the interleavings cannot break |
| `Timers`, `TimersProofs` | the poll and the send timer on a clock that wraps |
| `HubStartup`, `HubStartupProofs` | boot, modes, connections and `checkNetwork()` |
| `HubConfig`, `MCHubConfig` | settings: hub, flash, BLE callbacks and configuration page |
| `HubConfigProofs` | the `dirty` flag is honest, files fit their arrays, what is saved and shown is what was entered |
| `AwsClient`, `AwsClientProofs` | the MQTT client between `aws_iot_task` and the Arduino task |
| `LineProtocol` | lines, checksums and `parseMessage()` as operators |
| `HubBridge`, `MCHubBridge` | the bridge, the lines and the boards with their sketches |
| `HubBridgeProofs` | whose answers the bridge passes on and in what order, what silences mean, that boards keep their IDs |
| `SoftSerial`, `MCSoftSerial` | the hub's receive path, from edges to characters |
| `SoftSerialProofs` | bytes in order and none withheld, for every latency below half a bit; what an exchange leaves |

`HubPolling` takes the line as it comes out of `SoftSerial` (`Leftovers`), and the
queue's requests one at a time, as `ProcessingQueue` and `QueueRace` justify.
`HubStartup` sees the MQTT client as connected or not, `AwsClient` begins where
`AWS_IOT::connect` has succeeded. `HubBridge` extends `LineProtocol`.

### HubPolling

The state is the hub's `Device` objects (`connected`, `noResponseCount`,
`componentCount`, `devId`, `value`, `actuatorValue`, one function per field),
the LEDs, the position of `loop()` (`pc`, `cur`, and `waiting` inside the read
loop), the boards (`plug`, `out`, `inbox`), the line (`line`, `reply`), what the
server holds (`announced`, with the list `asked` for and not yet sent), what it was
last sent (`sensors`), and history variables the
properties need: `untold` says that a list newer than `announced` was lost or
overtaken by an older one, `unanswered` counts the exchanges the occupant of a plug really
left unanswered, `clean` says that it was inserted while the hub held the plug
for empty and was not listening there.

| Actions | Code |
|---|---|
| `ActuatorRequest`, `NoRequest` | the queue branch of `loop()` |
| `UpdatePlug`, `SkipPlug` | an iteration of `updateActuators` |
| `PollDue`, `PollNotDue`, `PollPlug` | the poll branch and an iteration of `doPolling` |
| `GetReply`, `TimeOut` | the end of `waitForResponseSwSerial`, with `processMessageFromDevice` |
| `CheckDisconnects` | the disconnect check of `loop()` with `sendDeviceInfo` |
| `SendSensorValues`, `SendNotDue` | the send branch |
| `RequestDevices`, `RequestServed` | `req_devices`, served by `aws_iot_task` beside `loop()` |
| `Restart` | `esp_restart()` on a reboot command or the button |
| `Insert`, `Remove` | people |
| `Serve`, `LoseCommand`, `GarbleReply` | the sketches and the line |

The hub and a board run concurrently: between `PollPlug` and `GetReply` or
`TimeOut` a board may serve the command, be pulled out, be replaced, or answer
when the hub has left the read loop.

Abstractions. A line of text is one message that names the kind and the sender.
Of the characters only what is left on the line after an exchange remains
(`line[p]`): the read loop stops at the first control character, the board sends
CR and LF, and `flush()` empties the decoded bytes but not the captured edges,
so a late line end (`"eol"`) ends the next exchange at once, counted as a
silence although the board gets the command and answers it, and other characters
(`"junk"`) spoil the next line's checksum. That no more than this can be left is
`LeftoverIsLineEnd` of `SoftSerial`. A reading is represented by the board
it comes from. A spoilt command is a lost command.
`hubPublish()` may fail, or report a success that is none (run `aws_publish`), and
`sendDeviceInfo()` is never repeated: with `"lost"` in `Mishaps` any list may be lost.
With `"late"`, `req_devices` builds its list in `aws_iot_task`, which may wait for the
network and send it after a newer one of `loop()`. `Send` assumes that a board has
finished with one command before the hub writes the next (`inbox[p] = NoCommand`): the
pauses between exchanges give it the time, but nothing in `doPolling` waits for it.
Metadata of a board never changes. Boards with six components are left out
(`HubAssumption`): the argument array of `processMessageFromDevice` is one
pointer too short for their metadata line, and the model would have to guess
what `args[7]` is.

### ProcessingQueue and BoundedFifo

`BoundedFifo` has one variable, the sequence of queued items, and refuses a push
when full and a pop when empty. `ProcessingQueue` is the ring: `front`, `back`,
`count` and `data`, with the wrap of both indices after the access, as
`ArduinoQueue` does it. The mapping reads `count` slots from `front` on. What
`pop()` returns when the queue is empty, `T()`, is any member of `Defaults`:
`QueueItem`'s constructor leaves `requestType` as it finds it.

### QueueRace

Each load and store of `loop()`'s `try_pop` and `try_push` is an action, the
`try_push` of `aws_iot_task` is one: it has the higher priority on the same
core. Requests are numbered as they are accepted, `handled` is the list of what
`loop()` processed. The order of the loads and stores is that of the source;
`int` loads and stores are atomic on the ESP32.

The history variable `console` says that a request typed at the console has been
pushed by `loop()` itself. Without one, `loop()` only pops, and the properties
that speak of one producer hold.

### Timers

`lastPollTime` with `pollInterval` and `lastSendTime` with `sendInterval`, tested
and moved on by `loop()` as in lines 700-735, on a `millis()` that counts modulo
`Wrap`. `StartPoll` and `EndPoll` are separate because the interval is read twice,
and `MqttCommand` runs in `aws_iot_task` between them. One unit of the model stands
for a fraction of a second; `Second`, `HalfSecond` and the limits of
`set_poll_interval` keep their proportions. A pass of `loop()` may take any time: six
time-outs of 50 ms, blocking publishes and `updateTime()` can take longer than the
shortest interval, and then the timers, which advance by one interval per pass, fall
behind. The history variable `owed` adds up what passes took beyond half a second and
shorter ones have not made up since; the properties bound the lag by it. `MaxOwed`
bounds that sum, so that a lag does not reach the width of the clock (on the hub, 49
days). `pollRaced` and `sendSet` record the two circumstances in which the code
does lose its rhythm: a command that changes the interval within `doPolling()`, and
`set_send_interval`, which leaves `lastSendTime` as it is.

### HubStartup

`pc` walks through `setup()` (each of its four ways to freeze has its code) and
round `loop()`: `checkNetwork`, the console, `swReboot`, the button. Commands from
the server arrive once its topic is subscribed to, commands from the BLE page
while BLE is up, a reset at any time. `bleMode` is in RTC memory, so a reset that
is not a software restart leaves it arbitrary until line 520. `retryDue` stands for
the 15 seconds of `checkNetwork()`, `late` for the first 32 msec of `millis()`.
`RunCommand` serves console and server alike, as in the code. `started` says that
`start_ble` brought BLE up, which it does beside a connection. `handlers` are the
topics the AWS client has a handler for, `subscribed` those the broker sends: when the
client reconnects by itself it renews one subscription after the other until one
fails, and is then connected and deaf (`LinkRestored`, `renewed`).

### HubConfig

The hub's part is `config` (in use), `flash` (with its version mark), `dirty` and
`chars`, the values the BLE characteristics show to a reader; the page's part is
its fields (`page`), the properties of `sensaurusBle` (`obj`), and the chain of
promises that reads or writes one characteristic after the other (`job`, `at`, and
`part` within a file). `SaveSteps` is the order of `saveSettings()`: texts of the
core service, console flag, certificate and key, texts of the MQTT service, port,
certificate and key once more, and the command `bleExit`. Each step is a write
with the hub's callback in it; the link may break after the hub has taken it
(`Answered`) or before (`Disconnect`), and an operation may be refused while the link
stays up, before the hub has taken it (`Refused`) or after (`Answered`): the page's
`catch` handlers end the chain there, and nothing follows (`refused`). A second press of Save replaces `obj` under
a chain that is at work, and the chain it starts fails on GATT's "operation in
progress"; `again` records it. `cut` records that a file was left incomplete: by a
break, by the command `w` in the middle, or because it does not fit. A number goes
out big endian and is read little endian (`SwapBytes`); `portWritten` says that the
port's characteristic holds the page's bytes rather than those of `startBLE()`.

### AwsClient

`T` is `aws_iot_task`, `L` the Arduino task. `T` has the higher priority on the same
core, so an action of `T` reaches from one point where it blocks to the next (`tpc`:
asleep, reading, in a send, in a TLS or CONNECT handshake, or in the handler, which
may publish), and an action of `L` is one access to the client: check, try the mutex,
compare, release, serialise, send, restore (`lpc`). The mutexes are only tried, as
`isBlockOnThreadLockEnabled` is false.

| Actions | Code |
|---|---|
| `Yield`, `KeepAlive`, `HandleDisconnect`, `Reconnect` | `aws_iot_mqtt_yield` and what it calls |
| `ReadNothing`, `ReadReset`, `ReadPartial`, `ReadPong`, `ReadCommand` | `cycle_read` by what TLS returns |
| `Reply`, `ReplySent`, `CallbackReturn` | `deliver_message` with the hub's handler |
| `TlsConnected` ... `NoConnack`, `Resubscribed`, `ResubscribeFails` | `attempt_reconnect` |
| `Publish`, `Subscribe`, `Check` ... `Restore` | `hubPublish`, `aws_iot_mqtt_publish`, `_subscribe` |
| `ServerSends`, `LinkDies`, `NetworkReturns`, `PingTimer`, `ReconnectTimer` | server, network, time |

Three histories say what the promises depend on. `overlap`: `L` claimed the client
while `T` ran the handler, which `deliver_message` allows. `clash`: `T` woke up while
`L` held the mutex of the state. `partial`: the connection died within a packet.
What happens then is in the list of divergences below.

### LineProtocol and HubBridge

A line is a sequence of pieces, the groups of characters that a reader tells apart:
command, argument, checksum, CR, LF, junk. Each knows the message it was written
for; a checksum fits if what stands before it is its own body. `Damaged` is a line
with one piece lost or changed; it bounds noise in that `Garbles` never makes a CR or
LF of another character. `parseMessage()` is modelled with the byte it returns.

The bridge's part of `HubBridge` follows `loop()` (`stage`) and `doPolling()` (`cur`,
`waiting`). There is one receive `ring` for all plugs, as in
`SoftwareSerialWithHalfDuplex`, cleared when another line is listened to. A board has
its EEPROM (`marker`, `eeId`), receive buffer, line buffer, and what is left to write
(`tx`); `Does` lists in what the seven sketches differ. A request reaches a board as
one step: the board spends the time of every byte in its receive interrupt, so its
sketch does not run before the line is there. A board that starts is up at once: the
700 ms its LED takes (`Sensaur.cpp:43`), in which it receives without answering, are
not modelled. `SetValues` asks one argument of every sketch; the test board asks two
(`device-test.ino:95`), but is in no run. An answer goes piece by piece, since
the bridge stops at CR. `Answering` says that a board whose answer is under way is
heard before `RESPONSE_TIMEOUT`; a board that pauses, was cut off or got a broken line
may be too late. A board reads up to the next CR or LF in one step (`TakeBytes` for
all that does not end a line, `TakeLine` for a line with its CR): what comes between
two of its bytes only lengthens its buffer, which the next step reads. The lengths of
line buffers (80 and 100 characters) are not modelled but for a line that `CheckStream`
cuts; the receive buffer is (`RxBuff`), and takes a request of `doPolling()` whole, as
the 64 characters of `_SS_MAX_RX_BUFF` do.

### SoftSerial

Time counts in fractions of a bit. The board's frames (`Line`, `Changes`) are seen by
`rxBitISR` with any latency up to `MaxLatency`; a poll of the task is two steps,
`Available` (which copies the number of changes) and `RxBits` (which decodes them and
decides on the made-up stop bit), and the interrupt comes between them. `Request` is
`flush` and the write of a request, `StopListening` the return to `enableTx(true)`.
`raced` records the one moment that corrupts a byte: the stop bit is made up while
changes that came after the copy are waiting. A count of bits is kept in 8 bits and
wraps at `Wrap`; `SoftSerialAssumption` keeps pauses within a line below that, and has
room for a byte at least in `m_buffer`. `DecodeAll` is the loop of `for_each`, written as
a function on the number of changes taken so that it can be reasoned about. A board
that answers late is assumed to have finished before the next request.

## Runs

| Run | Instance | Checks |
|---|---|---|
| `swap` | one plug, two boards, 4 moves, 1 fault, 1 restart, all leftovers, `FairSpec` | the hub's view of a plug through swaps; removal noticed, insertion identified |
| `plugs` | two plugs, two boards, 3 moves, requests for both boards, lists lost and sent late | server's list and output mirror across plugs |
| `queue_fifo` | 3 places, 2 items | refinement of `BoundedFifo` |
| `race` | 2 places, both producers | only pushed requests handled and no overrun while the console is silent; the count never overstates |
| `timers` | clock of 11, second of 2, passes of any length that together cost up to 2, all commands | no timer runs ahead or lags for good, polls and sends go on |
| `startup` | BLE and WiFi enabled, one WiFi retry, all commands | modes exclude each other, subscriptions are whole, restarts happen, WiFi comes back |
| `config_save` | one text per service, one certificate of two chunks and one too long, 1 edit, 2 breaks or refusals, 1 command | what is saved is what was entered, what is read is in use |
| `aws` | back-off 1 to 2, 1 retry, 1 reply, 1 packet under way, 1 loss | packets and TLS context stay whole, the client returns to rest, notices, reconnects |
| `bridge` | a relay and a DHT22 board, 3 rounds, 1 fault | every answer is its board's own, in order, measured; silences have causes; IDs stay |
| `serial` | bytes of 5 bits of 3 units, two exchanges, one late interrupt | bytes in order and in time, at most a line end left over |
| `board_checksum` | as `bridge`, 1 round, 2 faults | only lines with a good checksum are served: violated |
| `aws_publish` | as `aws` | a publish that returns success was passed to TLS: violated |

The type invariants of the modules without one in this table are proved.

Bounds, and why they suffice.

- Boards and plugs: one plug and two boards give every swap; plugs interact only
  through the loop's position, the request being served and the server's list,
  for which two plugs are enough. The theorems hold for any number.
- `MaxMoves` = 4 is two complete swaps; `MaxFaults` and `MaxRestarts` = 1 let a
  fault and a restart meet a swap at every point.
- `NoResponseCap` = 3 (2 in `plugs`) stops the no-response count at or above the value
  the code compares it with (2), so that no comparison changes.
- `Mishaps` is empty in `swap`, whose properties say nothing of the server; in `plugs`
  any list may be lost or come late, with one `req_devices` under way at a time. The
  probe sends no readings there (`MCOutputs`), which neither property of `plugs` is about.
- `MAX_SIZE` = 2 or 3 with more pushes than slots makes both indices wrap in
  full and in empty states: `queue_fifo` goes round without a bound, and the 6 pushes
  of `race` go round its ring of three slots twice.

- Timers: `Wrap` = 11 with a second of 2 holds two of the longest intervals and something
  left over, and time goes on for ever, so every phase of a timer meets the wrap. `MaxOwed` = 2 lets a pass take three times the
  shortest interval. `TimersProofs` covers the safety properties for every `Wrap`.
- Startup: no counter is bounded but the retries of the code itself, taken as 1 and
  0 + 1 to reach both "again" and "give up".
- Settings: one text before and one after the first certificate stand for the four
  and three of the code, since each is treated alike; the certificate takes two
  chunks, so that a break can fall within it; `Capacity` holds it twice, so that a
  lost `clear` shows; `"long"` does not fit. Two breaks allow a save to break off,
  a second one to break off elsewhere, and a third to finish; a refused operation
  counts as one of them.
- MQTT client: the back-off is 1 and 2 of a maximum of 2, so it doubles once and then
  gives up; one retry of `hubPublish` reaches both "again" and "give up". A loss can
  come at any point of either task. The theorems hold for any of these.
- Bridge: two plugs are the least at which the bridge changes lines; the third round
  shows what a fault in the first has left. The relay and the DHT22 board between them
  have outputs, readings, a pause and a valid flag.
- Serial: five data bits let a byte end in ones and start in zeroes with one more
  change between; `Wrap` = 9 makes the count of bits wrap as soon as a line rests for
  more than a byte; three units per bit is the least in which a latency of one is less
  than half a bit. `IsrCapacity` = 7 and `BufCapacity` = 1 are reached. `Delays` hold
  an answer in time and one that is cut off by the time-out of 50.

Fairness. `swap` uses `FairSpec`. `WF(Hub)`: the Arduino task calls
`loop()` for ever, and no wait in the modelled code is unbounded. `SF(PollDue)`:
`loop()` comes back to the interval test again and again and `millis()` advances,
so that the test cannot fail for ever. `WF(Serve(p))`: a board that has received
a command processes it in its own loop. People, noise, restarts and actuator
requests owe nothing.
`timers`: `WF(Loop)` and `WF(Tick)`, `loop()` is called for ever and time passes.
`startup`: `WF(Setup)` and `WF(Loop)` for the Arduino task, `WF(RetryDue)` and
`WF(Late)` for time, `WF(WifiUp)` for an association that is under way with an
access point that stays. `config_save`: `WF(Save)`, the browser settles every GATT
operation, with success, with an error or with a broken link, and `WF(Restart)`, `loop()` sees
`swReboot`. `aws`: `WF(TAwake)` and `WF(LCall)`, calls into TLS return after their
time-outs and a task that can run does; `WF(Subscribe)`, `setup()` does subscribe;
`WF(PingTimer)` and `WF(ReconnectTimer)`, time passes; `SF(Yield)` and `SF(Reconnect)`:
`aws_iot_task` yields every 550 ms and `L` is not always within a publish at that
moment. Server, network and whoever asks for publishes owe nothing, but where
`ConnectsAgain` itself supposes that the network stays. `bridge` and `serial` check
safety only; `serial` may stop when its exchanges are used up, and so may `aws` when
no time is left to pass, hence no deadlock check there.

## Where the code and its descriptions part

Two of these are the counterexamples of runs.

1. `board_checksum`: Sensaur.cpp:7 says `parseMessage()` returns -1 on a checksum
   error; it returns a `byte`, so the sketches see 255 arguments and serve the line.
   A damaged `s` line sets outputs.
2. `aws_publish`: aws_iot_mqtt_client_publish.c:249 says a QoS 0 publish returns after
   the message was passed to TLS; `send_packet` replaces the rc of the failed write by
   that of the unlock (aws_iot_mqtt_client_common_internal.c:306), and `hubPublish`
   reports success.

The others were met while modelling and are in the models, each seen where it is
named; no run is kept for them.

- hub-esp32.ino:982 says all components are cleared on a new contact;
  `resetComponents()` clears their number only, and the previous board's value is
  published under the new ID until the first `v` answer (`CountOnContact`).
- SensaurDevice.h:34 says the stored value lets the hub update one actuator without
  changing the others. After a hub restart the stored values are 0 and the board's
  are not (`Restart`; `ActuatorMirror` is about hubs that have not restarted).
- Two producers: a push that interrupts a push raises the count past a slot that is
  not written yet, and `loop()` handles an item nobody pushed (`console`).
- README.md:140 says "the fields will populate with current values from the hub". A
  port written since BLE began to serve is shown with its two bytes swapped: after a
  save that broke off past the port, a page that reconnects shows that number, and the
  next save stores it. `FieldsCurrent` says of texts, console flag and port what the
  page shows, and that no other port is shown swapped (`portWritten`); it does not
  claim README.md:140, which the code does not keep. An enabled console may be shown
  as 256, and `set_console_enabled` does not reach the page.
- A left-over line end makes the hub miss one answer, and one real silence after
  it turns the LED off; README.md:72 has two. (`DropHasCause` holds: leftovers
  alone never drop a board.)
- `try_pop` on an empty queue can return any `requestType` (`Defaults`);
  ProcessingQueue.h:51 promises 0. `loop()` tests `count()` first.
- `--_count` of a pop that a push interrupts loses the push's increment, and the
  request waits in the ring until another one arrives (`CountNeverOverstates` is
  an inequality for that reason).
- A longer interval set during `doPolling()` puts `lastPollTime` ahead of the
  clock, and the hub polls on every pass until the clock catches up (`pollRaced`).
  After a pause of sending, values go out on every pass until `lastSendTime` has
  caught up (`sendSet`); so do polls and values after a pass that took longer than
  their intervals, such as a slow `updateTime()` (`owed`).
- The server's list goes stale for good if the publish of the last change is lost, and
  `req_devices` may replace it by an older one (`untold`). A hub that restarts sends
  no list until a board is identified or dropped.
- A subscription that the client fails to renew when it reconnects is lost until the
  next reconnection, and the hub goes on as if subscribed (`renewed`).
- `start_ble` sent by the server starts BLE beside the connection, as it does when
  typed, though README.md says that AWS IoT is disabled in BLE mode (`started`).
- The blue LED does not blink while WiFi is down (README.md:76): `(time >> 5) && 1`
  is a Boolean "and" (`Blink`).
- WiFi that drops right after it associates leaves `setup()` waiting for ever with
  no LED (README.md:63; `Settle`). A hub without a network freezes with code 1 and
  does not enter BLE mode (README.md:118; `NotAssociated`).
- `checkNetwork()` turns on the radio of a hub whose WiFi is disabled
  (hub-esp32.ino:560; `CheckNetwork`).
- Pressing Save twice mixes the values of both presses in one save (`again`).
- A certificate that does not fit is stored up to the last chunk that does, though
  the comment at hub-esp32.ino:1781 says a partial one has no use (`cut`).
- `set_console_enabled` changes a setting without marking it (`consoleSet`).
- A write of the core service that fails leaves the promise of `saveSettings()`
  unsettled, so the page reports nothing, and the hub keeps its changes unsaved without
  a restart (`refused`).
- If `L` publishes while the handler runs and the handler returns meanwhile,
  `deliver_message` cannot restore the state (common_internal.c:527) and `L` restores
  `WAIT_FOR_CB`, in which no yield does anything: the client is deaf until a restart
  (`overlap`). The same if `T` wakes while `L` holds the mutex of the state (`clash`).
- A connection that dies within a packet makes every read fail without a reset, so
  that neither the disconnect nor the keep-alive is reached, against the comment at
  yield.c:164-167 (`partial`).
- `publish` keeps its parameters in one global, so that a reply of the handler can
  replace the payload of the publish it interrupts (payloads are not modelled).
- While the client waits to reconnect, `aws_iot_task` goes round its loop without the
  delay at its end (`continue`, AWS_IOT.cpp:238), at a higher priority than the Arduino
  task, which gets no time until the attempt begins. `Reconnect` lets `T` sleep
  meanwhile and so allows `L` more than the code does.
- After the back-off has passed its maximum, 128 seconds, nobody reconnects again
  (`GivenUp`); a resubscription that fails is not repeated (`resubFailed`); a
  `subscribe` that `setup()` calls while `T` yields is refused and freezes the hub
  (`"frozen"`).
- "e:device crc" is printed without a line end, so it heads the next line
  (`errorOpen`); `deviceIndex` is used unchecked (`Orders` has valid ones only); after a poll the line that
  `listenDevice` names is no longer listened to (`LoopCanHear`).
- The CO2 board takes its failed first reading for a valid one and publishes 0; the O2
  board answers 0 before its sensor has spoken (`Nothing`).
- The EEPROM marker is written before the ID. After a power cut between them the
  board keeps whatever the cells held, which the README calls random; it keeps it for
  good (`IdKept`).
- A full `m_buffer` drops bytes without setting `overflow`, and the hub never asks
  for it (`refused`).
- A byte is corrupted if its stop bit is made up while newer changes wait, although
  the comment at SoftwareSerial.cpp:314-316 means the opposite (`raced`).

## Theorems

`HubPollingProofs`. `IndInv` is the conjunction of `TypeOK`, `Control`,
`PlugState`, `KnownDevice`, `ReplyFromOccupant`, `MissesCounted` and
`SilentPlugDropped`; `Inductive` proves it of `Spec`. Why each part is needed:

- `Control` ties `cur`, `waiting` and `pc` together: an answer is only taken
  while a plug is being served, and `todo` is only used in the request branch.
- `KnownDevice` is not inductive alone: an answer in flight must come from the
  board that is still in the plug. That is `ReplyFromOccupant`, for a board
  whose `clean` holds; a board inserted while the hub listens is not `clean`.
- `DropHasCause` needs that two misses include a real one. `MissesCounted` says
  so: as long as a line end is left over, the count is 0, because line ends are
  only left behind by an answer, which reset it; so of two misses in a row the
  second one found a clear line, and is a real silence unless answered.
- `SilentPlugDropped` is carried by the check that follows every poll.

From these: `TypeCorrect`, `PlugStateHolds`, `KnownDeviceHolds`,
`SilentPlugDroppedHolds`, `DropHasCauseHolds`, `ReadingsHold`. `ServerListHolds`
is proved by a second induction on top of `IndInv`, which follows the list that
`aws_iot_task` has under way: unless `overtaken`, it agrees with the hub. Publishes may
fail at any time in it, and `req_devices` may come at any time. `ActuatorMirrorHolds` is
proved by a third: `MirrorInv` compares what the hub keeps with what the board will have
made of the command in its inbox (`Mirrors`), not with its outputs, since a command and its
effect are two steps; it knows the board behind an answer and behind an ID, that a board
is in one plug, and that one not yet inserted has its outputs as at power-on. They use `HubAssumption`
only: any number of plugs, boards, components, requests, moves, faults and
restarts.

`QueueProofs`: `QueueInvariant` (indices in range, count is their
distance modulo the ring, queued items were pushed) and `RingIsFifo` (every step
of the ring is a step of `BoundedFifo` under the mapping), for every `MAX_SIZE`.

Of `QueueRace` it has `RaceTypeCorrect` and `CountNeverOverstatesHolds` for both producers,
and `AwsRequestsValidHolds` (with it that no push writes past the array) while the
console is silent, for every
size. `Indices` says inside which call an index may lie past the ring, `Counted`
bounds the count by the requests accepted and not yet handled, with what `loop()`
has loaded and will store, and `SoleProducer`, kept until the console first pushes,
says that every slot below the accepted number was written: a lost count delays a
request but never exposes an unwritten slot.

`TimersProofs`: `TypeCorrect` and `TimersFollowClock`, for every clock and second
that `TimersAssumption` admits and passes of any length: the lag is at most an interval,
half a second, the pass under way, and what is `owed` from longer ones. `PollLag` and `SendLag` bound how far a
timer lags at each control point, and add that while the work is done more than
an interval has passed: without that, adding the interval could move the timer
ahead of the clock. They are kept until `pollRaced` or `sendSet` holds.

`HubStartupProofs`: `TypeCorrect`, `RunsSubscribedHolds`, `BleAloneHolds`,
`BleOnlyAskedHolds`, for any retry limits and commands. `Stages` says what is connected
and subscribed at each point of `setup()` and `loop()`, and that the handlers outlive
a lost link, whatever became of the subscriptions, `BleStages` that BLE is up
only in a `loop()` that was entered without connecting, and `ModeWasAsked` that
`bleMode` implies `asked` except before the `Boot` of a reset that was not a
software restart.

`HubConfigProofs`: `CleanMeansSavedHolds`, for any fields, files and limits. The
invariant is inductive as it stands; what makes it so is that every callback marks
what it changes, one by one, and that no callback takes the mark back. `TypeCorrect`
proves of any certificate and chunk size that `strcat` never runs over the end of its
array (`FilesFit`), and that a chain is at work only while the page is connected.
Three more inductions follow the promise chains. `FilesInv`: while a file is under way
its settings hold exactly the chunks sent so far, so that the last chunk makes it whole,
and any other file is empty or whole (`FilesWholeHolds`). `ReadInv`: the characteristics
show the settings, a written port swapped (`Shows`), and the fields before position `at`
of the reading chain are as `FieldsCurrent` has them (`FieldsCurrentHolds`).
`SaveInv`: the fields before `at` of the saving chain are in the settings, and of the
file under way what was sent, whatever earlier saves had left there, because its first
chunk clears it (`SavedAsEnteredHolds`).

`AwsClientProofs`: `TypeCorrect`, `PacketsOwnHolds`, `StackInUseIsAliveHolds`,
`RestIsUsableHolds`, `IdleIsSubscribedHolds`, for any limits, numbers of packets and
faults. A mutex that is only tried protects nothing by itself; the invariant says what
does, the client's state. `Own` (with `CallOwns`, `WriteOwn`, `TPlace`, `TPacket` and
`Alive`) says which states the client can be in at each point where `T` blocks and at
each step of `L`: as long as `L` is between its claim and its restoring, `T` can only
be asleep or in the handler, so nobody else fills `writeBuf` or closes the context.
`Regular` adds, for a history without `overlap` and `clash`, that every claim is
given back; `UsedIsSubscribed` follows the subscription through reconnects.
Together they are `Inductive`.

`HubBridgeProofs`: `ForwardedOwnHolds`, `ReadingMeasuredHolds` and `IdKeptHolds`, for
any boards, sketches, orders, noise and power cuts. `LineInv` follows a piece from the
board to the computer: what is on plug `p`'s line, in the receive buffer while `p` is
listened to, and in the line being collected has no checksum but those `p`'s board
wrote, which is what an accepted line is known by (`OwnLine`). It survives the turn to
the next plug because `listen()` empties the buffer on a change of the line and both
callers begin a new line then, and losing or damaging pieces forges no checksum
(`DamagedLine`). Whether a board has measured rides along with its pieces. `IdInv`
says what a board may have called itself at each point of `getDeviceId()`.

`TypeInv` is the type invariant with what it needs to be inductive: pieces carry
numbers up to the last request to their plug, so that `Nr` of a line is one of them
(`TypeCorrect`).

`OrderInv` (`ForwardedInOrderHolds`) follows the numbers of the requests round the
whole loop. For each plug: every number in the board's buffers is newer than that of
the request it is working on or answering, in the order they came, and each CR there
ends a line with a number (`Requests`); that answer is newer than everything the
bridge has collected or has in its ring from this board, which is in rising order up to
marks that a checksum can vouch for (`Answers`); and all that is newer than what was
last passed on. A line that lost its CR joins the next one, which is why an answer
carries the newest number of its line, and why the order is one of the pieces that
vouch for a line (`Marks`), not of all pieces: damage turns pieces to junk but forges
none.

`CalmInv` (`SilenceHasCauseHolds`) says why one undisturbed exchange heals what a
broken one left. After one, the board holds no half line (`Settled`) and the bridge
listens elsewhere when it comes to this plug again (`ListensElsewhere`), so that its
receive buffer is cleared; in the next one, there is exactly one thing at a time:
the request in the board, its answer to be written, or the answer's line end in the
ring (`InExchange`). A plug is then left only with that answer passed on. It takes
two plugs and a receive buffer that holds the request, as `BridgeAssumption` says.

`SoftSerialProofs`: `TypeCorrect`, `DecodedInOrderHolds`, `NothingWithheldHolds` and
`LeftoverIsLineEndHolds`, for bytes and bits of any length, any latency below half a bit,
any sizes of the two buffers, any answers and pauses that `SoftSerialAssumption` admits.
The hub decodes in bursts what the interrupt recorded one by one, so the invariant speaks
of neither, but of what the decoder would hold if it decoded now all that is recorded,
`z = Drained(rx)`. In those terms a poll changes nothing, but for a stop bit it makes up,
and an interrupt adds one change (`DecodeOneMore`). `SerialInv` has these parts:

- `Place` says how far `z` is. Either all bytes whose frame is over are decoded and the
  line rests (`Between`); or the byte under way is, its first `j` bits recorded and the line
  unchanged since, up to a change that waits for its interrupt (`UnderWay`); or the last byte
  ended in ones, so that no change told its end and it lacks only these (`Past`).
  `Recorded` fixes the time of the last change to within a latency of the beginning of bit
  `j`: two such times differ from a whole number of bits by less than half a bit, which is
  why `BitCount` counts right (`BitCountOf`), and less than `Wrap` of them pass
  (`WrapIsLong`). `Past` also bounds how long ago that was, so that the next start bit
  does not make the count wrap.
- `Content`: what the hub has read and what is in `z`'s buffer are the leftover and the first
  `m` bytes of the answer; from a push that was refused on, the buffer is full and bytes are missing.
- `Told`: in a poll that began after a long enough silence, at most the byte in `Past` is
  not decoded, and then it is overdue, so that this poll makes up its end.
- `FirstInv`: the first change waiting behind an unfinished byte either ends it or came
  before its end; this is what makes a made-up stop bit change nothing but the byte it
  completes (`EarlyChange`).
- `KeptInv`: what an exchange that was broken off leaves in the decoder, until the next
  request takes it over as `old`.

`DecodeAlike` and `DecodeAllAdds` say that two decoders that agree on everything but their
buffers decode the same bytes; the flush of a request rests on them. Induction over the
changes in the ring is done without the library's theorem, which needs an operator as
parameter: the set of the numbers of changes for which the claim holds contains 0 and
with each the next, so it has all of them (`Steps`, from the well-foundedness of `<`).

Only model-checked: every liveness property, since the prover does not handle fairness
and `ENABLED` (`swap`, `timers`, `startup`, `config_save`, `aws`), and the two
counterexamples. Every other property of a run is the subject of a theorem. No project
module under proof declares a RECURSIVE operator.

## Not modelled, and the plan

What remains of the program's own logic, in this order:

1. `PollReentry`: the `p` command, which runs `doPolling()` in
   `aws_iot_task` beside `loop()`. The two share one character buffer, and what they
   leave in it is decided character by character.
2. Boards with six components, whose metadata line makes the hub read `args[7]`,
   which the source does not determine; texts of 64 characters and more, and a line
   that fills a sketch's buffer, for the same reason.
3. Proofs: that `QueueRace` with a silent console implements a FIFO that may show a
   request late but never loses, repeats or reorders one; the safety half of the liveness
   properties, such as how many polls pass at most until a removal is noticed.

Left out for good: the simulator and the remote test script, status texts of the page,
formatting and logging, the plain MQTT builds, which do not compile (`rc` is declared
twice in `setup()`), with `mqttReconnect`, PubSubClient and NTPClient; ArduinoJson,
jled and the sensor drivers; of the AWS library the shadow and jobs clients and their
JSON, which the hub never calls, and QoS 1, which it never uses. These are well over
half of the repository's lines, and the map covers the rest rather than them.

------------------------------ MODULE AwsClient ------------------------------
(***************************************************************************)
(* The MQTT client of the AWS builds: one AWS_IoT_Client shared by two     *)
(* tasks of core 1.  T is aws_iot_task (priority 5): it yields to the      *)
(* client every 550 ms to read, ping and reconnect, and runs the hub's     *)
(* message handler, which may publish.  L is the Arduino task with setup() *)
(* and loop() (priority 1), which subscribes and publishes.                *)
(*                                                                         *)
(* T interrupts L between any two accesses and L runs only while T blocks: *)
(* an action of T goes from one point where it blocks (tpc) to the next,   *)
(* an action of L is one access.  Every mutex of the client is only tried  *)
(* (isBlockOnThreadLockEnabled is false), so L being interrupted with      *)
(* state_change_mutex in its hand makes T's change of state fail.          *)
(*                                                                         *)
(* Left out: topics but one, payloads, QoS 1 (USED_QOS is QOS0), messages  *)
(* that arrive while L waits for a SUBACK or T for a CONNACK or SUBACK.    *)
(* Time is what the timers have expired (pingDue, reconnectDue).           *)
(***************************************************************************)
EXTENDS Naturals, Sequences

CONSTANTS MinWait,      \* AWS_IOT_MQTT_MIN_RECONNECT_WAIT_INTERVAL, in units
          MaxWait,      \* AWS_IOT_MQTT_MAX_RECONNECT_WAIT_INTERVAL
          MaxRetries,   \* MAX_AWS_IOT_RETRIES of hubPublish
          MaxReplies,   \* publishes of one command's handler
          MaxInbox,     \* bound: packets on their way to the hub
          MaxFaults     \* bound: losses of connection or of an answer

ASSUME AwsAssumption ==
  /\ MinWait \in Nat \ {0} /\ MaxWait \in Nat
  /\ MaxRetries \in Nat /\ MaxReplies \in Nat
  /\ MaxInbox \in Nat /\ MaxFaults \in Nat

VARIABLES
  clientState,    \* clientStatus.clientState
  held,           \* L holds state_change_mutex
  writeBuf,       \* the packet serialised in clientData.writeBuf
  pingOutstanding, pingDue,      \* isPingOutstanding; pingTimer has expired
  wait, reconnectDue,            \* currentReconnectWaitInterval and its timer
  handlers,       \* the topic is in messageHandlers
  tpc, tsaved, treplies,         \* T: where it blocks, deliver's clientState
  lpc, lop, lsaved, lretries,    \* L: where it is, what for, and its clientState
  lrc,            \* what the client returned to L last: "none", "ok", "error"
  link,           \* "up", "dead" (the other end is gone), "down" (TLS destroyed)
  partial,        \* the link died within a packet
  network,        \* the server can be reached
  subscribed,     \* the server knows the subscription on this connection
  inbox,          \* what the server has sent: commands and PINGRESPs
  faults,
  passed,         \* history: TLS took the packet that L sent last
  overlap,        \* history: L claimed the client while T ran its callback
  clash,          \* history: T woke up while L held the mutex
  resubFailed     \* history: resubscribing on this connection failed

timers == <<pingOutstanding, pingDue, wait, reconnectDue>>
lVars == <<held, handlers, lpc, lop, lsaved, lretries, lrc, passed, overlap>>
callback == <<tsaved, treplies>>
server == <<partial, network, subscribed, inbox, faults, resubFailed>>
vars == <<clientState, writeBuf, timers, tpc, callback, lVars, link, server, clash>>

(* aws_iot_mqtt_is_client_connected (UNSUBSCRIBE is never entered).        *)
Connected == {"IDLE", "YIELD", "PUBLISH", "SUBSCRIBE", "RESUBSCRIBE", "WAIT_FOR_CB"}

(* T is in send_packet; the packet has the name of the place.              *)
TWriting == tpc \in {"reply", "ping", "disconnect", "connect", "resubscribe"}

Claimed(op) == IF op = "publish" THEN "PUBLISH" ELSE "SUBSCRIBE"

(* aws_iot_mqtt_set_client_state in the hands of T: the state it leaves.   *)
Cas(s, from, to) == IF s = from /\ ~held THEN to ELSE s

Init ==
  /\ clientState = "IDLE" /\ held = FALSE /\ writeBuf = "connect"
  /\ pingOutstanding = FALSE /\ pingDue = FALSE
  /\ wait = MinWait /\ reconnectDue = FALSE
  /\ handlers = FALSE
  /\ tpc = "sleep" /\ tsaved = "IDLE" /\ treplies = 0
  /\ lpc = "setup" /\ lop = "subscribe" /\ lsaved = "IDLE" /\ lretries = 0
  /\ lrc = "none" /\ passed = FALSE
  /\ link = "up" /\ partial = FALSE /\ network = TRUE
  /\ subscribed = FALSE /\ inbox = << >> /\ faults = 0
  /\ overlap = FALSE /\ clash = FALSE /\ resubFailed = FALSE

-----------------------------------------------------------------------------
(* T.  It leaves the client's state s and blocks next at p.                *)

TReaches(s, p) ==
  /\ clientState' = s /\ tpc' = p
  /\ clash' = (clash \/ held)
  /\ UNCHANGED lVars

(* The way out of aws_iot_mqtt_yield.                                      *)
Leave(s) == TReaches(Cas(s, "YIELD", "IDLE"), "sleep")

(* aws_iot_task calls yield on an idle client; in any other state but      *)
(* PENDING_RECONNECT yield returns at once.                                *)
Yield ==
  /\ tpc = "sleep" /\ clientState = "IDLE"
  /\ TReaches(Cas("IDLE", "IDLE", "YIELD"), IF held THEN "sleep" ELSE "read")
  /\ UNCHANGED <<writeBuf, timers, callback, link, server>>

(* _aws_iot_mqtt_handle_disconnect: a DISCONNECT packet first, or, when    *)
(* the state cannot be changed, the stack is closed by force.  Then the    *)
(* way on to PENDING_RECONNECT fails as well.                              *)
HandleDisconnect ==
  /\ UNCHANGED <<timers, server>>
  /\ \/ /\ ~held
        /\ TReaches("DISCONNECTING", "disconnect")
        /\ writeBuf' = "disconnect" /\ UNCHANGED link
     \/ /\ held
        /\ TReaches("DISCONNECTED_ERROR", "sleep")
        /\ link' = "down" /\ UNCHANGED writeBuf

(* Mutant: a ping without an answer is followed by another one.            *)
KeepAliveAgain(s) ==
  \/ /\ ~pingDue
     /\ TReaches(s, "read") \/ Leave(s)
     /\ UNCHANGED <<writeBuf, timers, link, server>>
  \/ /\ pingDue
     /\ TReaches(s, "ping")
     /\ writeBuf' = "ping" /\ UNCHANGED <<timers, link, server>>

(* _aws_iot_mqtt_keep_alive after a cycle of yield, then the next cycle    *)
(* or, when the time of the yield is over, the way out.                    *)
KeepAlive(s) ==
  \/ /\ ~pingDue
     /\ TReaches(s, "read") \/ Leave(s)
     /\ UNCHANGED <<writeBuf, timers, link, server>>
  \/ /\ pingDue /\ ~pingOutstanding
     /\ TReaches(s, "ping")
     /\ writeBuf' = "ping" /\ UNCHANGED <<timers, link, server>>
  \/ /\ pingDue /\ pingOutstanding
     /\ HandleDisconnect

(* cycle_read finds nothing.                                               *)
ReadNothing ==
  /\ tpc = "read" /\ inbox = << >> /\ ~partial
  /\ KeepAlive(clientState)
  /\ UNCHANGED callback

(* The connection was reset between two packets.                           *)
ReadReset ==
  /\ tpc = "read" /\ inbox = << >> /\ ~partial /\ link = "dead"
  /\ HandleDisconnect
  /\ UNCHANGED callback

(* Within a packet read_packet turns every error into FAILURE, on which    *)
(* yield returns: neither a disconnect nor keep_alive.                     *)
ReadPartial ==
  /\ tpc = "read" /\ inbox = << >> /\ partial
  /\ Leave(clientState)
  /\ UNCHANGED <<writeBuf, timers, callback, link, server>>

(* A PINGRESP; keep_alive has nothing to do then.                          *)
ReadPong ==
  /\ tpc = "read" /\ inbox # << >> /\ Head(inbox) = "pong"
  /\ inbox' = Tail(inbox)
  /\ pingOutstanding' = FALSE /\ pingDue' = FALSE
  /\ TReaches(clientState, "read") \/ Leave(clientState)
  /\ UNCHANGED <<writeBuf, wait, reconnectDue, callback, link, partial, network,
                 subscribed, faults, resubFailed>>

(* A PUBLISH: deliver_message calls the handler of the hub.                *)
ReadCommand ==
  /\ tpc = "read" /\ inbox # << >> /\ Head(inbox) = "command"
  /\ inbox' = Tail(inbox)
  /\ TReaches(Cas(clientState, clientState, "WAIT_FOR_CB"), "callback")
  /\ tsaved' = clientState /\ UNCHANGED treplies
  /\ UNCHANGED <<writeBuf, timers, link, partial, network, subscribed, faults,
                 resubFailed>>

(* The handler publishes.  A client it finds busy makes hubPublish give up *)
(* after its retries; it never finds the client idle.                      *)
Reply ==
  /\ tpc = "callback" /\ treplies < MaxReplies
  /\ treplies' = treplies + 1
  /\ IF clientState = "WAIT_FOR_CB" /\ ~held
       THEN TReaches("PUBLISH", "reply") /\ writeBuf' = "reply"
       ELSE TReaches(clientState, "callback") /\ UNCHANGED writeBuf
  /\ UNCHANGED <<timers, tsaved, link, server>>

ReplySent ==
  /\ tpc = "reply"
  /\ TReaches(Cas(clientState, "PUBLISH", "WAIT_FOR_CB"), "callback")
  /\ UNCHANGED <<writeBuf, timers, callback, link, server>>

(* The handler returns; when deliver_message cannot restore the state,     *)
(* yield returns its error.                                                *)
CallbackReturn ==
  /\ tpc = "callback"
  /\ IF clientState = "WAIT_FOR_CB" /\ ~held
       THEN KeepAlive(tsaved)
       ELSE Leave(clientState) /\ UNCHANGED <<writeBuf, timers, link, server>>
  /\ treplies' = 0 /\ UNCHANGED tsaved

(* send_packet returns SUCCESS whatever became of the ping: rc is          *)
(* overwritten by the result of unlocking tls_write_mutex.                 *)
PingSent ==
  /\ tpc = "ping"
  /\ pingOutstanding' = TRUE /\ pingDue' = FALSE
  /\ TReaches(clientState, "read") \/ Leave(clientState)
  /\ UNCHANGED <<writeBuf, wait, reconnectDue, callback, link, server>>

(* The end of an orderly disconnect; the first reconnect is scheduled.     *)
Disconnected ==
  /\ tpc = "disconnect"
  /\ link' = "down"
  /\ TReaches(Cas("DISCONNECTED_ERROR", "DISCONNECTED_ERROR", "PENDING"), "sleep")
  /\ wait' = IF held THEN wait ELSE MinWait
  /\ reconnectDue' = (held /\ reconnectDue)
  /\ UNCHANGED <<writeBuf, pingOutstanding, pingDue, callback, server>>

-----------------------------------------------------------------------------
(* T: _aws_iot_mqtt_handle_reconnect *)

(* Past MaxWait the timer is not armed again and yield refuses for good.   *)
BackOff ==
  /\ wait' = 2 * wait
  /\ reconnectDue' = (reconnectDue /\ 2 * wait > MaxWait)

Reconnect ==
  /\ tpc = "sleep" /\ clientState = "PENDING"
  /\ wait <= MaxWait /\ reconnectDue
  /\ TReaches(Cas("PENDING", "PENDING", "CONNECTING"), "tls")
  /\ UNCHANGED <<writeBuf, timers, callback, link, server>>

(* Mutant: the state stays what connect left of it.                        *)
ConnectFailsForGood ==
  /\ link' = "down"
  /\ TReaches(Cas(clientState, "CONNECTING", "DISCONNECTED_ERROR"), "sleep")
  /\ BackOff
  /\ UNCHANGED <<writeBuf, pingOutstanding, pingDue, callback, server>>

ConnectFails ==
  /\ link' = "down"
  /\ TReaches(Cas(Cas(clientState, "CONNECTING", "DISCONNECTED_ERROR"),
                  "DISCONNECTED_ERROR", "PENDING"), "sleep")
  /\ BackOff
  /\ UNCHANGED <<writeBuf, pingOutstanding, pingDue, callback, server>>

TlsConnected ==
  /\ tpc = "tls" /\ network
  /\ link' = "up" /\ partial' = FALSE /\ inbox' = << >> /\ subscribed' = FALSE
  /\ resubFailed' = FALSE
  /\ writeBuf' = "connect"
  /\ TReaches(clientState, "connect")
  /\ UNCHANGED <<timers, callback, network, faults>>

TlsRefused ==
  /\ tpc = "tls" /\ ~network
  /\ ConnectFails

(* Connected again, T is in its yield, whose time may be over.             *)
BackInYield == TReaches("YIELD", "read") \/ TReaches("IDLE", "sleep")

(* Mutant: no resubscription after CONNACK.                                *)
ConnackOnly ==
  /\ tpc = "connect" /\ link = "up"
  /\ pingOutstanding' = FALSE /\ pingDue' = FALSE
  /\ IF clientState = "CONNECTING" /\ ~held
       THEN BackInYield /\ UNCHANGED <<wait, reconnectDue>>
       ELSE TReaches(clientState, "sleep") /\ BackOff
  /\ UNCHANGED <<writeBuf, callback, link, server>>

(* CONNACK; then aws_iot_mqtt_resubscribe, which has nothing to send when  *)
(* no handler is registered.                                               *)
Connack ==
  /\ tpc = "connect" /\ link = "up"
  /\ pingOutstanding' = FALSE /\ pingDue' = FALSE
  /\ IF clientState = "CONNECTING" /\ ~held
       THEN /\ IF handlers
                 THEN TReaches("RESUBSCRIBE", "resubscribe") /\ writeBuf' = "resubscribe"
                 ELSE BackInYield /\ UNCHANGED writeBuf
            /\ UNCHANGED <<wait, reconnectDue>>
       ELSE TReaches(clientState, "sleep") /\ BackOff /\ UNCHANGED writeBuf
  /\ UNCHANGED <<callback, link, server>>

NoConnack ==
  /\ tpc = "connect" /\ link = "dead"
  /\ ConnectFails

(* SUBACK: the way back to IDLE and on to YIELD_IN_PROGRESS.               *)
Resubscribed ==
  /\ tpc = "resubscribe" /\ link = "up"
  /\ subscribed' = TRUE
  /\ IF held
       THEN TReaches(clientState, "sleep") /\ BackOff
       ELSE BackInYield /\ UNCHANGED <<wait, reconnectDue>>
  /\ UNCHANGED <<writeBuf, pingOutstanding, pingDue, callback, link, partial,
                 network, inbox, faults, resubFailed>>

(* Mutant: the early return of a failed resubscription forgets the state.  *)
ResubscribeAborts ==
  /\ tpc = "resubscribe"
  /\ link = "dead" \/ faults < MaxFaults
  /\ faults' = IF link = "dead" THEN faults ELSE faults + 1
  /\ resubFailed' = TRUE
  /\ TReaches(clientState, "sleep")
  /\ BackOff
  /\ UNCHANGED <<writeBuf, pingOutstanding, pingDue, callback, link, partial,
                 network, subscribed, inbox>>

(* No SUBACK: attempt_reconnect returns the error, the client is idle and  *)
(* nobody subscribes again on this connection.                             *)
ResubscribeFails ==
  /\ tpc = "resubscribe"
  /\ link = "dead" \/ faults < MaxFaults
  /\ faults' = IF link = "dead" THEN faults ELSE faults + 1
  /\ resubFailed' = TRUE
  /\ TReaches(Cas(clientState, "RESUBSCRIBE", "IDLE"), "sleep")
  /\ BackOff
  /\ UNCHANGED <<writeBuf, pingOutstanding, pingDue, callback, link, partial,
                 network, subscribed, inbox>>

-----------------------------------------------------------------------------
(* L: subscribe() of setup(), then hubPublish() from loop(), one access    *)
(* each.  Both calls of the client have the same frame: see that it is     *)
(* idle or in a callback, claim it, send, and give it back.                *)

LReaches(p) ==
  /\ lpc' = p
  /\ UNCHANGED <<writeBuf, timers, tpc, callback, clash>>

LStays == <<lop, lsaved, lretries, lrc, passed, overlap, handlers>>
Env == <<link, server>>

(* The call is over: setup() freezes the hub when it failed, loop() goes on. *)
Over(rc) ==
  /\ lrc' = rc /\ lretries' = 0 /\ lsaved' = "IDLE"
  /\ LReaches(IF lop = "publish" \/ rc = "ok" THEN "loop" ELSE "frozen")

Subscribe ==
  /\ lpc = "setup"
  /\ LReaches("check")
  /\ UNCHANGED <<clientState, held, LStays, Env>>

Publish ==
  /\ lpc = "loop"
  /\ lop' = "publish" /\ lrc' = "none" /\ passed' = FALSE
  /\ LReaches("check")
  /\ UNCHANGED <<clientState, held, lsaved, lretries, overlap, handlers, Env>>

(* Mutant: the client is used in every state that counts as connected.     *)
CheckConnectedOnly ==
  /\ lpc = "check"
  /\ IF clientState \in Connected
       THEN lsaved' = clientState /\ LReaches("lock") /\ UNCHANGED <<lretries, lrc>>
       ELSE Over("error")
  /\ UNCHANGED <<clientState, held, lop, passed, overlap, handlers, Env>>

(* hubPublish tries again only on MQTT_CLIENT_NOT_IDLE_ERROR.              *)
Check ==
  /\ lpc = "check"
  /\ \/ /\ clientState \in {"IDLE", "WAIT_FOR_CB"}
        /\ lsaved' = clientState
        /\ LReaches("lock")
        /\ UNCHANGED <<lretries, lrc>>
     \/ /\ clientState \in Connected \ {"IDLE", "WAIT_FOR_CB"}
        /\ lop = "publish" /\ lretries < MaxRetries
        /\ lretries' = lretries + 1
        /\ LReaches("check")
        /\ UNCHANGED <<lsaved, lrc>>
     \/ /\ clientState \notin {"IDLE", "WAIT_FOR_CB"}
        /\ \/ clientState \notin Connected
           \/ lop = "subscribe"
           \/ lretries = MaxRetries
        /\ Over("error")
  /\ UNCHANGED <<clientState, held, lop, passed, overlap, handlers, Env>>

Lock ==
  /\ lpc \in {"lock", "giveBack"}
  /\ held' = TRUE
  /\ LReaches(IF lpc = "lock" THEN "compare" ELSE "restore")
  /\ UNCHANGED <<clientState, LStays, Env>>

(* Mutant: the client is claimed without comparing.                        *)
CompareNot ==
  /\ lpc = "compare"
  /\ clientState' = Claimed(lop)
  /\ overlap' = (overlap \/ lsaved = "WAIT_FOR_CB")
  /\ LReaches("claimed")
  /\ UNCHANGED <<held, lop, lsaved, lretries, lrc, passed, handlers, Env>>

Compare ==
  /\ lpc = "compare"
  /\ IF clientState = lsaved
       THEN /\ clientState' = Claimed(lop)
            /\ overlap' = (overlap \/ lsaved = "WAIT_FOR_CB")
            /\ LReaches("claimed")
       ELSE LReaches("refused") /\ UNCHANGED <<clientState, overlap>>
  /\ UNCHANGED <<held, lop, lsaved, lretries, lrc, passed, handlers, Env>>

Unlock ==
  /\ lpc \in {"claimed", "refused", "restored"}
  /\ held' = FALSE
  /\ \/ lpc = "claimed" /\ LReaches("serialise") /\ UNCHANGED <<lrc, lsaved, lretries>>
     \/ lpc = "refused" /\ Over("error")
     \/ lpc = "restored" /\ Over(lrc)
  /\ UNCHANGED <<clientState, lop, passed, overlap, handlers, Env>>

Serialise ==
  /\ lpc = "serialise"
  /\ writeBuf' = lop
  /\ lpc' = "write"
  /\ UNCHANGED <<timers, tpc, callback, clash, clientState, held, LStays, Env>>

(* send_packet under tls_write_mutex.  A live link takes the packet, a     *)
(* dead one may or may not; either way send_packet returns SUCCESS.        *)
Sent ==
  /\ lpc = "write"
  /\ passed' \in {TRUE, link = "up"}
  /\ lrc' = "ok"
  /\ LReaches(IF lop = "subscribe" THEN "suback" ELSE "giveBack")
  /\ UNCHANGED <<clientState, held, lop, lsaved, lretries, overlap, handlers, Env>>

(* wait_for_read(SUBACK): the handler is registered after it.              *)
Suback ==
  /\ lpc = "suback"
  /\ \/ /\ link = "up"
        /\ subscribed' = TRUE /\ handlers' = TRUE
        /\ UNCHANGED <<lrc, faults>>
     \/ /\ link = "dead" \/ faults < MaxFaults
        /\ faults' = IF link = "dead" THEN faults ELSE faults + 1
        /\ lrc' = "error"
        /\ UNCHANGED <<subscribed, handlers>>
  /\ LReaches("giveBack")
  /\ UNCHANGED <<clientState, held, lop, lsaved, lretries, passed, overlap, link,
                 partial, network, inbox, resubFailed>>

(* The state from before the call, in a callback that may be over.         *)
Restore ==
  /\ lpc = "restore"
  /\ IF clientState = Claimed(lop)
       THEN clientState' = lsaved /\ UNCHANGED lrc
       ELSE lrc' = "error" /\ UNCHANGED clientState
  /\ LReaches("restored")
  /\ UNCHANGED <<held, lop, lsaved, lretries, passed, overlap, handlers, Env>>

-----------------------------------------------------------------------------
(* The server, the network and the clock *)

Outside == UNCHANGED <<clientState, writeBuf, wait, tpc, callback, lVars, clash,
                       resubFailed>>

ServerSends ==
  /\ link = "up" /\ Len(inbox) < MaxInbox
  /\ \/ subscribed /\ inbox' = Append(inbox, "command")
     \/ /\ pingOutstanding /\ \A i \in DOMAIN inbox : inbox[i] # "pong"
        /\ inbox' = Append(inbox, "pong")
  /\ Outside
  /\ UNCHANGED <<pingOutstanding, pingDue, reconnectDue, link, partial, network,
                 subscribed, faults>>

(* The connection is lost, alone or with the network, between two packets  *)
(* or within one.                                                          *)
LinkDies ==
  /\ link = "up" /\ faults < MaxFaults
  /\ link' = "dead" /\ faults' = faults + 1
  /\ network' \in BOOLEAN
  /\ partial' \in {FALSE, subscribed}
  /\ Outside
  /\ UNCHANGED <<pingOutstanding, pingDue, reconnectDue, subscribed, inbox>>

NetworkReturns ==
  /\ ~network /\ network' = TRUE
  /\ Outside
  /\ UNCHANGED <<pingOutstanding, pingDue, reconnectDue, link, partial,
                 subscribed, inbox, faults>>

PingTimer ==
  /\ ~pingDue /\ link # "down" /\ pingDue' = TRUE
  /\ Outside
  /\ UNCHANGED <<pingOutstanding, reconnectDue, link, partial, network, subscribed,
                 inbox, faults>>

ReconnectTimer ==
  /\ ~reconnectDue /\ clientState = "PENDING" /\ reconnectDue' = TRUE
  /\ Outside
  /\ UNCHANGED <<pingOutstanding, pingDue, link, partial, network, subscribed,
                 inbox, faults>>

-----------------------------------------------------------------------------
(* What T does while it is awake, by itself or when the server answers.    *)
TAwake ==
  \/ ReadNothing \/ ReadReset \/ ReadPartial \/ ReadPong \/ ReadCommand
  \/ ReplySent \/ CallbackReturn \/ PingSent \/ Disconnected
  \/ TlsConnected \/ TlsRefused \/ Connack \/ NoConnack
  \/ Resubscribed \/ ResubscribeFails

TNext == Yield \/ Reconnect \/ TAwake \/ Reply

LCall ==
  \/ Check \/ Lock \/ Compare \/ Unlock \/ Serialise \/ Sent \/ Suback \/ Restore

LNext == Subscribe \/ Publish \/ LCall

EnvNext == ServerSends \/ LinkDies \/ NetworkReturns \/ PingTimer \/ ReconnectTimer

Next == TNext \/ LNext \/ EnvNext

Spec == Init /\ [][Next]_vars

(* Calls that block return (5 ms, 5 s for TLS, 20 s for an answer); L runs *)
(* whenever T blocks; timers expire.  aws_iot_task finds the client idle   *)
(* again and again between L's publishes and is not kept from one of these *)
(* moments for ever (strong fairness).  Nobody has to publish.             *)
FairSpec ==
  /\ Spec
  /\ WF_vars(TAwake) /\ WF_vars(LCall) /\ WF_vars(Subscribe)
  /\ SF_vars(Yield) /\ SF_vars(Reconnect)
  /\ WF_vars(PingTimer) /\ WF_vars(ReconnectTimer)

-----------------------------------------------------------------------------
(* Properties *)

ClientStates ==
  Connected \cup {"PENDING", "CONNECTING", "DISCONNECTING", "DISCONNECTED_ERROR"}

TypeOK ==
  /\ clientState \in ClientStates
  /\ held \in BOOLEAN /\ handlers \in BOOLEAN
  /\ writeBuf \in {"connect", "resubscribe", "ping", "disconnect", "reply",
                   "publish", "subscribe"}
  /\ pingOutstanding \in BOOLEAN /\ pingDue \in BOOLEAN
  /\ wait \in Nat /\ reconnectDue \in BOOLEAN
  /\ tpc \in {"sleep", "read", "callback", "reply", "ping", "disconnect", "tls",
              "connect", "resubscribe"}
  /\ tsaved \in ClientStates /\ treplies \in 0 .. MaxReplies
  /\ lpc \in {"setup", "loop", "frozen", "check", "lock", "compare", "claimed",
              "refused", "serialise", "write", "suback", "giveBack", "restore",
              "restored"}
  /\ lop \in {"publish", "subscribe"} /\ lsaved \in {"IDLE", "WAIT_FOR_CB"}
  /\ lretries \in 0 .. MaxRetries /\ lrc \in {"none", "ok", "error"}
  /\ link \in {"up", "dead", "down"} /\ partial \in BOOLEAN
  /\ network \in BOOLEAN /\ subscribed \in BOOLEAN
  /\ inbox \in Seq({"command", "pong"}) /\ faults \in 0 .. MaxFaults
  /\ passed \in BOOLEAN /\ overlap \in BOOLEAN /\ clash \in BOOLEAN
  /\ resubFailed \in BOOLEAN

(* There is one write buffer, filled before tls_write_mutex is taken: what *)
(* a task sends is nevertheless the packet it has serialised, and the two  *)
(* never send at the same time, so that trying that mutex never fails.     *)
PacketsOwn ==
  /\ lpc = "write" => writeBuf = lop
  /\ TWriting => writeBuf = tpc
  /\ ~(lpc = "write" /\ TWriting)

(* Nobody reads or writes through a TLS context that was destroyed: T may  *)
(* close the connection between any two steps of L's call.                 *)
StackInUseIsAlive ==
  lpc \in {"write", "suback"} \/ tpc \in {"read", "reply", "ping"} => link # "down"

LInside == lpc \in {"claimed", "serialise", "write", "suback", "giveBack", "restore"}

(* While aws_iot_task sleeps and L is not within a call, the client is     *)
(* idle or about to reconnect, so that the next yield does something:      *)
(* unless T woke up while L held the state's mutex, or L claimed the       *)
(* client out of T's callback.                                             *)
RestIsUsable ==
  tpc = "sleep" /\ ~LInside /\ ~overlap /\ ~clash
    => clientState \in {"IDLE", "PENDING"}

(* A client that is idle on a connection is subscribed on it, once setup() *)
(* has subscribed and unless a resubscription failed, after which nothing  *)
(* repeats it.                                                             *)
IdleIsSubscribed ==
  clientState = "IDLE" /\ handlers => subscribed \/ resubFailed

(* The client has given up: the back-off has passed its maximum.           *)
GivenUp == clientState = "PENDING" /\ wait > MaxWait

Undisturbed == ~overlap /\ ~clash

(* A connection that died is closed in the end, by the read that fails or  *)
(* by the ping that nobody answers, unless the state was disturbed or the  *)
(* link died within a packet.                                              *)
DeathNoticed ==
  [](Undisturbed /\ ~(link = "dead" /\ partial)) => (link = "dead" ~> link # "dead")

(* With the network back for good a closed connection is opened again,     *)
(* unless the client has given up before.                                  *)
ConnectsAgain ==
  []Undisturbed /\ <>[]network => (link = "down" ~> link = "up" \/ GivenUp)

(* aws_iot_mqtt_publish: "In the case of a QoS 0 message the function      *)
(* returns after the message was successfully passed to the TLS layer".    *)
SuccessMeansPassed == lpc = "loop" /\ lrc = "ok" => passed
=============================================================================

-------------------------------- MODULE Timers --------------------------------
(***************************************************************************)
(* The two interval timers of loop(): lastPollTime with pollInterval and   *)
(* lastSendTime with sendInterval, on a millis() that wraps.  loop() tests *)
(* a timer, does the work, and moves the timer on; commands change the     *)
(* intervals, from the console between two passes of loop(), from MQTT in  *)
(* aws_iot_task at any moment.                                             *)
(***************************************************************************)
EXTENDS Naturals

CONSTANTS Wrap,             \* millis() counts modulo Wrap (2^32 msec)
          Second,           \* 1000 msec in ticks of the model
          MaxOwed,          \* bound: time lost in long passes, not yet made up
          PollRequests,     \* intervals that set_poll_interval asks for
          SendRequests,     \* intervals that set_send_interval asks for
          LongestInterval,  \* bound: no command asks for a longer one
          ConsoleCommands   \* commands typed at the console

HalfSecond == Second \div 2

\* Intervals and lost time fit in the clock; a pass may take any time.
ASSUME TimersAssumption ==
  /\ Wrap \in Nat /\ Second \in Nat /\ MaxOwed \in Nat /\ LongestInterval \in Nat
  /\ 2 <= Second /\ Second <= LongestInterval
  /\ LongestInterval + Second + MaxOwed < Wrap
  /\ PollRequests \subseteq 0 .. LongestInterval
  /\ SendRequests \subseteq 0 .. LongestInterval
  /\ ConsoleCommands \subseteq {"s", "set_poll_interval", "set_send_interval"}

VARIABLES
  now,                         \* millis()
  pollInterval, lastPollTime,
  sendInterval, lastSendTime,
  time,                        \* loop()'s local: when the work began, else 0
  pc,                          \* where loop() is
  spent,                       \* ticks of this pass of loop()
  owed,                        \* history: time lost in passes of over half a second
  pollRaced,                   \* history: a command changed pollInterval within doPolling()
  sendSet                      \* history: set_send_interval was used

intervals == <<pollInterval, sendInterval>>
timers == <<lastPollTime, lastSendTime>>
clock == <<now, spent, owed>>
history == <<pollRaced, sendSet>>
vars == <<clock, intervals, timers, time, pc, history>>

AtLeast(a, b) == IF a < b THEN b ELSE a

\* The sum of two unsigned times, which wraps.
Plus(t, d) == IF t + d < Wrap THEN t + d ELSE t + d - Wrap

\* The unsigned difference millis() - t.
Elapsed(t) == IF t <= now THEN now - t ELSE now + Wrap - t

Init ==
  /\ now = 0 /\ spent = 0 /\ owed = 0
  /\ pollInterval = Second /\ lastPollTime = 0
  /\ sendInterval = 0 /\ lastSendTime = 0
  /\ time = 0 /\ pc = "console"
  /\ pollRaced = FALSE /\ sendSet = FALSE

\* Time passes: in waits for boards, in delay(), on the network.
Tick ==
  /\ owed + spent < MaxOwed + HalfSecond
  /\ now' = Plus(now, 1)
  /\ spent' = spent + 1
  /\ UNCHANGED <<owed, intervals, timers, time, pc, history>>

-----------------------------------------------------------------------------
(* runCommand *)

SetPollInterval(i) ==
  /\ pollInterval' = AtLeast(i, HalfSecond)
  /\ UNCHANGED <<sendInterval, sendSet>>

SetSendInterval(i) ==
  /\ sendInterval' = i
  /\ pollInterval' = IF i < Second THEN HalfSecond ELSE Second
  /\ sendSet' = TRUE

StartSending ==
  /\ pollInterval' = Second
  /\ sendInterval' = Second
  /\ UNCHANGED sendSet

\* The console gives a command no arguments: an interval reads as 0.
ConsoleCommand ==
  /\ pc = "console"
  /\ \/ "s" \in ConsoleCommands /\ StartSending
     \/ "set_poll_interval" \in ConsoleCommands /\ SetPollInterval(0)
     \/ "set_send_interval" \in ConsoleCommands /\ SetSendInterval(0)
  /\ UNCHANGED <<clock, timers, time, pc, pollRaced>>

MqttCommand ==
  /\ \/ StartSending
     \/ \E i \in PollRequests : SetPollInterval(i)
     \/ \E i \in SendRequests : SetSendInterval(i)
  /\ pollRaced' = (pollRaced \/ (pc = "polling" /\ pollInterval' # pollInterval))
  /\ UNCHANGED <<clock, timers, time, pc>>

-----------------------------------------------------------------------------
(* loop() *)

ConsoleDone ==
  /\ pc = "console"
  /\ pc' = "polls"
  /\ UNCHANGED <<clock, intervals, timers, time, history>>

(* Mutant: the times are compared as they are.                             *)
IsDueAbsolute(last, interval) == interval # 0 /\ now > last + interval

IsDue(last, interval) == interval # 0 /\ Elapsed(last) > interval

StartPoll ==
  /\ pc = "polls" /\ IsDue(lastPollTime, pollInterval)
  /\ time' = now /\ pc' = "polling"
  /\ UNCHANGED <<clock, intervals, timers, history>>

SkipPoll ==
  /\ pc = "polls" /\ ~IsDue(lastPollTime, pollInterval)
  /\ pc' = "sends"
  /\ UNCHANGED <<clock, intervals, timers, time, history>>

(* Mutant: a timer that was never set is not told apart.                   *)
MovedOnAlways(last, interval) == Plus(last, interval)

\* Where a timer stands after its work; 0 means that it was never set.
MovedOn(last, interval) == IF last = 0 THEN time ELSE Plus(last, interval)

\* doPolling() returns; the interval is read again.
EndPoll ==
  /\ pc = "polling"
  /\ lastPollTime' = MovedOn(lastPollTime, pollInterval)
  /\ time' = 0 /\ pc' = "sends"
  /\ UNCHANGED <<clock, intervals, lastSendTime, history>>

StartSend ==
  /\ pc = "sends" /\ IsDue(lastSendTime, sendInterval)
  /\ time' = now /\ pc' = "sending"
  /\ UNCHANGED <<clock, intervals, timers, history>>

\* loop() returns.  A pass of over half a second, the shortest interval,
\* costs what it takes beyond; a shorter one makes up for earlier ones.
EndPass ==
  /\ pc' = "console" /\ spent' = 0
  /\ owed' = IF owed + spent > HalfSecond THEN owed + spent - HalfSecond ELSE 0

SkipSend ==
  /\ pc = "sends" /\ ~IsDue(lastSendTime, sendInterval)
  /\ EndPass
  /\ UNCHANGED <<now, intervals, timers, time, history>>

\* sendSensorValues() returns, and loop() with it.
EndSend ==
  /\ pc = "sending"
  /\ lastSendTime' = MovedOn(lastSendTime, sendInterval)
  /\ time' = 0
  /\ EndPass
  /\ UNCHANGED <<now, intervals, lastPollTime, history>>

Loop ==
  \/ ConsoleDone
  \/ StartPoll \/ SkipPoll \/ EndPoll
  \/ StartSend \/ SkipSend \/ EndSend

Next == Tick \/ ConsoleCommand \/ MqttCommand \/ Loop

\* loop() is called for ever and millis() counts on.
Spec == Init /\ [][Next]_vars /\ WF_vars(Loop) /\ WF_vars(Tick)

-----------------------------------------------------------------------------
(* Times and intervals are machine numbers and loop() is at one of its     *)
(* control points.                                                         *)
TypeOK ==
  /\ now \in 0 .. Wrap - 1 /\ time \in 0 .. Wrap - 1
  /\ lastPollTime \in 0 .. Wrap - 1 /\ lastSendTime \in 0 .. Wrap - 1
  /\ pollInterval \in HalfSecond .. LongestInterval
  /\ sendInterval \in 0 .. LongestInterval
  /\ pc \in {"console", "polls", "polling", "sends", "sending"}
  /\ owed \in 0 .. MaxOwed /\ spent \in 0 .. MaxOwed + HalfSecond
  /\ pollRaced \in BOOLEAN /\ sendSet \in BOOLEAN

(* Across the wrap of millis() and whatever intervals were set when,       *)
(* lastPollTime is never ahead of the clock, which would poll on every     *)
(* pass, and lags behind it by no more than an interval, this pass and     *)
(* half a second, and what long passes have cost and shorter ones have not *)
(* made up yet by polling one after another; unless a command came in the  *)
(* middle of doPolling().                                                  *)
PollsBehindClock ==
  ~pollRaced => Elapsed(lastPollTime) <= LongestInterval + HalfSecond + owed + spent

(* The same of lastSendTime, as long as values are sent once a second.     *)
SendsBehindClock ==
  ~sendSet /\ lastSendTime # 0 =>
    Elapsed(lastSendTime) <= Second + HalfSecond + owed + spent

(* Neither timer runs ahead of the clock, or drifts behind it for good.    *)
TimersBehindClock == PollsBehindClock /\ SendsBehindClock

(* Boards are polled again and again, whatever intervals are asked for:    *)
(* without polls nobody notices an unplugged board.  And while an interval *)
(* is set, values are sent again and again.                                *)
TimersGoOn ==
  /\ []<>(pc = "polling")
  /\ [](sendInterval # 0 => <>(pc = "sending" \/ sendInterval = 0))
=============================================================================

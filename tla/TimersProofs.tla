----------------------------- MODULE TimersProofs -----------------------------
(***************************************************************************)
(* The timers of loop() follow the clock, for every width of the clock,    *)
(* length of a second and of each pass, and whichever intervals are asked  *)
(* for.  Each control point of loop() bounds how far a timer lags: a pass  *)
(* begins with at most an interval, half a second and the time owed of     *)
(* lag, a pass without work leaves at most an interval and its own ticks,  *)
(* and work takes an interval, half a second or more, off a lag that       *)
(* exceeded it.                                                            *)
(***************************************************************************)
EXTENDS Timers, TLAPS

(* What the bounds below need of the variables' types.                     *)
Machine ==
  /\ now \in 0 .. Wrap - 1 /\ time \in 0 .. Wrap - 1
  /\ lastPollTime \in 0 .. Wrap - 1
  /\ pollInterval \in HalfSecond .. LongestInterval
  /\ pc \in {"console", "polls", "polling", "sends", "sending"}
  /\ owed \in 0 .. MaxOwed /\ spent \in Nat /\ owed + spent <= MaxOwed + HalfSecond

(* How far lastPollTime lags at each control point of loop().              *)
PollLag ==
  /\ pc \in {"console", "polls"} =>
       Elapsed(lastPollTime) <= LongestInterval + HalfSecond + owed + spent
  /\ pc = "polling" =>
       /\ pollInterval < Elapsed(lastPollTime)
       /\ Elapsed(lastPollTime) <= LongestInterval + HalfSecond + owed + spent
       /\ Elapsed(time) <= spent
  /\ pc \in {"sends", "sending"} => 
       Elapsed(lastPollTime) <= LongestInterval + owed + spent

(* The inductive invariant; a command that changes pollInterval within     *)
(* doPolling() takes it away for good.                                     *)
PollInv == Machine /\ (pollRaced = TRUE \/ PollLag)

\* What the assumption on the constants says, in terms of numbers.
LEMMA Sizes ==
  /\ Wrap \in Nat /\ Second \in Nat /\ MaxOwed \in Nat /\ HalfSecond \in Nat
  /\ LongestInterval \in Nat /\ Second <= LongestInterval
  /\ 0 < HalfSecond /\ HalfSecond + HalfSecond <= Second
  /\ LongestInterval + Second + MaxOwed < Wrap
  /\ \A i \in PollRequests : i \in 0 .. LongestInterval
  /\ \A i \in SendRequests : i \in 0 .. LongestInterval
<1>1. 0 < HalfSecond /\ HalfSecond \in Nat /\ HalfSecond + HalfSecond <= Second
  BY TimersAssumption DEF HalfSecond
<1>2. /\ \A i \in PollRequests : i \in 0 .. LongestInterval
      /\ \A i \in SendRequests : i \in 0 .. LongestInterval
  BY TimersAssumption, Zenon
<1> QED  BY <1>1, <1>2, TimersAssumption

USE DEF Elapsed, Plus

\* Moving a timer on takes the interval off its lag.
LEMMA ElapsedMoved ==
  ASSUME now \in 0 .. Wrap - 1, NEW t \in 0 .. Wrap - 1,
         NEW d \in 0 .. Wrap - 1, d <= Elapsed(t)
  PROVE  /\ Plus(t, d) \in 0 .. Wrap - 1
         /\ Elapsed(Plus(t, d)) = Elapsed(t) - d
  BY Sizes

\* Wherever it is moved on by an interval, a timer remains a time.
LEMMA MovedOnIsTime ==
  ASSUME NEW t \in 0 .. Wrap - 1, NEW d \in 0 .. LongestInterval, time \in 0 .. Wrap - 1
  PROVE  MovedOn(t, d) \in 0 .. Wrap - 1
  BY Sizes DEF MovedOn

\* The timer starts at zero, with the clock.
LEMMA PollStart == Init => PollInv
  BY Sizes DEF Init, PollInv, Machine, PollLag

\* A command leaves a legal poll interval and no timer touched; one that
\* comes within doPolling() and changes the interval is remembered.
LEMMA PollCommands ==
  ASSUME Machine, ConsoleCommand \/ MqttCommand
  PROVE  /\ pollInterval' \in HalfSecond .. LongestInterval
         /\ UNCHANGED <<now, spent, owed, time, lastPollTime, pc>>
         /\ pollRaced = TRUE => pollRaced' = TRUE
         /\ pc = "polling" /\ pollRaced' # TRUE => pollInterval' = pollInterval
<1> USE Sizes DEF Machine, StartSending, SetPollInterval, SetSendInterval, AtLeast, clock, timers
<1>1. CASE ConsoleCommand
  BY <1>1 DEF ConsoleCommand
<1>2. CASE MqttCommand
  <2>1. pollInterval' \in HalfSecond .. LongestInterval
    BY <1>2 DEF MqttCommand
  <2>2. UNCHANGED <<now, spent, owed, time, lastPollTime, pc>>
    BY <1>2 DEF MqttCommand
  <2>3. pollRaced' = (pollRaced \/ (pc = "polling" /\ pollInterval' # pollInterval))
    BY <1>2 DEF MqttCommand
  <2> QED  BY <2>1, <2>2, <2>3
<1> QED  BY <1>1, <1>2

\* Every step keeps the lag of lastPollTime bounded.
LEMMA PollStep ==
  ASSUME PollInv, [Next]_vars
  PROVE  PollInv'
<1> USE Sizes DEF PollInv, Machine, PollLag, history
<1>1. CASE Tick
  BY <1>1 DEF Tick, intervals, timers
<1>2. CASE ConsoleCommand \/ MqttCommand
  BY <1>2, PollCommands
<1>4. CASE ConsoleDone
  BY <1>4 DEF ConsoleDone, clock, intervals, timers
<1>5. CASE StartPoll
  BY <1>5 DEF StartPoll, IsDue, clock, intervals, timers
<1>6. CASE SkipPoll
  BY <1>6 DEF SkipPoll, IsDue, clock, intervals, timers
<1>7. CASE EndPoll
  <2>0. /\ lastPollTime' = MovedOn(lastPollTime, pollInterval) /\ time' = 0 /\ pc = "polling"
        /\ pc' = "sends" /\ UNCHANGED <<now, spent, owed, pollInterval, pollRaced>>
    BY <1>7 DEF EndPoll, clock, intervals
  <2>1. Machine'
    BY <2>0, MovedOnIsTime
  <2>2. ASSUME pollRaced # TRUE PROVE PollLag'
    <3>0. /\ pollInterval < Elapsed(lastPollTime)
          /\ Elapsed(lastPollTime) <= LongestInterval + HalfSecond + owed + spent
          /\ Elapsed(time) <= spent
      BY <2>0, <2>2
    <3>1. CASE lastPollTime = 0
      <4>1. lastPollTime' = time /\ now' = now
        BY <2>0, <3>1 DEF MovedOn
      <4>2. Elapsed(lastPollTime)' = Elapsed(time)
        BY <4>1
      <4> QED  BY <2>0, <3>0, <4>2
    <3>2. CASE lastPollTime # 0
      <4>1. lastPollTime' = Plus(lastPollTime, pollInterval) /\ now' = now
        BY <2>0, <3>2 DEF MovedOn
      <4>2. pollInterval \in 0 .. Wrap - 1
        OBVIOUS
      <4>3. Elapsed(lastPollTime)' = Elapsed(lastPollTime) - pollInterval
        BY <3>0, <4>1, <4>2, ElapsedMoved
      <4> QED  BY <2>0, <3>0, <4>3
    <3> QED  BY <3>1, <3>2
  <2> QED  BY <2>0, <2>1, <2>2
<1>8. CASE StartSend
  BY <1>8 DEF StartSend, clock, intervals, timers
<1>9. CASE SkipSend
  BY <1>9 DEF SkipSend, EndPass, intervals, timers
<1>10. CASE EndSend
  <2>1. time' = 0 /\ lastPollTime' = lastPollTime /\ now' = now
        /\ EndPass /\ UNCHANGED <<pollInterval, pollRaced>>
    BY <1>10 DEF EndSend, intervals
  <2>2. QED  BY <1>10, <2>1 DEF EndSend, EndPass
<1>11. CASE UNCHANGED vars
  BY <1>11 DEF vars, clock, intervals, timers
<1>12. QED
  BY <1>1, <1>2, <1>4, <1>5, <1>6, <1>7, <1>8, <1>9, <1>10, <1>11 DEF Next, Loop

-----------------------------------------------------------------------------
(* How far lastSendTime lags at each control point of loop(); it is set    *)
(* when values are first sent, and 0 again when the clock says so.         *)
SendLag ==
  /\ sendInterval \in {0, Second}
  /\ sendInterval = 0 => lastSendTime = 0 /\ pc # "sending"
  /\ pc = "sending" => Elapsed(time) <= spent
  /\ pc = "sending" /\ lastSendTime # 0 => sendInterval < Elapsed(lastSendTime)
  /\ lastSendTime # 0 => Elapsed(lastSendTime) <= Second + HalfSecond + owed + spent

(* The inductive invariant.                                                *)
SendInv ==
  /\ Machine
  /\ lastSendTime \in 0 .. Wrap - 1
  /\ sendInterval \in 0 .. LongestInterval
  /\ sendSet = TRUE \/ SendLag

\* No value was sent yet.
LEMMA SendStart == Init => SendInv
  BY Sizes DEF Init, SendInv, Machine, SendLag

\* A command leaves a legal send interval; only set_send_interval takes it
\* from what it was to anything but a second.
LEMMA SendCommands ==
  ASSUME Machine, sendInterval \in 0 .. LongestInterval, ConsoleCommand \/ MqttCommand
  PROVE  /\ sendInterval' \in 0 .. LongestInterval
         /\ UNCHANGED <<now, spent, owed, time, lastSendTime, pc>>
         /\ sendSet' = TRUE \/ (sendSet' = sendSet /\ sendInterval' \in {sendInterval, Second})
<1> USE Sizes DEF Machine, StartSending, SetPollInterval, SetSendInterval, clock, timers
<1>1. CASE ConsoleCommand
  BY <1>1 DEF ConsoleCommand
<1>2. CASE MqttCommand
  BY <1>2 DEF MqttCommand
<1> QED  BY <1>1, <1>2

\* Every step keeps the lag of lastSendTime bounded.
LEMMA SendStep ==
  ASSUME PollInv, SendInv, [Next]_vars
  PROVE  SendInv'
<1> USE Sizes DEF SendInv, SendLag, history
<1>0. Machine' /\ Machine
  BY PollStep DEF PollInv
<1> USE DEF Machine
<1>1. CASE Tick
  BY <1>0, <1>1 DEF Tick, intervals, timers
<1>2. CASE ConsoleCommand \/ MqttCommand
  BY <1>0, <1>2, SendCommands
<1>4. CASE ConsoleDone
  BY <1>0, <1>4 DEF ConsoleDone, clock, intervals, timers
<1>5. CASE StartPoll
  BY <1>0, <1>5 DEF StartPoll, clock, intervals, timers
<1>6. CASE SkipPoll
  BY <1>0, <1>6 DEF SkipPoll, clock, intervals, timers
<1>7. CASE EndPoll
  <2>1. /\ pc = "polling" /\ pc' = "sends"
        /\ UNCHANGED <<now, spent, owed, sendInterval, lastSendTime, sendSet>>
    BY <1>7 DEF EndPoll, clock, intervals
  <2> QED  BY <1>0, <2>1
<1>8. CASE StartSend
  BY <1>0, <1>8 DEF StartSend, IsDue, clock, intervals, timers
<1>9. CASE SkipSend
  BY <1>0, <1>9 DEF SkipSend, EndPass, IsDue, intervals, timers
<1>10. CASE EndSend
  <2>1. /\ time' = 0 /\ now' = now /\ pc = "sending" /\ EndPass
        /\ sendInterval' = sendInterval /\ sendSet' = sendSet
        /\ lastSendTime' = MovedOn(lastSendTime, sendInterval)
    BY <1>10 DEF EndSend, intervals
  <2>2. lastSendTime' \in 0 .. Wrap - 1
    BY <2>1, MovedOnIsTime
  <2>3. ASSUME sendSet # TRUE PROVE SendLag'
    <3>0. /\ sendInterval = Second /\ Elapsed(time) <= spent
          /\ lastSendTime # 0 => sendInterval < Elapsed(lastSendTime)
          /\ lastSendTime # 0 => Elapsed(lastSendTime) <= Second + HalfSecond + owed + spent
      BY <2>1, <2>3
    <3>1. CASE lastSendTime = 0
      <4>1. lastSendTime' = time /\ now' = now
        BY <2>1, <3>1 DEF MovedOn
      <4>2. Elapsed(lastSendTime)' = Elapsed(time)
        BY <4>1
      <4> QED  BY <1>0, <2>1, <3>0, <4>2 DEF EndPass
    <3>2. CASE lastSendTime # 0
      <4>1. lastSendTime' = Plus(lastSendTime, sendInterval) /\ now' = now
        BY <2>1, <3>2 DEF MovedOn
      <4>2. sendInterval \in 0 .. Wrap - 1
        OBVIOUS
      <4>3. Elapsed(lastSendTime)' = Elapsed(lastSendTime) - sendInterval
        BY <3>0, <3>2, <4>1, <4>2, ElapsedMoved
      <4> QED  BY <1>0, <2>1, <3>0, <3>2, <4>3 DEF EndPass
    <3> QED  BY <3>1, <3>2
  <2> QED  BY <1>0, <2>1, <2>2, <2>3
<1>11. CASE UNCHANGED vars
  BY <1>0, <1>11 DEF vars, clock, intervals, timers
<1>12. QED
  BY <1>1, <1>2, <1>4, <1>5, <1>6, <1>7, <1>8, <1>9, <1>10, <1>11 DEF Next, Loop

(* Both invariants hold throughout.                                        *)
LEMMA BothHold == Spec => [](PollInv /\ SendInv)
<1>1. Init /\ [][Next]_vars => [](PollInv /\ SendInv)
  BY PollStart, SendStart, PollStep, SendStep, PTL
<1>2. QED  BY <1>1, PTL DEF Spec

(* Polls follow the clock across its wrap, behind it by no more than an    *)
(* interval and what long passes have cost, as long as no command changes  *)
(* the interval in the middle of doPolling(); sends do, as long as values  *)
(* are sent once a second.                                                 *)
THEOREM TimersFollowClock == Spec => []TimersBehindClock
<1>1. PollInv => PollsBehindClock
  BY Sizes DEF PollInv, Machine, PollLag, PollsBehindClock
<1>2. SendInv => SendsBehindClock
  BY Sizes DEF SendInv, Machine, SendLag, SendsBehindClock
<1>3. QED  BY <1>1, <1>2, BothHold, PTL DEF TimersBehindClock

(* The rest of TypeOK: the two history flags are flags.                    *)
Flagged == pollRaced \in BOOLEAN /\ sendSet \in BOOLEAN

(* TypeOK: times and intervals are machine numbers, and no command brings  *)
(* an interval out of its limits.                                          *)
THEOREM TypeCorrect == Spec => []TypeOK
<1>1. Init => Flagged
  BY DEF Init, Flagged
<1>2. Flagged /\ [Next]_vars => Flagged'
  BY DEF Flagged, Next, Loop, Tick, ConsoleCommand, MqttCommand, StartSending,
    SetPollInterval, SetSendInterval, ConsoleDone, StartPoll, SkipPoll, EndPoll,
    StartSend, SkipSend, EndSend, EndPass, history, vars
<1>3. PollInv /\ SendInv /\ Flagged => TypeOK
  BY Sizes DEF PollInv, SendInv, Machine, Flagged, TypeOK
<1>4. Spec => []Flagged
  BY <1>1, <1>2, PTL DEF Spec
<1>5. QED  BY <1>3, <1>4, BothHold, PTL
=============================================================================

------------------------------ MODULE QueueRace ------------------------------
(***************************************************************************)
(* The AWS build: the MQTT handler pushes requests from aws_iot_task and   *)
(* loop() pops them, and pushes the console's own, without any lock.  Both *)
(* tasks run on core 1, aws_iot_task with the higher priority, so it can   *)
(* interrupt loop() between any two instructions and its try_push is never *)
(* interrupted by loop().  A try_pop or try_push of loop() is therefore    *)
(* the sequence of its loads and stores, one of aws_iot_task is one step.  *)
(***************************************************************************)
EXTENDS QueueRing

(* Requests are numbered from 1; 0 in a slot: none.                        *)
CONSTANT MaxPushes  \* bound: requests accepted in a behaviour

ASSUME RaceAssumption == MaxPushes \in Nat

VARIABLES
  overrun,                   \* a slot past the end of the array was written
  pc,                        \* where loop() is in try_pop or try_push
  reg,                       \* the index or count it has loaded
  item,                      \* the request it pops or pushes
  accepted,                  \* number of pushes that returned true
  handled,                   \* requests processed by loop(), in order
  console                    \* history: loop() has pushed a request of the console

ring == <<front, back, count, data, overrun>>
loopVars == <<pc, reg, item>>
raceVars == <<ring, loopVars, accepted, handled, console>>

RaceInit ==
  /\ front = 0 /\ back = 0 /\ count = 0
  /\ data = [i \in Slots |-> 0]
  /\ overrun = FALSE
  /\ pc = "idle" /\ reg = 0 /\ item = 0
  /\ accepted = 0 /\ handled = << >>
  /\ console = FALSE

Write(i, r) ==
  /\ data' = IF i \in Slots THEN [data EXCEPT ![i] = r] ELSE data
  /\ overrun' = (overrun \/ i \notin Slots)

(* aws_iot_task, anywhere in loop(): try_push of handleIncomingMessage or  *)
(* runCommand; a full queue refuses.                                       *)
AwsPush ==
  /\ accepted < MaxPushes
  /\ count < MAX_SIZE
  /\ accepted' = accepted + 1
  /\ Write(back, accepted')
  /\ back' = Wrap(back + 1)
  /\ count' = count + 1
  /\ UNCHANGED <<front, loopVars, handled, console>>

-----------------------------------------------------------------------------
(* loop(): if (count() > 0) try_pop() *)

(* Mutant: loop() pops without looking at the count.                       *)
PopCheckBlind ==
  /\ pc = "idle"
  /\ pc' = "copy"
  /\ UNCHANGED <<ring, reg, item, accepted, handled, console>>

PopCheck ==
  /\ pc = "idle" /\ count > 0
  /\ pc' = "copy"
  /\ UNCHANGED <<ring, reg, item, accepted, handled, console>>

PopCopy ==
  /\ pc = "copy"
  /\ item' = data[front]
  /\ front' = front + 1
  /\ pc' = "loadCount"
  /\ UNCHANGED <<back, count, data, overrun, reg, accepted, handled, console>>

PopLoadCount ==
  /\ pc = "loadCount"
  /\ reg' = count
  /\ pc' = "storeCount"
  /\ UNCHANGED <<ring, item, accepted, handled, console>>

(* Mutant: the count is not decremented.                                   *)
PopStoreNothing ==
  /\ pc = "storeCount"
  /\ pc' = "wrapFront"
  /\ UNCHANGED <<ring, reg, item, accepted, handled, console>>

PopStoreCount ==
  /\ pc = "storeCount"
  /\ count' = reg - 1
  /\ pc' = "wrapFront"
  /\ UNCHANGED <<front, back, data, overrun, reg, item, accepted, handled, console>>

(* The wrap, the return and the request's processing.                      *)
PopReturn ==
  /\ pc = "wrapFront"
  /\ front' = Wrap(front)
  /\ handled' = Append(handled, item)
  /\ pc' = "idle" /\ reg' = 0 /\ item' = 0
  /\ UNCHANGED <<back, count, data, overrun, accepted, console>>

-----------------------------------------------------------------------------
(* loop(): req_status typed at the console; try_push *)

PushCheck ==
  /\ pc = "idle"
  /\ accepted < MaxPushes
  /\ count < MAX_SIZE
  /\ accepted' = accepted + 1
  /\ item' = accepted'
  /\ pc' = "recheck"
  /\ console' = TRUE
  /\ UNCHANGED <<ring, reg, handled>>

(* push() tests the count again and silently drops the item when full.     *)
PushRecheck ==
  /\ pc = "recheck"
  /\ \/ /\ count < MAX_SIZE
        /\ pc' = "loadBack" /\ UNCHANGED item
     \/ /\ count >= MAX_SIZE
        /\ pc' = "idle" /\ item' = 0
  /\ UNCHANGED <<ring, reg, accepted, handled, console>>

PushLoadBack ==
  /\ pc = "loadBack"
  /\ reg' = back
  /\ pc' = "storeBack"
  /\ UNCHANGED <<ring, item, accepted, handled, console>>

PushStoreBack ==
  /\ pc = "storeBack"
  /\ back' = reg + 1
  /\ pc' = "assign"
  /\ UNCHANGED <<front, count, data, overrun, reg, item, accepted, handled, console>>

PushAssign ==
  /\ pc = "assign"
  /\ Write(reg, item)
  /\ pc' = "loadCount2"
  /\ UNCHANGED <<front, back, count, reg, item, accepted, handled, console>>

PushLoadCount ==
  /\ pc = "loadCount2"
  /\ reg' = count
  /\ pc' = "storeCount2"
  /\ UNCHANGED <<ring, item, accepted, handled, console>>

PushStoreCount ==
  /\ pc = "storeCount2"
  /\ count' = reg + 1
  /\ pc' = "wrapBack"
  /\ UNCHANGED <<front, back, data, overrun, reg, item, accepted, handled, console>>

PushReturn ==
  /\ pc = "wrapBack"
  /\ back' = Wrap(back)
  /\ pc' = "idle" /\ reg' = 0 /\ item' = 0
  /\ UNCHANGED <<front, count, data, overrun, accepted, handled, console>>

-----------------------------------------------------------------------------
LoopPop  == PopCheck \/ PopCopy \/ PopLoadCount \/ PopStoreCount \/ PopReturn
LoopPush == \/ PushCheck \/ PushRecheck \/ PushLoadBack \/ PushStoreBack \/ PushAssign
            \/ PushLoadCount \/ PushStoreCount \/ PushReturn

RaceNext == AwsPush \/ LoopPop \/ LoopPush

RaceSpec == RaceInit /\ [][RaceNext]_raceVars

-----------------------------------------------------------------------------
(* Every variable keeps its kind.                                          *)
RaceTypeOK ==
  /\ front \in 0 .. MAX_SIZE + 1 /\ back \in 0 .. MAX_SIZE + 1
  /\ count \in 0 .. MAX_SIZE + 1
  /\ data \in [Slots -> 0 .. MaxPushes]
  /\ overrun \in BOOLEAN
  /\ pc \in {"idle", "copy", "loadCount", "storeCount", "wrapFront", "recheck",
             "loadBack", "storeBack", "assign", "loadCount2", "storeCount2", "wrapBack"}
  /\ reg \in 0 .. MAX_SIZE + 1
  /\ item \in 0 .. MaxPushes
  /\ accepted \in 0 .. MaxPushes
  /\ handled \in Seq(0 .. MaxPushes)
  /\ console \in BOOLEAN

(* As long as the pushes come from aws_iot_task alone, no interruption     *)
(* makes push write past the array, and try_pop on count > 0 yields a      *)
(* request that was pushed, never an unwritten slot.                       *)
AwsRequestsValid ==
  ~console => /\ ~overrun
              /\ \A i \in DOMAIN handled : handled[i] \in 1 .. accepted

(* Whoever pushes, count never promises more requests than were accepted   *)
(* and not yet handled, and a push that lost its race overfills the ring   *)
(* by one item at most: loop() is the only one that can be interrupted     *)
(* between its test and its increment.                                     *)
CountNeverOverstates ==
  /\ pc = "idle" => count <= accepted - Len(handled)
  /\ count <= MAX_SIZE + 1
  /\ count > MAX_SIZE => console
=============================================================================

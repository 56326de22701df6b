----------------------------- MODULE QueueProofs -----------------------------
(***************************************************************************)
(* Proofs about the request queue, for every size of the ring: used by one *)
(* caller at a time (ProcessingQueue), and by two tasks (QueueRace).       *)
(***************************************************************************)
EXTENDS ProcessingQueue, QueueRace, SequenceTheorems, TLAPS

USE RingAssumption, QueueAssumption, RaceAssumption DEF Slots

IndInv == TypeOK /\ CountIsDistance /\ QueuedWerePushed

(* An index at most one lap ahead wraps into the ring.                     *)
LEMMA WrapIntoRing ==
  ASSUME NEW i \in 0 .. 2 * MAX_SIZE + 1
  PROVE  Wrap(i) \in Slots
BY DEF Wrap

(* Different indices less than a lap apart wrap to different slots.        *)
LEMMA WrapApart ==
  ASSUME NEW i \in Nat, NEW j \in Nat, i < j, j - i <= MAX_SIZE, j <= 2 * MAX_SIZE + 1
  PROVE  Wrap(i) # Wrap(j)
BY DEF Wrap

(* Wrapping an index before or after a step of the way makes no            *)
(* difference.                                                             *)
LEMMA WrapStep ==
  ASSUME NEW i \in Slots, NEW n \in 0 .. MAX_SIZE
  PROVE  /\ Wrap(Wrap(i + n) + 1) = Wrap(i + n + 1)
         /\ Wrap(Wrap(i + 1) + n) = Wrap(i + n + 1) \/ n = MAX_SIZE
         /\ n >= 1 => Wrap(Wrap(i + 1) + (n - 1)) = Wrap(i + n)
BY DEF Wrap

(* A function on 1 .. n is a sequence; what Tail and Append make of one.    *)
LEMMA IsSequence ==
  ASSUME NEW S, NEW n \in Nat, NEW f \in [1 .. n -> S]
  PROVE  f \in Seq(S) /\ Len(f) = n
OBVIOUS

(* What Tail leaves of a sequence.                                         *)
LEMMA TailIs ==
  ASSUME NEW S, NEW s \in Seq(S), s # << >>
  PROVE  Tail(s) = [i \in 1 .. Len(s) - 1 |-> s[i + 1]]
<1>1. /\ Tail(s) \in Seq(S) /\ Len(Tail(s)) = Len(s) - 1 /\ Len(s) \in Nat
      /\ \A i \in 1 .. Len(s) - 1 : Tail(s)[i] = s[i + 1]
    BY HeadTailProperties, LenProperties
<1>2. Tail(s) \in [1 .. Len(s) - 1 -> S]  BY <1>1, LenProperties
<1> QED  BY <1>1, <1>2

(* What Append makes of a sequence.                                        *)
LEMMA AppendIs ==
  ASSUME NEW S, NEW s \in Seq(S), NEW e \in S
  PROVE  Append(s, e) = [i \in 1 .. Len(s) + 1 |-> IF i = Len(s) + 1 THEN e ELSE s[i]]
<1>1. /\ Append(s, e) \in Seq(S) /\ Len(Append(s, e)) = Len(s) + 1 /\ Len(s) \in Nat
      /\ \A i \in 1 .. Len(s) : Append(s, e)[i] = s[i]
      /\ Append(s, e)[Len(s) + 1] = e
    BY AppendProperties, LenProperties
<1>2. Append(s, e) \in [1 .. Len(s) + 1 -> S]  BY <1>1, LenProperties
<1>3. \A i \in 1 .. Len(s) + 1 : Append(s, e)[i] = IF i = Len(s) + 1 THEN e ELSE s[i]
  <2> SUFFICES ASSUME NEW i \in 1 .. Len(s) + 1
               PROVE  Append(s, e)[i] = IF i = Len(s) + 1 THEN e ELSE s[i]
      OBVIOUS
  <2>1. CASE i = Len(s) + 1  BY <1>1, <2>1
  <2>2. CASE i # Len(s) + 1
    <3>1. i \in 1 .. Len(s)  BY <1>1, <2>2
    <3> QED  BY <1>1, <2>2, <3>1
  <2> QED  BY <2>1, <2>2
<1> QED  BY <1>2, <1>3

(* Contents is a sequence of count items that starts at front.             *)
LEMMA ContentsLength ==
  ASSUME IndInv
  PROVE  /\ Contents \in Seq(Items \cup Defaults)
         /\ Len(Contents) = count
         /\ count > 0 => Head(Contents) = data[front]
         /\ Contents = << >> <=> count = 0
<1>1. front \in Slots /\ count \in 0 .. MAX_SIZE /\ data \in [Slots -> Items \cup Defaults]
    BY DEF IndInv, TypeOK
<1>2. \A i \in 1 .. count : Wrap(front + i - 1) \in Slots  BY <1>1, WrapIntoRing
<1>3. Contents \in Seq(Items \cup Defaults) /\ Len(Contents) = count
  <2>1. Contents \in [1 .. count -> Items \cup Defaults]  BY <1>1, <1>2 DEF Contents
  <2> HIDE DEF Contents
  <2> QED  BY <1>1, <2>1, IsSequence
<1>4. ASSUME count > 0 PROVE Head(Contents) = data[front]
  <2>1. Contents[1] = data[Wrap(front + 1 - 1)]  BY <1>1, <1>4 DEF Contents
  <2>2. Wrap(front + 1 - 1) = front  BY <1>1 DEF Wrap
  <2> QED  BY <1>3, <1>4, <2>1, <2>2
<1> QED  BY <1>1, <1>3, <1>4

(* What push writes lies beyond the items queued: they stay, the item is   *)
(* the newest.                                                             *)
LEMMA PushAppends ==
  ASSUME IndInv, NEW it \in Items, Push(it), count < MAX_SIZE
  PROVE  /\ Contents' = Append(Contents, it)
         /\ front' \in Slots /\ back' \in Slots /\ count' \in 0 .. MAX_SIZE
         /\ data' \in [Slots -> Items \cup Defaults]
         /\ CountIsDistance' /\ QueuedWerePushed'
<1>1. /\ front \in Slots /\ back \in Slots /\ count \in 0 .. MAX_SIZE
      /\ data \in [Slots -> Items \cup Defaults]
      /\ back = Wrap(front + count)
    BY DEF IndInv, TypeOK, CountIsDistance
<1>2. /\ data' = [data EXCEPT ![back] = it]
      /\ back' = Wrap(back + 1) /\ count' = count + 1 /\ front' = front
    BY <1>1 DEF Push
<1>3. /\ front' \in Slots /\ count' \in 0 .. MAX_SIZE
      /\ data' \in [Slots -> Items \cup Defaults]
    BY <1>1, <1>2
<1>4. back' \in Slots  BY <1>1, <1>2, WrapIntoRing
<1>5. CountIsDistance'
  <2>1. Wrap(Wrap(front + count) + 1) = Wrap(front + count + 1)  BY <1>1, WrapStep
  <2>2. front + count + 1 = front' + count'  BY <1>1, <1>2
  <2> QED  BY <1>1, <1>2, <2>1, <2>2 DEF CountIsDistance
<1>6. \A i \in 1 .. count : data'[Wrap(front' + i - 1)] = data[Wrap(front + i - 1)]
  <2> SUFFICES ASSUME NEW i \in 1 .. count
               PROVE  data'[Wrap(front' + i - 1)] = data[Wrap(front + i - 1)]
      OBVIOUS
  <2>1. Wrap(front + i - 1) # Wrap(front + count)  BY <1>1, WrapApart
  <2>2. Wrap(front + i - 1) \in Slots  BY <1>1, WrapIntoRing
  <2> QED  BY <1>1, <1>2, <2>1, <2>2
<1>7. data'[Wrap(front' + count' - 1)] = it
  <2>1. front' + count' - 1 = front + count  BY <1>1, <1>2
  <2> QED  BY <1>1, <1>2, <2>1
<1>8. Contents' = Append(Contents, it)
  <2>1. Contents' = [i \in 1 .. count + 1 |-> data'[Wrap(front' + i - 1)]]
      BY <1>2 DEF Contents
  <2>2. \A i \in 1 .. count : Contents[i] = data[Wrap(front + i - 1)]
      BY DEF Contents
  <2>3. \A i \in 1 .. count + 1 : data'[Wrap(front' + i - 1)] =
                                  IF i = count + 1 THEN it ELSE Contents[i]
      BY <1>1, <1>2, <1>6, <1>7, <2>2
  <2>4. Contents' = [i \in 1 .. count + 1 |-> IF i = count + 1 THEN it ELSE Contents[i]]
      BY <2>1, <2>3
  <2> QED  BY <2>4, ContentsLength, AppendIs
<1>9. QueuedWerePushed'
  <2>1. \A i \in 1 .. count : Contents[i] \in Items  BY DEF IndInv, QueuedWerePushed
  <2>2. \A i \in 1 .. count : Contents[i] = data[Wrap(front + i - 1)]  BY DEF Contents
  <2>3. \A i \in 1 .. count' : Contents'[i] = data'[Wrap(front' + i - 1)]  BY DEF Contents
  <2>4. ASSUME NEW i \in 1 .. count
        PROVE  Contents'[i] \in Items
    <3>1. i \in 1 .. count'  BY <1>1, <1>2
    <3>2. Contents'[i] = Contents[i]  BY <1>6, <2>2, <2>3, <3>1
    <3> QED  BY <2>1, <3>2
  <2>5. Contents'[count + 1] = it
      BY <1>1, <1>2, <1>7, <2>3
  <2>6. \A i \in 1 .. count' : i \in 1 .. count \/ i = count + 1  BY <1>1, <1>2
  <2> QED  BY <2>4, <2>5, <2>6 DEF QueuedWerePushed
<1> QED  BY <1>3, <1>4, <1>5, <1>8, <1>9

(* A pop that finds something takes the oldest item and leaves the others. *)
LEMMA PopTakesHead ==
  ASSUME IndInv, Pop, count > 0
  PROVE  /\ Contents # << >> /\ returned' = Head(Contents)
         /\ Contents' = Tail(Contents)
         /\ IndInv'
<1>1. /\ front \in Slots /\ back \in Slots /\ count \in 1 .. MAX_SIZE
      /\ data \in [Slots -> Items \cup Defaults]
      /\ back = Wrap(front + count)
    BY DEF IndInv, TypeOK, CountIsDistance
<1>2. /\ returned' = data[front] /\ front' = Wrap(front + 1) /\ count' = count - 1
      /\ UNCHANGED <<back, data>>
    BY <1>1 DEF Pop
<1>3. \A n \in 1 .. count : Wrap(front' + (n - 1)) = Wrap(front + n)
  <2> SUFFICES ASSUME NEW n \in 1 .. count
               PROVE  Wrap(front' + (n - 1)) = Wrap(front + n)
      OBVIOUS
  <2>1. n \in 0 .. MAX_SIZE /\ n >= 1  BY <1>1
  <2> QED  BY <1>1, <1>2, <2>1, WrapStep
<1>4. Contents = [i \in 1 .. count |-> data[Wrap(front + i - 1)]]  BY DEF Contents
<1>5. Contents' = [i \in 1 .. count - 1 |-> data[Wrap(front + i)]]
  <2>1. Contents' = [i \in 1 .. count - 1 |-> data[Wrap(front' + i - 1)]]
      BY <1>2 DEF Contents
  <2>2. \A i \in 1 .. count - 1 : Wrap(front' + i - 1) = Wrap(front + i)
    <3> SUFFICES ASSUME NEW i \in 1 .. count - 1
                 PROVE  Wrap(front' + i - 1) = Wrap(front + i)
        OBVIOUS
    <3>1. front' \in Slots  BY <1>1, <1>2, WrapIntoRing
    <3>2. front' + i - 1 = front' + (i - 1) /\ i \in 1 .. count  BY <1>1, <3>1
    <3> QED  BY <1>3, <3>2
  <2> QED  BY <2>1, <2>2
<1>6. /\ Contents \in Seq(Items \cup Defaults) /\ Len(Contents) = count
      /\ Head(Contents) = data[front]
    BY <1>1, ContentsLength
<1>7. Contents' = Tail(Contents)
  <2>1. Tail(Contents) = [i \in 1 .. count - 1 |-> Contents[i + 1]]
      BY <1>1, <1>6, ContentsLength, TailIs
  <2>2. \A i \in 1 .. count - 1 : Contents[i + 1] = data[Wrap(front + i)]
    <3> SUFFICES ASSUME NEW i \in 1 .. count - 1
                 PROVE  Contents[i + 1] = data[Wrap(front + i)]
        OBVIOUS
    <3>1. i + 1 \in 1 .. count /\ front + (i + 1) - 1 = front + i  BY <1>1
    <3> QED  BY <1>4, <3>1
  <2> QED  BY <1>5, <2>1, <2>2
<1>8. TypeOK'
    BY <1>1, <1>2, WrapIntoRing DEF TypeOK
<1>9. CountIsDistance'
  <2>1. Wrap(front' + (count - 1)) = Wrap(front + count)  BY <1>1, <1>3
  <2> QED  BY <1>1, <1>2, <2>1 DEF CountIsDistance
<1>10. QueuedWerePushed'
  <2>1. \A i \in 1 .. count - 1 : Contents'[i] = Contents[i + 1]
    <3>1. Tail(Contents) = [i \in 1 .. count - 1 |-> Contents[i + 1]]
        BY <1>1, <1>6, ContentsLength, TailIs
    <3> QED  BY <1>7, <3>1
  <2>2. \A i \in 1 .. count : Contents[i] \in Items  BY DEF IndInv, QueuedWerePushed
  <2> QED  BY <1>1, <1>2, <2>1, <2>2 DEF QueuedWerePushed
<1> QED  BY <1>1, <1>2, <1>6, <1>7, <1>8, <1>9, <1>10 DEF IndInv

(* The queue starts empty.                                                 *)
LEMMA InitInv == Init => IndInv
<1> SUFFICES ASSUME Init PROVE IndInv
    OBVIOUS
<1>1. TypeOK  BY DEF Init, TypeOK
<1>2. CountIsDistance /\ QueuedWerePushed
    BY DEF Init, CountIsDistance, QueuedWerePushed, Wrap
<1> QED  BY <1>1, <1>2 DEF IndInv

(* Every call keeps indices, count and contents consistent.                *)
LEMMA NextInv == IndInv /\ [Next]_vars => IndInv'
<1> SUFFICES ASSUME IndInv, [Next]_vars PROVE IndInv'
    OBVIOUS
<1>1. ASSUME UNCHANGED <<front, back, count, data>>,
             returned' \in Items \cup Defaults \cup BOOLEAN
      PROVE  IndInv'
    BY <1>1 DEF IndInv, TypeOK, CountIsDistance, QueuedWerePushed, Contents
<1>2. ASSUME NEW it \in Items, TryPush(it)
      PROVE  IndInv'
  <2>1. CASE count < MAX_SIZE
    <3>1. Push(it) /\ returned' = TRUE
        BY <1>2, <2>1 DEF TryPush, IndInv, TypeOK
    <3> QED  BY <2>1, <3>1, PushAppends DEF IndInv, TypeOK
  <2>2. CASE ~(count < MAX_SIZE)
      BY <1>1, <1>2, <2>2 DEF TryPush, IndInv, TypeOK
  <2> QED  BY <2>1, <2>2
<1>3. ASSUME TryPop
      PROVE  IndInv'
  <2>1. CASE count > 0  BY <1>3, <2>1, PopTakesHead DEF TryPop
  <2>2. CASE ~(count > 0)
      BY <1>1, <1>3, <2>2 DEF TryPop, Pop, IndInv, TypeOK
  <2> QED  BY <2>1, <2>2
<1>4. ASSUME Peek
      PROVE  IndInv'
    BY <1>1, <1>4 DEF Peek, IndInv, TypeOK
<1>5. ASSUME Clear
      PROVE  IndInv'
  <2>1. TypeOK'  BY <1>5 DEF Clear, IndInv, TypeOK
  <2>2. Wrap(back + 0) = back /\ count' = 0 /\ front' = back /\ back' = back
      BY <1>5 DEF Clear, Wrap, IndInv, TypeOK
  <2>3. CountIsDistance' /\ QueuedWerePushed'
      BY <2>2 DEF CountIsDistance, QueuedWerePushed
  <2> QED  BY <2>1, <2>3 DEF IndInv
<1>6. CASE UNCHANGED vars
    BY <1>1, <1>6 DEF vars, IndInv, TypeOK
<1> QED  BY <1>2, <1>3, <1>4, <1>5, <1>6 DEF Next

(* Indices stay in the ring, count is the distance from front to back, and *)
(* what is queued was pushed.                                              *)
THEOREM QueueInvariant == Spec => [](TypeOK /\ CountIsDistance /\ QueuedWerePushed)
<1>1. Spec => []IndInv  BY InitInv, NextInv, PTL DEF Spec
<1>2. IndInv <=> TypeOK /\ CountIsDistance /\ QueuedWerePushed  BY DEF IndInv
<1> QED  BY <1>1, <1>2, PTL

-----------------------------------------------------------------------------
(* The ring starts as the abstract queue does ...                          *)
LEMMA FifoInit == Init => Fifo!Init
<1> SUFFICES ASSUME Init PROVE Contents = << >> /\ returned = TRUE
    BY DEF Fifo!Init
<1>1. IndInv /\ count = 0  BY InitInv DEF Init
<1> QED  BY <1>1, ContentsLength DEF Init

(* ... and each of its steps is one of the abstract queue's.               *)
LEMMA FifoStep == IndInv /\ [Next]_vars => [Fifo!Next]_(Fifo!vars)
<1> SUFFICES ASSUME IndInv, [Next]_vars PROVE [Fifo!Next]_(Fifo!vars)
    OBVIOUS
<1>0. /\ count \in 0 .. MAX_SIZE /\ Len(Contents) = count
      /\ Contents = << >> <=> count = 0
      /\ count > 0 => Head(Contents) = data[front]
    BY ContentsLength DEF IndInv, TypeOK
<1>1. ASSUME UNCHANGED <<front, count, data>> PROVE Contents' = Contents
    BY <1>1 DEF Contents
<1>2. ASSUME NEW it \in Items, TryPush(it)
      PROVE  Fifo!Put(it) \/ Fifo!Refuse
  <2>1. CASE count < MAX_SIZE
    <3>1. Push(it) /\ returned' = TRUE
        BY <1>2, <2>1, <1>0 DEF TryPush
    <3> QED  BY <1>0, <2>1, <3>1, PushAppends DEF Fifo!Put
  <2>2. CASE ~(count < MAX_SIZE)
    <3>1. returned' = FALSE /\ UNCHANGED <<front, count, data>> /\ count = MAX_SIZE
        BY <1>2, <2>2, <1>0 DEF TryPush
    <3> QED  BY <1>0, <1>1, <3>1 DEF Fifo!Refuse
  <2> QED  BY <2>1, <2>2
<1>3. ASSUME TryPop
      PROVE  Fifo!Take \/ Fifo!FindEmpty
  <2>1. CASE count > 0
      BY <1>3, <2>1, PopTakesHead DEF TryPop, Fifo!Take
  <2>2. CASE ~(count > 0)
      BY <1>0, <1>1, <1>3, <2>2 DEF TryPop, Pop, Fifo!FindEmpty
  <2> QED  BY <2>1, <2>2
<1>4. ASSUME Peek
      PROVE  Fifo!Look \/ Fifo!FindEmpty
    BY <1>0, <1>1, <1>4 DEF Peek, Fifo!Look, Fifo!FindEmpty
<1>5. ASSUME Clear
      PROVE  Fifo!Drop
  <2>1. IndInv' /\ count' = 0 /\ returned' = returned
      BY <1>5, NextInv DEF Clear, Next
  <2>2. Contents' = << >>  BY <2>1 DEF Contents
  <2> QED  BY <2>1, <2>2 DEF Fifo!Drop
<1>6. CASE UNCHANGED vars
    BY <1>1, <1>6 DEF vars, Fifo!vars
<1> QED  BY <1>2, <1>3, <1>4, <1>5, <1>6 DEF Next, Fifo!Next

(* The ring implements the bounded first-in first-out queue.               *)
THEOREM RingIsFifo == Spec => IsFifo
<1>1. Spec => []IndInv  BY InitInv, NextInv, PTL DEF Spec
<1>2. Spec => Fifo!Init /\ [][Fifo!Next]_(Fifo!vars)
    BY <1>1, FifoInit, FifoStep, PTL DEF Spec
<1> QED  BY <1>2 DEF IsFifo, Fifo!Spec
-----------------------------------------------------------------------------
(* QueueRace *)

Popped  == {"loadCount", "storeCount", "wrapFront"}       \* front is moved, not wrapped
Pushing == {"recheck", "loadBack", "storeBack", "assign", "loadCount2", "storeCount2"}

(* An index is past the ring only inside the call that moves it.           *)
Indices ==
  /\ pc \notin Popped => front \in Slots
  /\ pc \notin {"assign", "loadCount2", "storeCount2", "wrapBack"} => back \in Slots
  /\ pc = "storeBack" => reg \in Slots

(* What loop() has loaded bounds what it will store.                       *)
Counted ==
  /\ Len(handled) + count <= accepted
  /\ pc \in {"copy", "loadCount"} => count >= 1
  /\ pc = "storeCount" => 1 <= reg /\ reg <= count
  /\ pc \in Popped \cup {"copy"} => Len(handled) + 1 <= accepted
  /\ pc = "wrapFront" => Len(handled) + 1 + count <= accepted
  /\ pc \in Pushing => Len(handled) + 1 + count <= accepted /\ count <= MAX_SIZE
  /\ pc = "storeCount2" => reg <= count

(* What loop() takes off the queue was pushed and accepted.                *)
HandledWereAccepted ==
  \A i \in DOMAIN handled : handled[i] \in 1 .. accepted

(* Without the console every index at or past back is either unwritten or  *)
(* one lap old.                                                            *)
SoleProducer ==
  /\ pc \in Popped \cup {"idle", "copy"}
  /\ count <= MAX_SIZE
  /\ ~overrun
  /\ accepted <= MAX_SIZE => back = accepted
  /\ \A i \in Slots : accepted > MAX_SIZE \/ i < accepted => data[i] \in 1 .. accepted
  /\ Len(handled) <= MAX_SIZE =>
       front = IF pc \in Popped THEN Len(handled) + 1 ELSE Len(handled)
  /\ pc \in Popped => item \in 1 .. accepted
  /\ HandledWereAccepted

RaceInv == RaceTypeOK /\ Indices /\ Counted /\ (~console => SoleProducer)

(* An index at most one lap past the ring wraps into it.                   *)
LEMMA WrapOnce ==
  ASSUME NEW i \in 0 .. 2 * MAX_SIZE + 1
  PROVE  Wrap(i) \in Slots /\ (i <= MAX_SIZE => Wrap(i) = i) /\ (i = MAX_SIZE + 1 => Wrap(i) = 0)
BY DEF Wrap

(* The queue starts empty and loop() idle.                                 *)
LEMMA RaceInitInv == RaceInit => RaceInv
<1> SUFFICES ASSUME RaceInit PROVE RaceInv
    OBVIOUS
<1>1. RaceTypeOK
  <2>1. handled \in Seq(0 .. MaxPushes) /\ data \in [Slots -> 0 .. MaxPushes]
      BY DEF RaceInit
  <2>2. /\ front \in 0 .. MAX_SIZE + 1 /\ back \in 0 .. MAX_SIZE + 1
        /\ count \in 0 .. MAX_SIZE + 1 /\ reg \in 0 .. MAX_SIZE + 1
        /\ item \in 0 .. MaxPushes /\ accepted \in 0 .. MaxPushes
    <3>1. 0 \in 0 .. MAX_SIZE + 1 /\ 0 \in 0 .. MaxPushes  OBVIOUS
    <3> QED  BY <3>1 DEF RaceInit
  <2>3. overrun \in BOOLEAN /\ console \in BOOLEAN /\ pc = "idle"  BY DEF RaceInit
  <2> QED  BY <2>1, <2>2, <2>3 DEF RaceTypeOK
<1>2. Indices /\ Counted  BY DEF RaceInit, Indices, Counted, Popped, Pushing
<1>3. SoleProducer  BY DEF RaceInit, SoleProducer, HandledWereAccepted, Popped
<1> QED  BY <1>1, <1>2, <1>3 DEF RaceInv

(* A push of aws_iot_task, wherever loop() is.                             *)
LEMMA AwsPushInv == RaceInv /\ AwsPush => RaceInv'
<1> SUFFICES ASSUME RaceInv, AwsPush PROVE RaceInv'
    OBVIOUS
<1>1. /\ front \in 0 .. MAX_SIZE + 1 /\ back \in 0 .. MAX_SIZE + 1
      /\ count \in 0 .. MAX_SIZE + 1 /\ data \in [Slots -> 0 .. MaxPushes]
      /\ overrun \in BOOLEAN /\ reg \in 0 .. MAX_SIZE + 1 /\ item \in 0 .. MaxPushes
      /\ accepted \in 0 .. MaxPushes /\ handled \in Seq(0 .. MaxPushes) /\ Len(handled) \in Nat
    BY DEF RaceInv, RaceTypeOK
<1>2. /\ accepted' = accepted + 1 /\ accepted < MaxPushes /\ count < MAX_SIZE
      /\ data' = IF back \in Slots THEN [data EXCEPT ![back] = accepted + 1] ELSE data
      /\ overrun' = (overrun \/ back \notin Slots)
      /\ back' = Wrap(back + 1) /\ count' = count + 1
      /\ UNCHANGED <<front, pc, reg, item, handled, console>>
    BY DEF AwsPush, Write, loopVars
<1>3. back' \in Slots  BY <1>1, <1>2, WrapOnce
<1>4. RaceTypeOK'
  <2>1. data' \in [Slots -> 0 .. MaxPushes] /\ overrun' \in BOOLEAN
      BY <1>1, <1>2
  <2>2. /\ front' \in 0 .. MAX_SIZE + 1 /\ back' \in 0 .. MAX_SIZE + 1
        /\ count' \in 0 .. MAX_SIZE + 1 /\ accepted' \in 0 .. MaxPushes
      BY <1>1, <1>2, <1>3
  <2>3. /\ reg' \in 0 .. MAX_SIZE + 1 /\ item' \in 0 .. MaxPushes
        /\ handled' \in Seq(0 .. MaxPushes) /\ pc' = pc /\ console' = console
      BY <1>1, <1>2
  <2> QED  BY <2>1, <2>2, <2>3 DEF RaceInv, RaceTypeOK
<1>5. Indices'  BY <1>2, <1>3 DEF RaceInv, Indices
<1>6. Counted'
  <2>1. Counted  BY DEF RaceInv
  <2>2. /\ accepted \in Nat /\ count \in Nat /\ reg \in Nat /\ Len(handled) \in Nat
        /\ MAX_SIZE \in Nat /\ count < MAX_SIZE
        /\ accepted' = accepted + 1 /\ count' = count + 1 /\ Len(handled') = Len(handled)
        /\ pc' = pc /\ reg' = reg
      BY <1>1, <1>2
  <2> QED  BY <2>1, <2>2 DEF Counted, Popped, Pushing
<1>7. ASSUME ~console' PROVE SoleProducer'
  <2>1. SoleProducer  BY <1>2, <1>7 DEF RaceInv
  <2>2. back \in Slots  BY <2>1 DEF RaceInv, Indices, SoleProducer, Popped
  <2>0. /\ accepted <= MAX_SIZE => back = accepted
        /\ \A i \in Slots : accepted > MAX_SIZE \/ i < accepted => data[i] \in 1 .. accepted
      BY <2>1 DEF SoleProducer
  <2>3. ASSUME accepted' <= MAX_SIZE
        PROVE  back' = accepted'
    <3>0. accepted \in Nat /\ accepted' = accepted + 1  BY <1>1, <1>2
    <3>1. back = accepted /\ back + 1 <= MAX_SIZE  BY <2>0, <2>3, <3>0
    <3>2. Wrap(back + 1) = back + 1  BY <2>2, <3>1 DEF Wrap
    <3> QED  BY <1>2, <3>1, <3>2
  <2>4. ASSUME NEW i \in Slots, accepted' > MAX_SIZE \/ i < accepted'
        PROVE  data'[i] \in 1 .. accepted'
    <3>1. accepted' = accepted + 1 /\ accepted \in Nat  BY <1>1, <1>2
    <3>2. data' = [data EXCEPT ![back] = accepted + 1]  BY <1>2, <2>2
    <3>3. CASE i = back
      <4>1. data'[i] = accepted + 1  BY <1>1, <3>2, <3>3
      <4> QED  BY <3>1, <4>1
    <3>4. CASE i # back
      <4>1. data'[i] = data[i]  BY <1>1, <3>2, <3>4
      <4>2. accepted > MAX_SIZE \/ i < accepted  BY <2>0, <2>4, <3>1, <3>4
      <4>3. data[i] \in 1 .. accepted  BY <2>0, <4>2
      <4> QED  BY <3>1, <4>1, <4>3
    <3> QED  BY <3>3, <3>4
  <2>5. HandledWereAccepted'
      BY <1>1, <1>2, <2>1 DEF SoleProducer, HandledWereAccepted
  <2>6. pc' \in Popped => item' \in 1 .. accepted'
      BY <1>1, <1>2, <2>1 DEF SoleProducer
  <2>7. /\ pc' \in Popped \cup {"idle", "copy"} /\ count' <= MAX_SIZE /\ ~overrun'
        /\ Len(handled') <= MAX_SIZE =>
             front' = IF pc' \in Popped THEN Len(handled') + 1 ELSE Len(handled')
      BY <1>1, <1>2, <2>1, <2>2 DEF SoleProducer
  <2> QED  BY <2>3, <2>4, <2>5, <2>6, <2>7 DEF SoleProducer
<1> QED  BY <1>4, <1>5, <1>6, <1>7 DEF RaceInv

(* loop() taking a request out.                                            *)
LEMMA LoopPopInv == RaceInv /\ LoopPop => RaceInv'
<1> SUFFICES ASSUME RaceInv, LoopPop PROVE RaceInv'
    OBVIOUS
<1> USE DEF ring
<1>0. /\ front \in 0 .. MAX_SIZE + 1 /\ back \in 0 .. MAX_SIZE + 1
      /\ count \in 0 .. MAX_SIZE + 1 /\ data \in [Slots -> 0 .. MaxPushes]
      /\ overrun \in BOOLEAN /\ reg \in 0 .. MAX_SIZE + 1 /\ item \in 0 .. MaxPushes
      /\ accepted \in 0 .. MaxPushes /\ handled \in Seq(0 .. MaxPushes) /\ Len(handled) \in Nat
      /\ Indices /\ Counted /\ console \in BOOLEAN
    BY DEF RaceInv, RaceTypeOK
<1>1. CASE PopCheck
  <2>1. RaceTypeOK' /\ Indices' /\ Counted'
      BY <1>0, <1>1 DEF PopCheck, RaceInv, RaceTypeOK, Indices, Counted, Popped, Pushing
  <2>2. ~console' => SoleProducer'
      BY <1>0, <1>1 DEF PopCheck, RaceInv, SoleProducer, HandledWereAccepted, Popped
  <2> QED  BY <2>1, <2>2 DEF RaceInv
<1>2. CASE PopCopy
  <2>1. front \in Slots /\ data[front] \in 0 .. MaxPushes
      BY <1>0, <1>2 DEF PopCopy, Indices, Popped
  <2>2. RaceTypeOK'  BY <1>0, <1>2, <2>1 DEF PopCopy, RaceInv, RaceTypeOK
  <2>3. Indices' /\ Counted'
      BY <1>0, <1>2 DEF PopCopy, Indices, Counted, Popped, Pushing
  <2>4. ASSUME ~console' PROVE SoleProducer'
    <3>1. SoleProducer /\ Len(handled) + 1 <= accepted
        BY <1>0, <1>2, <2>4 DEF PopCopy, RaceInv, Counted
    <3>2. data[front] \in 1 .. accepted
        BY <1>0, <1>2, <2>1, <3>1 DEF PopCopy, SoleProducer, Popped
    <3> QED  BY <1>0, <1>2, <3>1, <3>2
             DEF PopCopy, SoleProducer, HandledWereAccepted, Popped
  <2> QED  BY <2>2, <2>3, <2>4 DEF RaceInv
<1>3. CASE PopLoadCount
  <2>1. RaceTypeOK'  BY <1>0, <1>3 DEF PopLoadCount, RaceInv, RaceTypeOK
  <2>2. Indices' /\ Counted'
      BY <1>0, <1>3 DEF PopLoadCount, Indices, Counted, Popped, Pushing
  <2>3. ~console' => SoleProducer'
      BY <1>0, <1>3 DEF PopLoadCount, RaceInv, SoleProducer, HandledWereAccepted, Popped
  <2> QED  BY <2>1, <2>2, <2>3 DEF RaceInv
<1>4. CASE PopStoreCount
  <2>1. /\ 1 <= reg /\ reg <= count /\ count' = reg - 1
        /\ pc = "storeCount" /\ pc' = "wrapFront"
        /\ UNCHANGED <<front, back, data, overrun, reg, item, accepted, handled, console>>
      BY <1>0, <1>4 DEF PopStoreCount, Counted
  <2>2. RaceTypeOK'  BY <1>0, <2>1 DEF RaceTypeOK
  <2>3. Indices'  BY <1>0, <2>1 DEF Indices, Popped
  <2>4. Counted'  BY <1>0, <2>1 DEF Counted, Popped, Pushing
  <2>5. ~console' => SoleProducer'
      BY <1>0, <2>1 DEF RaceInv, SoleProducer, HandledWereAccepted, Popped
  <2> QED  BY <2>2, <2>3, <2>4, <2>5 DEF RaceInv
<1>5. CASE PopReturn
  <2>1. /\ pc = "wrapFront" /\ pc' = "idle" /\ front' = Wrap(front)
        /\ handled' = Append(handled, item) /\ reg' = 0 /\ item' = 0
        /\ UNCHANGED <<back, count, data, overrun, accepted, console>>
      BY <1>5 DEF PopReturn
  <2>2. front' \in Slots  BY <1>0, <2>1, WrapOnce
  <2>3. /\ handled' \in Seq(0 .. MaxPushes) /\ Len(handled') = Len(handled) + 1
        /\ \A i \in 1 .. Len(handled) : handled'[i] = handled[i]
        /\ handled'[Len(handled) + 1] = item
      BY <1>0, <2>1
  <2>4. RaceTypeOK'  BY <1>0, <2>1, <2>2, <2>3 DEF RaceTypeOK
  <2>5. Indices'  BY <1>0, <2>1, <2>2 DEF Indices, Popped
  <2>6. Counted'  BY <1>0, <2>1, <2>3 DEF Counted, Popped, Pushing
  <2>7. ASSUME ~console' PROVE SoleProducer'
    <3>1. SoleProducer /\ item \in 1 .. accepted
        BY <2>1, <2>7 DEF RaceInv, SoleProducer, Popped
    <3>2. HandledWereAccepted'
      <4>1. DOMAIN handled = 1 .. Len(handled) /\ DOMAIN handled' = 1 .. Len(handled) + 1
          BY <1>0, <2>3
      <4> QED  BY <1>0, <2>1, <2>3, <3>1, <4>1 DEF SoleProducer, HandledWereAccepted
    <3>3. Len(handled') <= MAX_SIZE => front' = Len(handled')
        BY <1>0, <2>1, <2>3, <3>1, WrapOnce DEF SoleProducer, Popped
    <3> QED  BY <1>0, <2>1, <3>1, <3>2, <3>3 DEF SoleProducer, Popped
  <2> QED  BY <2>4, <2>5, <2>6, <2>7 DEF RaceInv
<1> QED  BY <1>1, <1>2, <1>3, <1>4, <1>5 DEF LoopPop

(* loop() putting a console request in, which `console' records.       *)
LEMMA LoopPushInv == RaceInv /\ LoopPush => RaceInv'
<1> SUFFICES ASSUME RaceInv, LoopPush PROVE RaceInv'
    OBVIOUS
<1> USE DEF ring
<1>0. /\ front \in 0 .. MAX_SIZE + 1 /\ back \in 0 .. MAX_SIZE + 1
      /\ count \in 0 .. MAX_SIZE + 1 /\ data \in [Slots -> 0 .. MaxPushes]
      /\ overrun \in BOOLEAN /\ reg \in 0 .. MAX_SIZE + 1 /\ item \in 0 .. MaxPushes
      /\ accepted \in 0 .. MaxPushes /\ handled \in Seq(0 .. MaxPushes) /\ Len(handled) \in Nat
      /\ Indices /\ Counted /\ console \in BOOLEAN
    BY DEF RaceInv, RaceTypeOK
<1>1. console'
    BY DEF LoopPush, PushCheck, PushRecheck, PushLoadBack, PushStoreBack, PushAssign,
           PushLoadCount, PushStoreCount, PushReturn, RaceInv, SoleProducer, Popped
<1>2. CASE PushCheck
  <2>1. RaceTypeOK'  BY <1>0, <1>2 DEF PushCheck, RaceInv, RaceTypeOK
  <2>2. Indices' /\ Counted'
      BY <1>0, <1>2 DEF PushCheck, Indices, Counted, Popped, Pushing
  <2> QED  BY <1>1, <2>1, <2>2 DEF RaceInv
<1>3. CASE PushRecheck
  <2>1. RaceTypeOK'  BY <1>0, <1>3 DEF PushRecheck, RaceInv, RaceTypeOK
  <2>2. Indices' /\ Counted'
      BY <1>0, <1>3 DEF PushRecheck, Indices, Counted, Popped, Pushing
  <2> QED  BY <1>1, <2>1, <2>2 DEF RaceInv
<1>4. CASE PushLoadBack
  <2>1. RaceTypeOK'  BY <1>0, <1>4 DEF PushLoadBack, RaceInv, RaceTypeOK
  <2>2. Indices' /\ Counted'
      BY <1>0, <1>4 DEF PushLoadBack, Indices, Counted, Popped, Pushing
  <2> QED  BY <1>1, <2>1, <2>2 DEF RaceInv
<1>5. CASE PushStoreBack
  <2>1. reg \in Slots  BY <1>0, <1>5 DEF PushStoreBack, Indices
  <2>2. RaceTypeOK'  BY <1>0, <1>5, <2>1 DEF PushStoreBack, RaceInv, RaceTypeOK
  <2>3. Indices' /\ Counted'
      BY <1>0, <1>5 DEF PushStoreBack, Indices, Counted, Popped, Pushing
  <2> QED  BY <1>1, <2>2, <2>3 DEF RaceInv
<1>6. CASE PushAssign
  <2>1. data' \in [Slots -> 0 .. MaxPushes] /\ overrun' \in BOOLEAN
      BY <1>0, <1>6 DEF PushAssign, Write
  <2>2. RaceTypeOK'  BY <1>0, <1>6, <2>1 DEF PushAssign, RaceInv, RaceTypeOK
  <2>3. Indices' /\ Counted'
      BY <1>0, <1>6 DEF PushAssign, Indices, Counted, Popped, Pushing
  <2> QED  BY <1>1, <2>2, <2>3 DEF RaceInv
<1>7. CASE PushLoadCount
  <2>1. RaceTypeOK'  BY <1>0, <1>7 DEF PushLoadCount, RaceInv, RaceTypeOK
  <2>2. Indices' /\ Counted'
      BY <1>0, <1>7 DEF PushLoadCount, Indices, Counted, Popped, Pushing
  <2> QED  BY <1>1, <2>1, <2>2 DEF RaceInv
<1>8. CASE PushStoreCount
  <2>1. /\ reg <= count /\ count <= MAX_SIZE /\ Len(handled) + 1 + count <= accepted
        /\ pc = "storeCount2"
      BY <1>0, <1>8 DEF PushStoreCount, Counted, Pushing
  <2>2. RaceTypeOK'  BY <1>0, <1>8, <2>1 DEF PushStoreCount, RaceTypeOK
  <2>3. Indices' /\ Counted'
      BY <1>0, <1>8, <2>1 DEF PushStoreCount, Indices, Counted, Popped, Pushing
  <2> QED  BY <1>1, <2>2, <2>3 DEF RaceInv
<1>9. CASE PushReturn
  <2>1. Wrap(back) \in Slots  BY <1>0, WrapOnce
  <2>2. RaceTypeOK'  BY <1>0, <1>9, <2>1 DEF PushReturn, RaceTypeOK
  <2>3. Indices' /\ Counted'
      BY <1>0, <1>9, <2>1 DEF PushReturn, Indices, Counted, Popped, Pushing
  <2> QED  BY <1>1, <2>2, <2>3 DEF RaceInv
<1> QED  BY <1>2, <1>3, <1>4, <1>5, <1>6, <1>7, <1>8, <1>9 DEF LoopPush

(* RaceInv is inductive, whichever task moves.                              *)
LEMMA RaceInductive == RaceSpec => []RaceInv
<1>1. RaceInv /\ UNCHANGED raceVars => RaceInv'
  <2> USE DEF raceVars, ring, loopVars
  <2>1. RaceTypeOK /\ UNCHANGED raceVars => RaceTypeOK'  BY DEF RaceTypeOK
  <2>2. Indices /\ Counted /\ UNCHANGED raceVars => Indices' /\ Counted'
      BY DEF Indices, Counted
  <2>3. SoleProducer /\ UNCHANGED raceVars => SoleProducer'
      BY DEF SoleProducer, HandledWereAccepted
  <2> QED  BY <2>1, <2>2, <2>3 DEF RaceInv
<1>2. RaceInv /\ [RaceNext]_raceVars => RaceInv'
    BY <1>1, AwsPushInv, LoopPopInv, LoopPushInv DEF RaceNext
<1> QED  BY RaceInitInv, <1>2, PTL DEF RaceSpec

(* Whoever pushes: count never promises a request that is not there.       *)
THEOREM CountNeverOverstatesHolds == RaceSpec => []CountNeverOverstates
<1>1. RaceInv => CountNeverOverstates
  <2> SUFFICES ASSUME RaceInv PROVE CountNeverOverstates
      OBVIOUS
  <2>1. /\ count \in 0 .. MAX_SIZE + 1 /\ accepted \in Nat /\ Len(handled) \in Nat
        /\ Len(handled) + count <= accepted
      BY DEF RaceInv, RaceTypeOK, Counted
  <2>2. ~console => count <= MAX_SIZE  BY DEF RaceInv, SoleProducer
  <2> QED  BY <2>1, <2>2 DEF CountNeverOverstates
<1> QED  BY <1>1, RaceInductive, PTL

(* Until the console pushes, aws_iot_task is the only producer: push never *)
(* writes past the array, and every request handled is one that was        *)
(* accepted.                                                               *)
THEOREM AwsRequestsValidHolds == RaceSpec => []AwsRequestsValid
<1>1. RaceInv => AwsRequestsValid
    BY DEF RaceInv, SoleProducer, AwsRequestsValid, HandledWereAccepted
<1> QED  BY <1>1, RaceInductive, PTL

(* Indices, count, slots and the history are of their types.               *)
THEOREM RaceTypeCorrect == RaceSpec => []RaceTypeOK
<1>1. RaceInv => RaceTypeOK  BY DEF RaceInv
<1> QED  BY <1>1, RaceInductive, PTL
=============================================================================

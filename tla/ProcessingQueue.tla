--------------------------- MODULE ProcessingQueue ---------------------------
(***************************************************************************)
(* libraries/queue: the operations of ArduinoQueue<T> on its ring, and     *)
(* ProcessingQueue, which wraps it for QueueItems.  One caller at a time;  *)
(* QueueRace has two.                                                      *)
(***************************************************************************)
EXTENDS QueueRing

CONSTANTS Items,     \* QueueItems the callers push
          Defaults   \* what QueueItem() can be: requestType is left unset

ASSUME QueueAssumption ==
  /\ Defaults # {}
  /\ Items \cap Defaults = {}

VARIABLE returned

vars == <<front, back, count, data, returned>>

Init ==
  /\ front = 0 /\ back = 0 /\ count = 0
  /\ data \in [Slots -> Defaults]
  /\ returned = TRUE

-----------------------------------------------------------------------------
(* ArduinoQueue *)

Push(item) ==
  \/ /\ count < MAX_SIZE
     /\ data' = [data EXCEPT ![back] = item]
     /\ back' = Wrap(back + 1)
     /\ count' = count + 1
     /\ UNCHANGED front
  \/ /\ count >= MAX_SIZE
     /\ UNCHANGED <<front, back, count, data>>

Pop ==
  \/ /\ count <= 0
     /\ returned' \in Defaults
     /\ UNCHANGED <<front, back, count, data>>
  \/ /\ count > 0
     /\ returned' = data[front]
     /\ front' = Wrap(front + 1)
     /\ count' = count - 1
     /\ UNCHANGED <<back, data>>

Peek ==
  /\ \/ count <= 0 /\ returned' \in Defaults
     \/ count > 0 /\ returned' = data[front]
  /\ UNCHANGED <<front, back, count, data>>

Clear ==
  /\ front' = back /\ count' = 0
  /\ UNCHANGED <<back, data, returned>>

-----------------------------------------------------------------------------
(* ProcessingQueue *)

(* Mutant: count() > MAX_SIZE, so that push drops what was promised.       *)
TryPushLate(item) ==
  \/ /\ count > MAX_SIZE
     /\ returned' = FALSE
     /\ UNCHANGED <<front, back, count, data>>
  \/ /\ count <= MAX_SIZE
     /\ Push(item)
     /\ returned' = TRUE

TryPush(item) ==
  \/ /\ count >= MAX_SIZE
     /\ returned' = FALSE
     /\ UNCHANGED <<front, back, count, data>>
  \/ /\ count < MAX_SIZE
     /\ Push(item)
     /\ returned' = TRUE

TryPop == Pop

Next == (\E item \in Items : TryPush(item)) \/ TryPop \/ Peek \/ Clear

Spec == Init /\ [][Next]_vars

-----------------------------------------------------------------------------
(* Indices stay in the ring and the results are results.                   *)
TypeOK ==
  /\ front \in Slots /\ back \in Slots /\ count \in 0 .. MAX_SIZE
  /\ data \in [Slots -> Items \cup Defaults]
  /\ returned \in Items \cup Defaults \cup BOOLEAN

(* count is the way from front to back: no call loses track of an item,    *)
(* and with one slot more than items, a full ring never looks empty.       *)
CountIsDistance == back = Wrap(front + count)

(* The slots between front and back hold pushed items, so that a pop that  *)
(* finds count > 0 never hands out a slot nobody wrote.                    *)
Contents == [i \in 1 .. count |-> data[Wrap(front + i - 1)]]

QueuedWerePushed == \A i \in 1 .. count : Contents[i] \in Items

(* The ring is the bounded FIFO its users count on.                        *)
Fifo == INSTANCE BoundedFifo WITH fifo <- Contents, Capacity <- MAX_SIZE

IsFifo == Fifo!Spec
=============================================================================

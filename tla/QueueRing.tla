----------------------------- MODULE QueueRing -----------------------------
(***************************************************************************)
(* The members of ArduinoQueue<T>: a ring of maxitems + 1 slots, a front   *)
(* index, a back index and a count.                                        *)
(***************************************************************************)
EXTENDS Naturals, Sequences

CONSTANT MAX_SIZE  \* 10 in ProcessingQueue.cpp

ASSUME RingAssumption == MAX_SIZE \in Nat \ {0}

VARIABLES front, back, count, data

Slots == 0 .. MAX_SIZE

(* An index that has passed the last slot starts over at the first.        *)
Wrap(i) == IF i > MAX_SIZE THEN i - (MAX_SIZE + 1) ELSE i
=============================================================================

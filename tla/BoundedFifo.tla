----------------------------- MODULE BoundedFifo -----------------------------
(***************************************************************************)
(* What the request queue between the MQTT handlers and loop() promises:   *)
(* a first-in first-out queue of at most Capacity items that refuses an    *)
(* item when full and hands out some default item when empty.              *)
(***************************************************************************)
EXTENDS Naturals, Sequences

CONSTANTS Items,     \* what can be queued
          Defaults,  \* what a default-constructed item can read as
          Capacity

VARIABLES fifo,      \* the queued items, oldest first
          returned   \* what the last call returned

vars == <<fifo, returned>>

Init == fifo = << >> /\ returned = TRUE

Put(item) ==
  /\ Len(fifo) < Capacity
  /\ fifo' = Append(fifo, item)
  /\ returned' = TRUE

Refuse ==
  /\ Len(fifo) = Capacity
  /\ returned' = FALSE
  /\ UNCHANGED fifo

Take ==
  /\ fifo # << >>
  /\ returned' = Head(fifo)
  /\ fifo' = Tail(fifo)

Look ==
  /\ fifo # << >>
  /\ returned' = Head(fifo)
  /\ UNCHANGED fifo

FindEmpty ==
  /\ fifo = << >>
  /\ returned' \in Defaults
  /\ UNCHANGED fifo

Drop ==
  /\ fifo' = << >>
  /\ UNCHANGED returned

Next ==
  \/ \E item \in Items : Put(item)
  \/ Refuse \/ Take \/ Look \/ FindEmpty \/ Drop

Spec == Init /\ [][Next]_vars
=============================================================================

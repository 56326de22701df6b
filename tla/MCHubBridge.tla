---------------------------- MODULE MCHubBridge -----------------------------
(* Instances of HubBridge: an actuator board beside a board that reads its *)
(* sensor on request; polling and a line to the actuator.                  *)
EXTENDS HubBridge

RelayAndDht == <<"relay", "dht22">>

Order(k, p, v) == [k |-> k, plug |-> p, level |-> v]

SomeOrders == {Order("m", 1, 0), Order("r", 1, 0), Order("s", 1, 1)}
=============================================================================

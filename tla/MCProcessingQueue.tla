-------------------------- MODULE MCProcessingQueue --------------------------
(* ProcessingQueue with three places, two items and an unset requestType   *)
(* that reads as REQUEST_NONE or as REQUEST_ACTUATOR_SET.                  *)
EXTENDS ProcessingQueue

CONSTANTS status, actuators, none, unset

=============================================================================

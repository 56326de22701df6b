----------------------------- MODULE MCHubConfig -----------------------------
(* An instance of HubConfig: one text before and one after the first       *)
(* certificate, and a certificate of two chunks.                           *)
EXTENDS HubConfig, TLC

MCCore  == <<"wifiNetwork">>
MCMqtt  == <<"mqttServer">>
MCFiles == <<"thingCrt">>
MCSize  == [cert |-> 3, long |-> 7]
=============================================================================

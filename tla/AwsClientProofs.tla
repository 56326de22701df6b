--------------------------- MODULE AwsClientProofs ---------------------------
(***************************************************************************)
(* Proofs about AwsClient, for every back-off, number of retries, replies, *)
(* packets and faults.                                                     *)
(*                                                                         *)
(* The client's state is its lock: whoever has put his own name into       *)
(* clientState may use the write buffer and the connection.  That it works *)
(* although T changes the state without looking (force_disconnect, the end *)
(* of handle_disconnect) and although T's attempts fail while L holds the  *)
(* mutex is what the strengthened invariant Own says: where T blocks fixes *)
(* the state it finds again, and L's claim confines T to its sleep or to a *)
(* callback that can neither publish nor return into the yield.            *)
(***************************************************************************)
EXTENDS AwsClient, TLAPS

(* L's claim stands while L is inside, and T is asleep or in a callback    *)
(* out of which L made the claim.                                          *)
CallOwns ==
  LInside => /\ clientState = Claimed(lop)
             /\ tpc \in {"sleep", "callback"}
             /\ tpc = "callback" => lsaved = "WAIT_FOR_CB"

WriteOwn == lpc = "write" => writeBuf = lop

(* The state of the client by the place where T blocks.                    *)
TPlace ==
  /\ tpc \in {"read", "ping"} => clientState = "YIELD"
  /\ tpc = "reply" => clientState = "PUBLISH"
  /\ tpc = "callback" => clientState \in {"WAIT_FOR_CB", "YIELD", "PUBLISH", "SUBSCRIBE"}
  /\ tpc \in {"callback", "reply"} => tsaved = "YIELD"
  /\ tpc = "disconnect" => clientState = "DISCONNECTING"
  /\ tpc \in {"tls", "connect"} => clientState \in {"CONNECTING", "PENDING"}
  /\ tpc = "resubscribe" => clientState = "RESUBSCRIBE"

TPacket == TWriting => writeBuf = tpc

Alive == clientState \in Connected => link # "down"

Own == CallOwns /\ WriteOwn /\ TPlace /\ TPacket /\ Alive

-----------------------------------------------------------------------------
(* The disjuncts of Next, once for the case splits below.                  *)
LEMMA NextSplit ==
  ASSUME [Next]_vars
  PROVE  \/ Yield \/ Reconnect \/ ReadNothing \/ ReadReset \/ ReadPartial
         \/ ReadPong \/ ReadCommand \/ Reply \/ ReplySent \/ CallbackReturn
         \/ PingSent \/ Disconnected \/ TlsConnected \/ TlsRefused \/ Connack
         \/ NoConnack \/ Resubscribed \/ ResubscribeFails
         \/ Subscribe \/ Publish \/ Check \/ Lock \/ Compare \/ Unlock
         \/ Serialise \/ Sent \/ Suback \/ Restore
         \/ ServerSends \/ LinkDies \/ NetworkReturns \/ PingTimer
         \/ ReconnectTimer \/ UNCHANGED vars
  BY DEF Next, TNext, TAwake, LNext, LCall, EnvNext

(* Every step keeps the types.                                             *)
LEMMA TypeStep ==
  ASSUME TypeOK, [Next]_vars
  PROVE  TypeOK'
PROOF
  <1>1. CASE Yield
    BY <1>1, AwsAssumption DEF Yield, TReaches, Leave, Cas, lVars, timers,
      callback, server, TypeOK, Connected, ClientStates
  <1>2. CASE Reconnect
    BY <1>2, AwsAssumption DEF Reconnect, TReaches, Leave, Cas, lVars, timers,
      callback, server, TypeOK, Connected, ClientStates
  <1>3. CASE ReadNothing
    <2>1. UNCHANGED server
      BY <1>3 DEF ReadNothing, TReaches, Leave, Cas, lVars, timers, callback,
        server, KeepAlive, HandleDisconnect, TypeOK
    <2> QED
      BY <1>3, <2>1, AwsAssumption DEF ReadNothing, TReaches, Leave, Cas,
        lVars, timers, callback, server, KeepAlive, HandleDisconnect, TypeOK,
        Connected, ClientStates
  <1>4. CASE ReadReset
    BY <1>4, AwsAssumption DEF ReadReset, TReaches, Leave, Cas, lVars, timers,
      callback, server, HandleDisconnect, TypeOK, Connected, ClientStates
  <1>5. CASE ReadPartial
    BY <1>5, AwsAssumption DEF ReadPartial, TReaches, Leave, Cas, lVars,
      timers, callback, server, TypeOK, Connected, ClientStates
  <1>6. CASE ReadPong
    <2>1. pingOutstanding' \in BOOLEAN /\ pingDue' \in BOOLEAN
      BY <1>6 DEF ReadPong, TReaches, Leave, Cas, lVars, timers, callback,
        server, TypeOK
    <2> QED
      BY <1>6, <2>1, AwsAssumption DEF ReadPong, TReaches, Leave, Cas, lVars,
        timers, callback, server, TypeOK, Connected, ClientStates
  <1>7. CASE ReadCommand
    BY <1>7, AwsAssumption DEF ReadCommand, TReaches, Leave, Cas, lVars,
      timers, callback, server, TypeOK, Connected, ClientStates
  <1>8. CASE Reply
    BY <1>8, AwsAssumption DEF Reply, TReaches, Leave, Cas, lVars, timers,
      callback, server, TypeOK, Connected, ClientStates
  <1>9. CASE ReplySent
    BY <1>9, AwsAssumption DEF ReplySent, TReaches, Leave, Cas, lVars, timers,
      callback, server, TypeOK, Connected, ClientStates
  <1>10. CASE CallbackReturn
    BY <1>10, AwsAssumption DEF CallbackReturn, TReaches, Leave, Cas, lVars,
      timers, callback, server, KeepAlive, HandleDisconnect, TypeOK,
      Connected, ClientStates
  <1>11. CASE PingSent
    <2>1. pingOutstanding' \in BOOLEAN /\ pingDue' \in BOOLEAN
      BY <1>11 DEF PingSent, TReaches, Leave, Cas, lVars, timers, callback,
        server, TypeOK
    <2> QED
      BY <1>11, <2>1, AwsAssumption DEF PingSent, TReaches, Leave, Cas, lVars,
        timers, callback, server, TypeOK, Connected, ClientStates
  <1>12. CASE Disconnected
    BY <1>12, AwsAssumption DEF Disconnected, TReaches, Leave, Cas, lVars,
      timers, callback, server, TypeOK, Connected, ClientStates
  <1>13. CASE TlsConnected
    <2>1. partial' \in BOOLEAN /\ subscribed' \in BOOLEAN /\ resubFailed' \in BOOLEAN
      BY <1>13 DEF TlsConnected, TReaches, Leave, Cas, lVars, timers,
        callback, server, TypeOK
    <2> QED
      BY <1>13, <2>1, AwsAssumption DEF TlsConnected, TReaches, Leave, Cas,
        lVars, timers, callback, server, TypeOK, Connected, ClientStates
  <1>14. CASE TlsRefused
    BY <1>14, AwsAssumption DEF TlsRefused, TReaches, Leave, Cas, lVars,
      timers, callback, server, ConnectFails, BackOff, TypeOK, Connected,
      ClientStates
  <1>15. CASE Connack
    <2>1. pingOutstanding' \in BOOLEAN /\ pingDue' \in BOOLEAN /\ reconnectDue' \in BOOLEAN
      BY <1>15 DEF Connack, BackInYield, TReaches, Leave, Cas, lVars, timers, callback,
        server, BackOff, TypeOK
    <2> QED
      BY <1>15, <2>1, AwsAssumption DEF Connack, BackInYield, TReaches, Leave, Cas, lVars,
        timers, callback, server, BackOff, TypeOK, Connected, ClientStates
  <1>16. CASE NoConnack
    BY <1>16, AwsAssumption DEF NoConnack, TReaches, Leave, Cas, lVars,
      timers, callback, server, ConnectFails, BackOff, TypeOK, Connected,
      ClientStates
  <1>17. CASE Resubscribed
    <2>1. reconnectDue' \in BOOLEAN
      BY <1>17 DEF Resubscribed, BackInYield, TReaches, Leave, Cas, lVars, timers,
        callback, server, BackOff, TypeOK
    <2> QED
      BY <1>17, <2>1, AwsAssumption DEF Resubscribed, BackInYield, TReaches, Leave, Cas,
        lVars, timers, callback, server, BackOff, TypeOK, Connected,
        ClientStates
  <1>18. CASE ResubscribeFails
    BY <1>18, AwsAssumption DEF ResubscribeFails, TReaches, Leave, Cas, lVars,
      timers, callback, server, BackOff, TypeOK, Connected, ClientStates
  <1>19. CASE Subscribe
    BY <1>19, AwsAssumption DEF Subscribe, LReaches, LStays, Env, timers,
      callback, server, TypeOK, Connected, ClientStates
  <1>20. CASE Publish
    <2>1. passed' \in BOOLEAN
      BY <1>20 DEF Publish, LReaches, LStays, Env, timers, callback, server,
        TypeOK
    <2> QED
      BY <1>20, <2>1, AwsAssumption DEF Publish, LReaches, LStays, Env,
        timers, callback, server, TypeOK, Connected, ClientStates
  <1>21. CASE Check
    BY <1>21, AwsAssumption DEF Check, LReaches, LStays, Env, timers,
      callback, server, Over, TypeOK, Connected, ClientStates
  <1>22. CASE Lock
    BY <1>22, AwsAssumption DEF Lock, LReaches, LStays, Env, timers, callback,
      server, TypeOK, Connected, ClientStates
  <1>23. CASE Compare
    <2>1. overlap' \in BOOLEAN
      BY <1>23 DEF Compare, LReaches, LStays, Env, timers, callback, server,
        Claimed, TypeOK
    <2> QED
      BY <1>23, <2>1, AwsAssumption DEF Compare, LReaches, LStays, Env,
        timers, callback, server, Claimed, TypeOK, Connected, ClientStates
  <1>24. CASE Unlock
    <2>1. held' \in BOOLEAN
      BY <1>24 DEF Unlock, LReaches, LStays, Env, timers, callback, server,
        Over, TypeOK
    <2> QED
      BY <1>24, <2>1, AwsAssumption DEF Unlock, LReaches, LStays, Env, timers,
        callback, server, Over, TypeOK, Connected, ClientStates
  <1>25. CASE Serialise
    BY <1>25, AwsAssumption DEF Serialise, LReaches, LStays, Env, timers,
      callback, server, TypeOK, Connected, ClientStates
  <1>26. CASE Sent
    <2>1. passed' \in BOOLEAN
      BY <1>26 DEF Sent, LReaches, LStays, Env, timers, callback, server,
        TypeOK
    <2> QED
      BY <1>26, <2>1, AwsAssumption DEF Sent, LReaches, LStays, Env, timers,
        callback, server, TypeOK, Connected, ClientStates
  <1>27. CASE Suback
    <2>1. held' \in BOOLEAN /\ subscribed' \in BOOLEAN /\ handlers' \in BOOLEAN
      BY <1>27 DEF Suback, LReaches, LStays, Env, timers, callback, server,
        TypeOK
    <2> QED
      BY <1>27, <2>1, AwsAssumption DEF Suback, LReaches, LStays, Env, timers,
        callback, server, TypeOK, Connected, ClientStates
  <1>28. CASE Restore
    BY <1>28, AwsAssumption DEF Restore, LReaches, LStays, Env, timers,
      callback, server, Claimed, TypeOK, Connected, ClientStates
  <1>29. CASE ServerSends
    BY <1>29, AwsAssumption DEF ServerSends, Outside, callback, lVars, TypeOK,
      Connected, ClientStates
  <1>30. CASE LinkDies
    <2>1. partial' \in BOOLEAN /\ network' \in BOOLEAN
      BY <1>30 DEF LinkDies, Outside, callback, lVars, TypeOK
    <2> QED
      BY <1>30, <2>1, AwsAssumption DEF LinkDies, Outside, callback, lVars,
        TypeOK, Connected, ClientStates
  <1>31. CASE NetworkReturns
    BY <1>31, AwsAssumption DEF NetworkReturns, Outside, callback, lVars,
      TypeOK, Connected, ClientStates
  <1>32. CASE PingTimer
    BY <1>32, AwsAssumption DEF PingTimer, Outside, callback, lVars, TypeOK,
      Connected, ClientStates
  <1>33. CASE ReconnectTimer
    BY <1>33, AwsAssumption DEF ReconnectTimer, Outside, callback, lVars,
      TypeOK, Connected, ClientStates
  <1>34. CASE UNCHANGED vars
    BY <1>34, AwsAssumption DEF vars, timers, callback, lVars, server, TypeOK,
      Connected, ClientStates
  <1> QED
    BY <1>1, <1>2, <1>3, <1>4, <1>5, <1>6, <1>7, <1>8, <1>9, <1>10, <1>11,
      <1>12, <1>13, <1>14, <1>15, <1>16, <1>17, <1>18, <1>19, <1>20, <1>21,
      <1>22, <1>23, <1>24, <1>25, <1>26, <1>27, <1>28, <1>29, <1>30, <1>31,
      <1>32, <1>33, <1>34, NextSplit

(* TypeOK: the values every variable of the client and its tasks takes.    *)
THEOREM TypeCorrect == Spec => []TypeOK
<1>1. Init => TypeOK
  <2> SUFFICES ASSUME Init PROVE TypeOK
    OBVIOUS
  <2>1. /\ pingOutstanding \in BOOLEAN /\ pingDue \in BOOLEAN
        /\ reconnectDue \in BOOLEAN /\ held \in BOOLEAN /\ handlers \in BOOLEAN
        /\ passed \in BOOLEAN /\ overlap \in BOOLEAN /\ clash \in BOOLEAN
        /\ partial \in BOOLEAN /\ network \in BOOLEAN
        /\ subscribed \in BOOLEAN /\ resubFailed \in BOOLEAN
    BY DEF Init
  <2>2. inbox \in Seq({"command", "pong"})
    BY DEF Init
  <2> QED
    BY <2>1, <2>2, AwsAssumption DEF Init, TypeOK, ClientStates, Connected
<1>2. TypeOK /\ [Next]_vars => TypeOK'
  BY TypeStep
<1> QED  BY <1>1, <1>2, PTL DEF Spec

-----------------------------------------------------------------------------
(* Every step keeps the claims.                                            *)
LEMMA OwnStep ==
  ASSUME TypeOK, Own, [Next]_vars
  PROVE  Own'
PROOF
  <1>1. CASE Yield
    BY <1>1 DEF Yield, TReaches, Leave, Cas, lVars, timers, callback, server,
      TypeOK, Own, CallOwns, WriteOwn, TPlace, TPacket, Alive, LInside,
      TWriting, Connected, Claimed
  <1>2. CASE Reconnect
    BY <1>2 DEF Reconnect, TReaches, Leave, Cas, lVars, timers, callback,
      server, TypeOK, Own, CallOwns, WriteOwn, TPlace, TPacket, Alive,
      LInside, TWriting, Connected, Claimed
  <1>3. CASE ReadNothing
    BY <1>3 DEF ReadNothing, TReaches, Leave, Cas, lVars, timers, callback,
      server, KeepAlive, HandleDisconnect, TypeOK, Own, CallOwns, WriteOwn,
      TPlace, TPacket, Alive, LInside, TWriting, Connected, Claimed
  <1>4. CASE ReadReset
    BY <1>4 DEF ReadReset, TReaches, Leave, Cas, lVars, timers, callback,
      server, HandleDisconnect, TypeOK, Own, CallOwns, WriteOwn, TPlace,
      TPacket, Alive, LInside, TWriting, Connected, Claimed
  <1>5. CASE ReadPartial
    BY <1>5 DEF ReadPartial, TReaches, Leave, Cas, lVars, timers, callback,
      server, TypeOK, Own, CallOwns, WriteOwn, TPlace, TPacket, Alive,
      LInside, TWriting, Connected, Claimed
  <1>6. CASE ReadPong
    BY <1>6 DEF ReadPong, TReaches, Leave, Cas, lVars, timers, callback,
      server, TypeOK, Own, CallOwns, WriteOwn, TPlace, TPacket, Alive,
      LInside, TWriting, Connected, Claimed
  <1>7. CASE ReadCommand
    BY <1>7 DEF ReadCommand, TReaches, Leave, Cas, lVars, timers, callback,
      server, TypeOK, Own, CallOwns, WriteOwn, TPlace, TPacket, Alive,
      LInside, TWriting, Connected, Claimed
  <1>8. CASE Reply
    BY <1>8 DEF Reply, TReaches, Leave, Cas, lVars, timers, callback, server,
      TypeOK, Own, CallOwns, WriteOwn, TPlace, TPacket, Alive, LInside,
      TWriting, Connected, Claimed
  <1>9. CASE ReplySent
    BY <1>9 DEF ReplySent, TReaches, Leave, Cas, lVars, timers, callback,
      server, TypeOK, Own, CallOwns, WriteOwn, TPlace, TPacket, Alive,
      LInside, TWriting, Connected, Claimed
  <1>10. CASE CallbackReturn
    BY <1>10 DEF CallbackReturn, TReaches, Leave, Cas, lVars, timers,
      callback, server, KeepAlive, HandleDisconnect, TypeOK, Own, CallOwns,
      WriteOwn, TPlace, TPacket, Alive, LInside, TWriting, Connected, Claimed
  <1>11. CASE PingSent
    BY <1>11 DEF PingSent, TReaches, Leave, Cas, lVars, timers, callback,
      server, TypeOK, Own, CallOwns, WriteOwn, TPlace, TPacket, Alive,
      LInside, TWriting, Connected, Claimed
  <1>12. CASE Disconnected
    BY <1>12 DEF Disconnected, TReaches, Leave, Cas, lVars, timers, callback,
      server, TypeOK, Own, CallOwns, WriteOwn, TPlace, TPacket, Alive,
      LInside, TWriting, Connected, Claimed
  <1>13. CASE TlsConnected
    BY <1>13 DEF TlsConnected, TReaches, Leave, Cas, lVars, timers, callback,
      server, TypeOK, Own, CallOwns, WriteOwn, TPlace, TPacket, Alive,
      LInside, TWriting, Connected, Claimed
  <1>14. CASE TlsRefused
    BY <1>14 DEF TlsRefused, TReaches, Leave, Cas, lVars, timers, callback,
      server, ConnectFails, BackOff, TypeOK, Own, CallOwns, WriteOwn, TPlace,
      TPacket, Alive, LInside, TWriting, Connected, Claimed
  <1>15. CASE Connack
    BY <1>15 DEF Connack, BackInYield, TReaches, Leave, Cas, lVars, timers, callback,
      server, BackOff, TypeOK, Own, CallOwns, WriteOwn, TPlace, TPacket,
      Alive, LInside, TWriting, Connected, Claimed
  <1>16. CASE NoConnack
    BY <1>16 DEF NoConnack, TReaches, Leave, Cas, lVars, timers, callback,
      server, ConnectFails, BackOff, TypeOK, Own, CallOwns, WriteOwn, TPlace,
      TPacket, Alive, LInside, TWriting, Connected, Claimed
  <1>17. CASE Resubscribed
    BY <1>17 DEF Resubscribed, BackInYield, TReaches, Leave, Cas, lVars, timers, callback,
      server, BackOff, TypeOK, Own, CallOwns, WriteOwn, TPlace, TPacket,
      Alive, LInside, TWriting, Connected, Claimed
  <1>18. CASE ResubscribeFails
    BY <1>18 DEF ResubscribeFails, TReaches, Leave, Cas, lVars, timers,
      callback, server, BackOff, TypeOK, Own, CallOwns, WriteOwn, TPlace,
      TPacket, Alive, LInside, TWriting, Connected, Claimed
  <1>19. CASE Subscribe
    BY <1>19 DEF Subscribe, LReaches, LStays, Env, timers, callback, server,
      TypeOK, Own, CallOwns, WriteOwn, TPlace, TPacket, Alive, LInside,
      TWriting, Connected, Claimed
  <1>20. CASE Publish
    BY <1>20 DEF Publish, LReaches, LStays, Env, timers, callback, server,
      TypeOK, Own, CallOwns, WriteOwn, TPlace, TPacket, Alive, LInside,
      TWriting, Connected, Claimed
  <1>21. CASE Check
    BY <1>21 DEF Check, LReaches, LStays, Env, timers, callback, server, Over,
      TypeOK, Own, CallOwns, WriteOwn, TPlace, TPacket, Alive, LInside,
      TWriting, Connected, Claimed
  <1>22. CASE Lock
    BY <1>22 DEF Lock, LReaches, LStays, Env, timers, callback, server,
      TypeOK, Own, CallOwns, WriteOwn, TPlace, TPacket, Alive, LInside,
      TWriting, Connected, Claimed
  <1>23. CASE Compare
    BY <1>23 DEF Compare, LReaches, LStays, Env, timers, callback, server,
      Claimed, TypeOK, Own, CallOwns, WriteOwn, TPlace, TPacket, Alive,
      LInside, TWriting, Connected, Claimed
  <1>24. CASE Unlock
    BY <1>24 DEF Unlock, LReaches, LStays, Env, timers, callback, server,
      Over, TypeOK, Own, CallOwns, WriteOwn, TPlace, TPacket, Alive, LInside,
      TWriting, Connected, Claimed
  <1>25. CASE Serialise
    BY <1>25 DEF Serialise, LReaches, LStays, Env, timers, callback, server,
      TypeOK, Own, CallOwns, WriteOwn, TPlace, TPacket, Alive, LInside,
      TWriting, Connected, Claimed
  <1>26. CASE Sent
    BY <1>26 DEF Sent, LReaches, LStays, Env, timers, callback, server,
      TypeOK, Own, CallOwns, WriteOwn, TPlace, TPacket, Alive, LInside,
      TWriting, Connected, Claimed
  <1>27. CASE Suback
    BY <1>27 DEF Suback, LReaches, LStays, Env, timers, callback, server,
      TypeOK, Own, CallOwns, WriteOwn, TPlace, TPacket, Alive, LInside,
      TWriting, Connected, Claimed
  <1>28. CASE Restore
    BY <1>28 DEF Restore, LReaches, LStays, Env, timers, callback, server,
      Claimed, TypeOK, Own, CallOwns, WriteOwn, TPlace, TPacket, Alive,
      LInside, TWriting, Connected, Claimed
  <1>29. CASE ServerSends
    BY <1>29 DEF ServerSends, Outside, callback, lVars, TypeOK, Own, CallOwns,
      WriteOwn, TPlace, TPacket, Alive, LInside, TWriting, Connected, Claimed
  <1>30. CASE LinkDies
    BY <1>30 DEF LinkDies, Outside, callback, lVars, TypeOK, Own, CallOwns,
      WriteOwn, TPlace, TPacket, Alive, LInside, TWriting, Connected, Claimed
  <1>31. CASE NetworkReturns
    BY <1>31 DEF NetworkReturns, Outside, callback, lVars, TypeOK, Own,
      CallOwns, WriteOwn, TPlace, TPacket, Alive, LInside, TWriting,
      Connected, Claimed
  <1>32. CASE PingTimer
    BY <1>32 DEF PingTimer, Outside, callback, lVars, TypeOK, Own, CallOwns,
      WriteOwn, TPlace, TPacket, Alive, LInside, TWriting, Connected, Claimed
  <1>33. CASE ReconnectTimer
    BY <1>33 DEF ReconnectTimer, Outside, callback, lVars, TypeOK, Own,
      CallOwns, WriteOwn, TPlace, TPacket, Alive, LInside, TWriting,
      Connected, Claimed
  <1>34. CASE UNCHANGED vars
    BY <1>34 DEF vars, timers, callback, lVars, server, Own, CallOwns,
      WriteOwn, TPlace, TPacket, Alive, LInside, TWriting, Connected, Claimed
  <1> QED
    BY <1>1, <1>2, <1>3, <1>4, <1>5, <1>6, <1>7, <1>8, <1>9, <1>10, <1>11,
      <1>12, <1>13, <1>14, <1>15, <1>16, <1>17, <1>18, <1>19, <1>20, <1>21,
      <1>22, <1>23, <1>24, <1>25, <1>26, <1>27, <1>28, <1>29, <1>30, <1>31,
      <1>32, <1>33, <1>34, NextSplit

(* The claims hold throughout: the invariant the two below follow from.    *)
THEOREM Inductive == Spec => []Own
<1>1. Init => Own
  BY DEF Init, Own, CallOwns, WriteOwn, TPlace, TPacket, Alive, LInside, TWriting,
     Connected
<1>2. TypeOK /\ Own /\ [Next]_vars => Own'
  BY OwnStep
<1> QED  BY <1>1, <1>2, TypeCorrect, PTL DEF Spec

(* PacketsOwn: the shared write buffer holds the sender's own packet, and  *)
(* only one task sends at a time.                                          *)
THEOREM PacketsOwnHolds == Spec => []PacketsOwn
<1>1. Own => PacketsOwn
  BY DEF Own, CallOwns, WriteOwn, TPacket, PacketsOwn, LInside, TWriting
<1> QED  BY <1>1, Inductive, PTL

(* StackInUseIsAlive: nobody reads or writes a destroyed TLS context.      *)
THEOREM StackInUseIsAliveHolds == Spec => []StackInUseIsAlive
<1>1. TypeOK /\ Own => StackInUseIsAlive
  BY DEF TypeOK, Own, CallOwns, TPlace, Alive, StackInUseIsAlive, LInside, Claimed,
     Connected
<1> QED  BY <1>1, Inductive, TypeCorrect, PTL

-----------------------------------------------------------------------------
(* As long as nothing was disturbed the place where T blocks fixes the     *)
(* state altogether, and L is inside only while T sleeps.                  *)
Regular ==
  ~overlap /\ ~clash =>
    /\ LInside => tpc = "sleep" /\ lsaved = "IDLE"
    /\ tpc = "sleep" /\ ~LInside => clientState \in {"IDLE", "PENDING"}
    /\ tpc = "callback" => clientState = "WAIT_FOR_CB"
    /\ tpc \in {"tls", "connect"} => clientState = "CONNECTING"

(* Every step keeps Regular.                                               *)
LEMMA RegularStep ==
  ASSUME TypeOK, Own, Regular, [Next]_vars
  PROVE  Regular'
PROOF
  <1>1. CASE Yield
    BY <1>1 DEF Yield, TReaches, Leave, Cas, lVars, timers, callback, server,
      TypeOK, Regular, Own, CallOwns, WriteOwn, TPlace, TPacket, Alive,
      LInside, TWriting, Connected, Claimed
  <1>2. CASE Reconnect
    BY <1>2 DEF Reconnect, TReaches, Leave, Cas, lVars, timers, callback,
      server, TypeOK, Regular, Own, CallOwns, WriteOwn, TPlace, TPacket,
      Alive, LInside, TWriting, Connected, Claimed
  <1>3. CASE ReadNothing
    BY <1>3 DEF ReadNothing, TReaches, Leave, Cas, lVars, timers, callback,
      server, KeepAlive, HandleDisconnect, TypeOK, Regular, Own, CallOwns,
      WriteOwn, TPlace, TPacket, Alive, LInside, TWriting, Connected, Claimed
  <1>4. CASE ReadReset
    BY <1>4 DEF ReadReset, TReaches, Leave, Cas, lVars, timers, callback,
      server, HandleDisconnect, TypeOK, Regular, Own, CallOwns, WriteOwn,
      TPlace, TPacket, Alive, LInside, TWriting, Connected, Claimed
  <1>5. CASE ReadPartial
    BY <1>5 DEF ReadPartial, TReaches, Leave, Cas, lVars, timers, callback,
      server, TypeOK, Regular, Own, CallOwns, WriteOwn, TPlace, TPacket,
      Alive, LInside, TWriting, Connected, Claimed
  <1>6. CASE ReadPong
    BY <1>6 DEF ReadPong, TReaches, Leave, Cas, lVars, timers, callback,
      server, TypeOK, Regular, Own, CallOwns, WriteOwn, TPlace, TPacket,
      Alive, LInside, TWriting, Connected, Claimed
  <1>7. CASE ReadCommand
    BY <1>7 DEF ReadCommand, TReaches, Leave, Cas, lVars, timers, callback,
      server, TypeOK, Regular, Own, CallOwns, WriteOwn, TPlace, TPacket,
      Alive, LInside, TWriting, Connected, Claimed
  <1>8. CASE Reply
    BY <1>8 DEF Reply, TReaches, Leave, Cas, lVars, timers, callback, server,
      TypeOK, Regular, Own, CallOwns, WriteOwn, TPlace, TPacket, Alive,
      LInside, TWriting, Connected, Claimed
  <1>9. CASE ReplySent
    BY <1>9 DEF ReplySent, TReaches, Leave, Cas, lVars, timers, callback,
      server, TypeOK, Regular, Own, CallOwns, WriteOwn, TPlace, TPacket,
      Alive, LInside, TWriting, Connected, Claimed
  <1>10. CASE CallbackReturn
    BY <1>10 DEF CallbackReturn, TReaches, Leave, Cas, lVars, timers,
      callback, server, KeepAlive, HandleDisconnect, TypeOK, Regular, Own,
      CallOwns, WriteOwn, TPlace, TPacket, Alive, LInside, TWriting,
      Connected, Claimed
  <1>11. CASE PingSent
    BY <1>11 DEF PingSent, TReaches, Leave, Cas, lVars, timers, callback,
      server, TypeOK, Regular, Own, CallOwns, WriteOwn, TPlace, TPacket,
      Alive, LInside, TWriting, Connected, Claimed
  <1>12. CASE Disconnected
    BY <1>12 DEF Disconnected, TReaches, Leave, Cas, lVars, timers, callback,
      server, TypeOK, Regular, Own, CallOwns, WriteOwn, TPlace, TPacket,
      Alive, LInside, TWriting, Connected, Claimed
  <1>13. CASE TlsConnected
    BY <1>13 DEF TlsConnected, TReaches, Leave, Cas, lVars, timers, callback,
      server, TypeOK, Regular, Own, CallOwns, WriteOwn, TPlace, TPacket,
      Alive, LInside, TWriting, Connected, Claimed
  <1>14. CASE TlsRefused
    BY <1>14 DEF TlsRefused, TReaches, Leave, Cas, lVars, timers, callback,
      server, ConnectFails, BackOff, TypeOK, Regular, Own, CallOwns, WriteOwn,
      TPlace, TPacket, Alive, LInside, TWriting, Connected, Claimed
  <1>15. CASE Connack
    BY <1>15 DEF Connack, BackInYield, TReaches, Leave, Cas, lVars, timers, callback,
      server, BackOff, TypeOK, Regular, Own, CallOwns, WriteOwn, TPlace,
      TPacket, Alive, LInside, TWriting, Connected, Claimed
  <1>16. CASE NoConnack
    BY <1>16 DEF NoConnack, TReaches, Leave, Cas, lVars, timers, callback,
      server, ConnectFails, BackOff, TypeOK, Regular, Own, CallOwns, WriteOwn,
      TPlace, TPacket, Alive, LInside, TWriting, Connected, Claimed
  <1>17. CASE Resubscribed
    BY <1>17 DEF Resubscribed, BackInYield, TReaches, Leave, Cas, lVars, timers, callback,
      server, BackOff, TypeOK, Regular, Own, CallOwns, WriteOwn, TPlace,
      TPacket, Alive, LInside, TWriting, Connected, Claimed
  <1>18. CASE ResubscribeFails
    BY <1>18 DEF ResubscribeFails, TReaches, Leave, Cas, lVars, timers,
      callback, server, BackOff, TypeOK, Regular, Own, CallOwns, WriteOwn,
      TPlace, TPacket, Alive, LInside, TWriting, Connected, Claimed
  <1>19. CASE Subscribe
    BY <1>19 DEF Subscribe, LReaches, LStays, Env, timers, callback, server,
      TypeOK, Regular, Own, CallOwns, WriteOwn, TPlace, TPacket, Alive,
      LInside, TWriting, Connected, Claimed
  <1>20. CASE Publish
    BY <1>20 DEF Publish, LReaches, LStays, Env, timers, callback, server,
      TypeOK, Regular, Own, CallOwns, WriteOwn, TPlace, TPacket, Alive,
      LInside, TWriting, Connected, Claimed
  <1>21. CASE Check
    BY <1>21 DEF Check, LReaches, LStays, Env, timers, callback, server, Over,
      TypeOK, Regular, Own, CallOwns, WriteOwn, TPlace, TPacket, Alive,
      LInside, TWriting, Connected, Claimed
  <1>22. CASE Lock
    BY <1>22 DEF Lock, LReaches, LStays, Env, timers, callback, server,
      TypeOK, Regular, Own, CallOwns, WriteOwn, TPlace, TPacket, Alive,
      LInside, TWriting, Connected, Claimed
  <1>23. CASE Compare
    BY <1>23 DEF Compare, LReaches, LStays, Env, timers, callback, server,
      Claimed, TypeOK, Regular, Own, CallOwns, WriteOwn, TPlace, TPacket,
      Alive, LInside, TWriting, Connected, Claimed
  <1>24. CASE Unlock
    BY <1>24 DEF Unlock, LReaches, LStays, Env, timers, callback, server,
      Over, TypeOK, Regular, Own, CallOwns, WriteOwn, TPlace, TPacket, Alive,
      LInside, TWriting, Connected, Claimed
  <1>25. CASE Serialise
    BY <1>25 DEF Serialise, LReaches, LStays, Env, timers, callback, server,
      TypeOK, Regular, Own, CallOwns, WriteOwn, TPlace, TPacket, Alive,
      LInside, TWriting, Connected, Claimed
  <1>26. CASE Sent
    BY <1>26 DEF Sent, LReaches, LStays, Env, timers, callback, server,
      TypeOK, Regular, Own, CallOwns, WriteOwn, TPlace, TPacket, Alive,
      LInside, TWriting, Connected, Claimed
  <1>27. CASE Suback
    BY <1>27 DEF Suback, LReaches, LStays, Env, timers, callback, server,
      TypeOK, Regular, Own, CallOwns, WriteOwn, TPlace, TPacket, Alive,
      LInside, TWriting, Connected, Claimed
  <1>28. CASE Restore
    BY <1>28 DEF Restore, LReaches, LStays, Env, timers, callback, server,
      Claimed, TypeOK, Regular, Own, CallOwns, WriteOwn, TPlace, TPacket,
      Alive, LInside, TWriting, Connected, Claimed
  <1>29. CASE ServerSends
    BY <1>29 DEF ServerSends, Outside, callback, lVars, TypeOK, Regular, Own,
      CallOwns, WriteOwn, TPlace, TPacket, Alive, LInside, TWriting,
      Connected, Claimed
  <1>30. CASE LinkDies
    BY <1>30 DEF LinkDies, Outside, callback, lVars, TypeOK, Regular, Own,
      CallOwns, WriteOwn, TPlace, TPacket, Alive, LInside, TWriting,
      Connected, Claimed
  <1>31. CASE NetworkReturns
    BY <1>31 DEF NetworkReturns, Outside, callback, lVars, TypeOK, Regular,
      Own, CallOwns, WriteOwn, TPlace, TPacket, Alive, LInside, TWriting,
      Connected, Claimed
  <1>32. CASE PingTimer
    BY <1>32 DEF PingTimer, Outside, callback, lVars, TypeOK, Regular, Own,
      CallOwns, WriteOwn, TPlace, TPacket, Alive, LInside, TWriting,
      Connected, Claimed
  <1>33. CASE ReconnectTimer
    BY <1>33 DEF ReconnectTimer, Outside, callback, lVars, TypeOK, Regular,
      Own, CallOwns, WriteOwn, TPlace, TPacket, Alive, LInside, TWriting,
      Connected, Claimed
  <1>34. CASE UNCHANGED vars
    BY <1>34 DEF vars, timers, callback, lVars, server, Own, CallOwns,
      WriteOwn, TPlace, TPacket, Alive, LInside, TWriting, Connected, Claimed,
      Regular
  <1> QED
    BY <1>1, <1>2, <1>3, <1>4, <1>5, <1>6, <1>7, <1>8, <1>9, <1>10, <1>11,
      <1>12, <1>13, <1>14, <1>15, <1>16, <1>17, <1>18, <1>19, <1>20, <1>21,
      <1>22, <1>23, <1>24, <1>25, <1>26, <1>27, <1>28, <1>29, <1>30, <1>31,
      <1>32, <1>33, <1>34, NextSplit

(* RestIsUsable: an undisturbed client never rests in a state that yield   *)
(* refuses for good.                                                       *)
THEOREM RestIsUsableHolds == Spec => []RestIsUsable
<1>1. Init => Regular
  BY DEF Init, Regular, LInside
<1>2. TypeOK /\ Own /\ Regular /\ [Next]_vars => Regular'
  BY RegularStep
<1>3. Regular => RestIsUsable
  BY DEF Regular, RestIsUsable
<1> QED  BY <1>1, <1>2, <1>3, Inductive, TypeCorrect, PTL DEF Spec

-----------------------------------------------------------------------------
(* A connection in use is subscribed, not only an idle one.                *)
UsedIsSubscribed ==
  clientState \in {"IDLE", "YIELD", "PUBLISH", "SUBSCRIBE", "WAIT_FOR_CB"} /\ handlers
    => subscribed \/ resubFailed

(* Every step keeps UsedIsSubscribed.                                      *)
LEMMA SubscribedStep ==
  ASSUME TypeOK, Own, UsedIsSubscribed, [Next]_vars
  PROVE  UsedIsSubscribed'
PROOF
  <1>1. CASE Yield
    BY <1>1 DEF Yield, TReaches, Leave, Cas, lVars, timers, callback, server,
      TypeOK, UsedIsSubscribed, Own, CallOwns, WriteOwn, TPlace, TPacket,
      Alive, LInside, TWriting, Connected, Claimed
  <1>2. CASE Reconnect
    BY <1>2 DEF Reconnect, TReaches, Leave, Cas, lVars, timers, callback,
      server, TypeOK, UsedIsSubscribed, Own, CallOwns, WriteOwn, TPlace,
      TPacket, Alive, LInside, TWriting, Connected, Claimed
  <1>3. CASE ReadNothing
    <2>1. clientState = "YIELD"
      BY <1>3 DEF ReadNothing, Own, TPlace
    <2>2. UNCHANGED <<handlers, subscribed, resubFailed>>
      BY <1>3 DEF ReadNothing, KeepAlive, HandleDisconnect, Leave, TReaches,
        lVars, server
    <2> QED
      BY <2>1, <2>2 DEF UsedIsSubscribed
  <1>4. CASE ReadReset
    BY <1>4 DEF ReadReset, TReaches, Leave, Cas, lVars, timers, callback,
      server, HandleDisconnect, TypeOK, UsedIsSubscribed, Own, CallOwns,
      WriteOwn, TPlace, TPacket, Alive, LInside, TWriting, Connected, Claimed
  <1>5. CASE ReadPartial
    BY <1>5 DEF ReadPartial, TReaches, Leave, Cas, lVars, timers, callback,
      server, TypeOK, UsedIsSubscribed, Own, CallOwns, WriteOwn, TPlace,
      TPacket, Alive, LInside, TWriting, Connected, Claimed
  <1>6. CASE ReadPong
    BY <1>6 DEF ReadPong, TReaches, Leave, Cas, lVars, timers, callback,
      server, TypeOK, UsedIsSubscribed, Own, CallOwns, WriteOwn, TPlace,
      TPacket, Alive, LInside, TWriting, Connected, Claimed
  <1>7. CASE ReadCommand
    BY <1>7 DEF ReadCommand, TReaches, Leave, Cas, lVars, timers, callback,
      server, TypeOK, UsedIsSubscribed, Own, CallOwns, WriteOwn, TPlace,
      TPacket, Alive, LInside, TWriting, Connected, Claimed
  <1>8. CASE Reply
    BY <1>8 DEF Reply, TReaches, Leave, Cas, lVars, timers, callback, server,
      TypeOK, UsedIsSubscribed, Own, CallOwns, WriteOwn, TPlace, TPacket,
      Alive, LInside, TWriting, Connected, Claimed
  <1>9. CASE ReplySent
    BY <1>9 DEF ReplySent, TReaches, Leave, Cas, lVars, timers, callback,
      server, TypeOK, UsedIsSubscribed, Own, CallOwns, WriteOwn, TPlace,
      TPacket, Alive, LInside, TWriting, Connected, Claimed
  <1>10. CASE CallbackReturn
    BY <1>10 DEF CallbackReturn, TReaches, Leave, Cas, lVars, timers,
      callback, server, KeepAlive, HandleDisconnect, TypeOK, UsedIsSubscribed,
      Own, CallOwns, WriteOwn, TPlace, TPacket, Alive, LInside, TWriting,
      Connected, Claimed
  <1>11. CASE PingSent
    BY <1>11 DEF PingSent, TReaches, Leave, Cas, lVars, timers, callback,
      server, TypeOK, UsedIsSubscribed, Own, CallOwns, WriteOwn, TPlace,
      TPacket, Alive, LInside, TWriting, Connected, Claimed
  <1>12. CASE Disconnected
    BY <1>12 DEF Disconnected, TReaches, Leave, Cas, lVars, timers, callback,
      server, TypeOK, UsedIsSubscribed, Own, CallOwns, WriteOwn, TPlace,
      TPacket, Alive, LInside, TWriting, Connected, Claimed
  <1>13. CASE TlsConnected
    BY <1>13 DEF TlsConnected, TReaches, Leave, Cas, lVars, timers, callback,
      server, TypeOK, UsedIsSubscribed, Own, CallOwns, WriteOwn, TPlace,
      TPacket, Alive, LInside, TWriting, Connected, Claimed
  <1>14. CASE TlsRefused
    BY <1>14 DEF TlsRefused, TReaches, Leave, Cas, lVars, timers, callback,
      server, ConnectFails, BackOff, TypeOK, UsedIsSubscribed, Own, CallOwns,
      WriteOwn, TPlace, TPacket, Alive, LInside, TWriting, Connected, Claimed
  <1>15. CASE Connack
    BY <1>15 DEF Connack, BackInYield, TReaches, Leave, Cas, lVars, timers, callback,
      server, BackOff, TypeOK, UsedIsSubscribed, Own, CallOwns, WriteOwn,
      TPlace, TPacket, Alive, LInside, TWriting, Connected, Claimed
  <1>16. CASE NoConnack
    BY <1>16 DEF NoConnack, TReaches, Leave, Cas, lVars, timers, callback,
      server, ConnectFails, BackOff, TypeOK, UsedIsSubscribed, Own, CallOwns,
      WriteOwn, TPlace, TPacket, Alive, LInside, TWriting, Connected, Claimed
  <1>17. CASE Resubscribed
    BY <1>17 DEF Resubscribed, BackInYield, TReaches, Leave, Cas, lVars, timers, callback,
      server, BackOff, TypeOK, UsedIsSubscribed, Own, CallOwns, WriteOwn,
      TPlace, TPacket, Alive, LInside, TWriting, Connected, Claimed
  <1>18. CASE ResubscribeFails
    BY <1>18 DEF ResubscribeFails, TReaches, Leave, Cas, lVars, timers,
      callback, server, BackOff, TypeOK, UsedIsSubscribed, Own, CallOwns,
      WriteOwn, TPlace, TPacket, Alive, LInside, TWriting, Connected, Claimed
  <1>19. CASE Subscribe
    BY <1>19 DEF Subscribe, LReaches, LStays, Env, timers, callback, server,
      TypeOK, UsedIsSubscribed, Own, CallOwns, WriteOwn, TPlace, TPacket,
      Alive, LInside, TWriting, Connected, Claimed
  <1>20. CASE Publish
    BY <1>20 DEF Publish, LReaches, LStays, Env, timers, callback, server,
      TypeOK, UsedIsSubscribed, Own, CallOwns, WriteOwn, TPlace, TPacket,
      Alive, LInside, TWriting, Connected, Claimed
  <1>21. CASE Check
    BY <1>21 DEF Check, LReaches, LStays, Env, timers, callback, server, Over,
      TypeOK, UsedIsSubscribed, Own, CallOwns, WriteOwn, TPlace, TPacket,
      Alive, LInside, TWriting, Connected, Claimed
  <1>22. CASE Lock
    BY <1>22 DEF Lock, LReaches, LStays, Env, timers, callback, server,
      TypeOK, UsedIsSubscribed, Own, CallOwns, WriteOwn, TPlace, TPacket,
      Alive, LInside, TWriting, Connected, Claimed
  <1>23. CASE Compare
    BY <1>23 DEF Compare, LReaches, LStays, Env, timers, callback, server,
      Claimed, TypeOK, UsedIsSubscribed, Own, CallOwns, WriteOwn, TPlace,
      TPacket, Alive, LInside, TWriting, Connected, Claimed
  <1>24. CASE Unlock
    BY <1>24 DEF Unlock, LReaches, LStays, Env, timers, callback, server,
      Over, TypeOK, UsedIsSubscribed, Own, CallOwns, WriteOwn, TPlace,
      TPacket, Alive, LInside, TWriting, Connected, Claimed
  <1>25. CASE Serialise
    BY <1>25 DEF Serialise, LReaches, LStays, Env, timers, callback, server,
      TypeOK, UsedIsSubscribed, Own, CallOwns, WriteOwn, TPlace, TPacket,
      Alive, LInside, TWriting, Connected, Claimed
  <1>26. CASE Sent
    BY <1>26 DEF Sent, LReaches, LStays, Env, timers, callback, server,
      TypeOK, UsedIsSubscribed, Own, CallOwns, WriteOwn, TPlace, TPacket,
      Alive, LInside, TWriting, Connected, Claimed
  <1>27. CASE Suback
    BY <1>27 DEF Suback, LReaches, LStays, Env, timers, callback, server,
      TypeOK, UsedIsSubscribed, Own, CallOwns, WriteOwn, TPlace, TPacket,
      Alive, LInside, TWriting, Connected, Claimed
  <1>28. CASE Restore
    BY <1>28 DEF Restore, LReaches, LStays, Env, timers, callback, server,
      Claimed, TypeOK, UsedIsSubscribed, Own, CallOwns, WriteOwn, TPlace,
      TPacket, Alive, LInside, TWriting, Connected, Claimed
  <1>29. CASE ServerSends
    BY <1>29 DEF ServerSends, Outside, callback, lVars, TypeOK,
      UsedIsSubscribed, Own, CallOwns, WriteOwn, TPlace, TPacket, Alive,
      LInside, TWriting, Connected, Claimed
  <1>30. CASE LinkDies
    BY <1>30 DEF LinkDies, Outside, callback, lVars, TypeOK, UsedIsSubscribed,
      Own, CallOwns, WriteOwn, TPlace, TPacket, Alive, LInside, TWriting,
      Connected, Claimed
  <1>31. CASE NetworkReturns
    BY <1>31 DEF NetworkReturns, Outside, callback, lVars, TypeOK,
      UsedIsSubscribed, Own, CallOwns, WriteOwn, TPlace, TPacket, Alive,
      LInside, TWriting, Connected, Claimed
  <1>32. CASE PingTimer
    BY <1>32 DEF PingTimer, Outside, callback, lVars, TypeOK,
      UsedIsSubscribed, Own, CallOwns, WriteOwn, TPlace, TPacket, Alive,
      LInside, TWriting, Connected, Claimed
  <1>33. CASE ReconnectTimer
    BY <1>33 DEF ReconnectTimer, Outside, callback, lVars, TypeOK,
      UsedIsSubscribed, Own, CallOwns, WriteOwn, TPlace, TPacket, Alive,
      LInside, TWriting, Connected, Claimed
  <1>34. CASE UNCHANGED vars
    BY <1>34 DEF vars, timers, callback, lVars, server, Own, CallOwns,
      WriteOwn, TPlace, TPacket, Alive, LInside, TWriting, Connected, Claimed,
      UsedIsSubscribed
  <1> QED
    BY <1>1, <1>2, <1>3, <1>4, <1>5, <1>6, <1>7, <1>8, <1>9, <1>10, <1>11,
      <1>12, <1>13, <1>14, <1>15, <1>16, <1>17, <1>18, <1>19, <1>20, <1>21,
      <1>22, <1>23, <1>24, <1>25, <1>26, <1>27, <1>28, <1>29, <1>30, <1>31,
      <1>32, <1>33, <1>34, NextSplit

(* IdleIsSubscribed: an idle client is subscribed or its resubscription    *)
(* has failed, also when it was disturbed.                                 *)
THEOREM IdleIsSubscribedHolds == Spec => []IdleIsSubscribed
<1>1. Init => UsedIsSubscribed
  BY DEF Init, UsedIsSubscribed
<1>2. TypeOK /\ Own /\ UsedIsSubscribed /\ [Next]_vars => UsedIsSubscribed'
  BY SubscribedStep
<1>3. UsedIsSubscribed => IdleIsSubscribed
  BY DEF UsedIsSubscribed, IdleIsSubscribed
<1> QED  BY <1>1, <1>2, <1>3, Inductive, TypeCorrect, PTL DEF Spec
=============================================================================

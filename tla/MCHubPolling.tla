---------------------------- MODULE MCHubPolling ----------------------------
(* Instances of HubPolling: a board with two outputs, a board with an      *)
(* input and an output, and requests that name one output or one of each.  *)
EXTENDS HubPolling, TLC

CONSTANTS relay, probe   \* the boards

MCMeta ==
  relay :> [suffix |-> <<"out1", "out2">>, outs |-> <<1, 2>>, ins |-> << >>, readings |-> 1]
  @@
  probe :> [suffix |-> <<"in", "out">>, outs |-> <<2>>, ins |-> <<1>>, readings |-> 1]

\* The same without readings, where the properties are about outputs only.
MCOutputs == relay :> MCMeta[relay] @@ probe :> [MCMeta[probe] EXCEPT !.readings = 0]

Set(d, s, v) == [id |-> d, suffix |-> s, v |-> v]

OneOutput == {{Set(relay, "out1", 1)}, {Set(relay, "out2", 1)}}

BothBoards == {{Set(relay, "out1", 1), Set(probe, "out", 1)}, {Set(relay, "out2", 1)}}
=============================================================================

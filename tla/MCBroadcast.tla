---------------------------- MODULE MCBroadcast ----------------------------
(* Instances of Broadcast: every two kinds of writers beside the loop of the *)
(* ships.                                                                   *)
EXTENDS Broadcast

Pairs == {{"host", "urbit"}, {"newShip", "urbit"}, {"system", "host"},
          {"delete", "urbit"}, {"delete", "host"}}
=============================================================================

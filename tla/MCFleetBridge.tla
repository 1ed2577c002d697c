--------------------------- MODULE MCFleetBridge ---------------------------
(* Two nodes bridged to each other; the user b1 has an '@' in its nick.  *)
EXTENDS FleetBridge, TLC

CONSTANTS A, B, a1, a2, b1

MCHome == a1 :> A @@ a2 :> A @@ b1 :> B
MCMaxMsgs == a1 :> 2 @@ a2 :> 0 @@ b1 :> 1
MCPeer == A :> B @@ B :> A
============================================================================

--------------------------- MODULE MCDeliveryQueue ---------------------------
(* Two events: e1 goes to no channel, e2 to up to two. *)
EXTENDS DeliveryQueue, TLC

CONSTANTS e1, e2

Siblings == 1 :> e2 @@ 2 :> e2
Urgency == e1 :> 90 @@ e2 :> 50
=============================================================================

---------------------------- MODULE MCCabOrders ----------------------------
(* An owner and two peers.  The owner has the highest id. *)
EXTENDS CabOrders
ThreeNodes == {0, 1, 3}
=============================================================================

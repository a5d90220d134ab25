------------------------- MODULE HallCallRefinement -------------------------
(***************************************************************************)
(* The copies of an order that the nodes hold and the packets carry, read  *)
(* as one call.  The state of the call is that of the leading copy: the    *)
(* one with the highest version and, among these, the highest status.      *)
(* Merging never overtakes the leading copy; only a state change of a node *)
(* that is up to date may.                                                 *)
(***************************************************************************)
EXTENDS HallOrders

Copies(h) == {orders[n][h] : n \in Nodes} \cup {p.orders[h] : p \in net}

LeadingStatus(h) ==
    (CHOOSE a \in Copies(h) : \A b \in Copies(h) : NotBehind(a, b)).status

CallOf(h) == CASE LeadingStatus(h) \in {None, Clear} -> "idle"
               [] LeadingStatus(h) = Requested       -> "called"
               [] LeadingStatus(h) = Confirmed       -> "accepted"

Abstract == INSTANCE HallCall WITH call <- [h \in Hall |-> CallOf(h)]

-----------------------------------------------------------------------------
(* A group that has been running for a while, with the given orders and    *)
(* timers; alive(n) are the elevators that n counts as active.  Every      *)
(* running node has just sent its packet.                                  *)
Group(running, held, timer, alive(_)) ==
    /\ phase     = [n \in Nodes |-> IF n \in running THEN "idle" ELSE "down"]
    /\ orders    = held
    /\ timers    = timer
    /\ watchdogs = [n \in Nodes |-> [e \in Nodes |->
                        IF e \in alive(n) \ {n} THEN "on" ELSE "off"]]
    /\ health    = [n \in Nodes |-> "ok"]
    /\ states    = [n \in Nodes |-> [e \in Nodes |->
                        IF e \in alive(n) THEN OwnState(e) ELSE DefaultState]]
    /\ net       = {PacketOf(n) : n \in running}
    /\ budget    = FullBudget

(* All nodes know each other, and no hall button was pressed yet. *)
QuietInit ==
    LET Everyone(n) == Nodes
    IN  Group(Nodes, [n \in Nodes |-> [h \in Hall |-> DefaultOrder]],
                     [n \in Nodes |-> [h \in Hall |-> "off"]], Everyone)

QuietSpec == QuietInit /\ [][Next]_vars

(* No node crashes or loses contact, no elevator reports a fault, and the  *)
(* orders are served before their timers expire; the group has two nodes   *)
(* or more.                                                                *)
InTime ==
    /\ MaxCrash = 0 /\ MaxLoss = 0 /\ MaxLate = 0
    /\ "fault" \notin Healths
    /\ \E a, b \in Nodes : a # b

(* As long as no node crashes or loses contact, no elevator reports a      *)
(* fault and no order is late, the distributed orders behave as one call   *)
(* that is noted, accepted and answered in turn, in spite of stale copies  *)
(* and packets (Order::OnUpdate, Peers::Step).  With a late order this may *)
(* fail: a reassignment that races two confirmations of the same request   *)
(* takes the order to a version of its own (ordersync.cpp:64).             *)
ImplementsHallCall == Abstract!Spec
=============================================================================

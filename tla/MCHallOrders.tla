---------------------------- MODULE MCHallOrders ----------------------------
(* Small instances of HallOrders. *)
EXTENDS HallCallRefinement

CONSTANT up1        \* a hall button
TwoNodes   == {0, 3}
ThreeNodes == {0, 1, 2}
OneButton  == {up1}
Healthy    == {"ok"}
MayFail    == {"ok", "fault"}

(* An order was confirmed for node 0.  Node 1 lost contact with 0, gave    *)
(* the order to node 2, and hears 0 again; then 2 died, which 0 has        *)
(* noticed and 1 has not.                                                  *)
ForZero == [status |-> Confirmed, version |-> 2, assigned |-> 0, mask |-> Nodes]
TakenOverInit ==
    LET Alive(n) == CASE n = 0 -> {0, 1}
                      [] n = 1 -> {0, 1, 2}
                      [] n = 2 -> {}
    IN  Group({0, 1},
              [n \in Nodes |-> [h \in Hall |->
                    CASE n = 0 -> ForZero
                      [] n = 1 -> OnReassignment(ForZero, 2)
                      [] n = 2 -> DefaultOrder]],
              [n \in Nodes |-> [h \in Hall |-> IF n = 0 THEN "on" ELSE "off"]],
              Alive)

(* Nodes that die, return, lose contact and are late; or an elevator at    *)
(* fault and lost contact.                                                 *)
TroubledInit ==
    /\ ColdStart
    /\ \/ budget = [FullBudget EXCEPT !.change = 0]
       \/ budget = [FullBudget EXCEPT !.crash = 0, !.restart = 0, !.late = 0]

TroubledSpec      == TroubledInit /\ [][Next]_vars
TakenOverSpec     == TakenOverInit /\ [][Next]_vars
TakenOverFairSpec == TakenOverSpec /\ Fairness
=============================================================================

--------------------------- MODULE MCElevatorNode ---------------------------
(* Two elevators, two floors, one of the hall buttons. *)
EXTENDS ElevatorNode
TwoNodes    == {0, 3}
DownFromOne == {<<1, "HallDown">>}
JustHealth  == {"ok", "fault"}

NoTrouble == [FullBudget EXCEPT !.crash = 0, !.restart = 0, !.loss = 0, !.late = 0, !.change = 0]

(* The nodes in running know each other, the others are dead. *)
Group(running, held, trouble) ==
    /\ phase     = [n \in Nodes |-> IF n \in running THEN "idle" ELSE "down"]
    /\ orders    = held
    /\ timers    = [n \in Nodes |-> [h \in Hall |-> "off"]]
    /\ watchdogs = [n \in Nodes |-> [e \in Nodes |->
                        IF {n, e} \subseteq running /\ n # e THEN "on" ELSE "off"]]
    /\ health    = [n \in Nodes |-> "ok"]
    /\ states    = [n \in Nodes |-> [e \in Nodes |->
                        IF {n, e} \subseteq running THEN OwnState(e) ELSE DefaultState]]
    /\ net       = {PacketOf(n) : n \in running}
    /\ budget    = trouble
    /\ cars      = [n \in Nodes |-> CabinAt(IF n = 0 THEN 0 ELSE 1, FALSE)]

NoOrders == [n \in Nodes |-> [h \in Hall |-> DefaultOrder]]

(* An order for 3, which 0 learnt of after it had written 3 off. *)
OrderForThree == [status |-> Confirmed, version |-> 2, assigned |-> 3, mask |-> Nodes]
HeldByZero    == [NoOrders EXCEPT ![0] = [h \in Hall |-> OrderForThree]]

(* Both had the button pressed in the same round. *)
BothPressed == [n \in Nodes |-> [h \in Hall |-> OnRequest(DefaultOrder, n)]]

(* One kind of trouble at a time: nodes that die and motors that fail,     *)
(* orders that are late, two confirmations at once, a dead node that is    *)
(* restarted, with or without an order that is waiting for it.             *)
GroupInit ==
    \/ Group(Nodes, NoOrders, [NoTrouble EXCEPT !.crash = MaxCrash, !.change = MaxChange])
    \/ Group(Nodes, NoOrders, [NoTrouble EXCEPT !.late = MaxLate])
    \/ Group(Nodes, BothPressed, [NoTrouble EXCEPT !.press = 0])
    \/ Group({0}, NoOrders, [NoTrouble EXCEPT !.restart = MaxRestart])
    \/ Group({0}, HeldByZero, [NoTrouble EXCEPT !.restart = MaxRestart, !.press = 0])

GroupSpec == GroupInit /\ [][NodeNext]_nodeVars /\ NodeFairness
=============================================================================

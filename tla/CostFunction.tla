---------------------------- MODULE CostFunction ----------------------------
(***************************************************************************)
(* The cost function of Peers: what an elevator costs for an order, and    *)
(* the order it sorts the elevators in.  HallOrders takes any ranking that *)
(* respects what is wrong with an elevator; CostFunctionProofs shows that  *)
(* this is one.                                                            *)
(***************************************************************************)
EXTENDS HallOrders, Fsm

kPenaltyDoorOpen    == 2
kPenaltyFloorDiff   == 3
kPenaltyPerOrder    == 5
kPenaltyWrongDir    == 10
kPenaltyObstruction == 100
kPenaltyFault       == 1000
kPenaltyStopped     == 1000

(* The state of an elevator, as its peers know it. *)
PeerState == [active : BOOLEAN, elev : Elevator, requests : SUBSET (Floor \X BtnType)]

Distance(f, g)     == IF f < g THEN g - f ELSE f - g
Fee(cond, penalty) == IF cond THEN penalty ELSE 0

WrongDir(e, f) ==
    /\ e.motor # "Stop"
    /\ \/ f < e.floor /\ e.inertia = "Up"
       \/ f > e.floor /\ e.inertia = "Down"
       \/ f = e.floor

(* What the elevator is doing. *)
Effort(s, f) ==
    kPenaltyFloorDiff * Distance(s.elev.floor, f)
    + kPenaltyPerOrder * Cardinality(s.requests)
    + Fee(s.elev.door, kPenaltyDoorOpen)
    + Fee(WrongDir(s.elev, f), kPenaltyWrongDir)

(* What is wrong with it. *)
Trouble(s) ==
    Fee(s.elev.obstructed, kPenaltyObstruction)
    + Fee(s.elev.fault, kPenaltyFault)
    + Fee(s.elev.stopped, kPenaltyStopped)

Cost(s, f) == Effort(s, f) + Trouble(s)

(* Where elevator a comes before b in the sorted array.  Inactive ones     *)
(* come last; every user of the array skips them.                          *)
Before(st, f, a, b) ==
    LET ca == Cost(st[a], f)
        cb == Cost(st[b], f)
    IN  \/ st[a].active /\ ~st[b].active
        \/ st[a].active /\ st[b].active /\ (ca < cb \/ (ca = cb /\ a < b))
        \/ ~st[a].active /\ ~st[b].active /\ a < b

(* The first of the elevators in S. *)
FirstOf(st, f, S) == CHOOSE e \in S : \A d \in S \ {e} : Before(st, f, e, d)

(* What HallOrders keeps of a state. *)
Reported(s) ==
    [active |-> s.active,
     health |-> CASE s.elev.fault -> "fault"
                  [] ~s.elev.fault /\ s.elev.stopped -> "stopped"
                  [] ~s.elev.fault /\ ~s.elev.stopped /\ s.elev.obstructed -> "obstructed"
                  [] OTHER -> "ok"]
=============================================================================

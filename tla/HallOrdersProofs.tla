-------------------------- MODULE HallOrdersProofs --------------------------
(***************************************************************************)
(* Proofs about HallOrders, for any group of elevators, any hall buttons   *)
(* and any bounds.                                                         *)
(*                                                                         *)
(* The first part follows one order through PeersStep: every part of the   *)
(* step takes a slot whose confirmed order names an elevator of the group  *)
(* to such a slot, and never takes the order backwards (Improves).  What   *)
(* makes this work is that the world the step reads always contains the    *)
(* node itself as an active elevator (WorldOK), so that somebody is left   *)
(* when an assignee has timed out.                                         *)
(*                                                                         *)
(* The second part is the inductive invariant.  WatchdogGuardsActive,      *)
(* ConfirmedNamesNode and AloneKeepsOwnOrders hold only together with what *)
(* the packets on their way promise: that their sender was active, and     *)
(* that their confirmed orders name an elevator.                           *)
(*                                                                         *)
(* The third part is the refinement: in a group in time, the copies of an  *)
(* order, held and on their way, read as one call (CallsInv).              *)
(***************************************************************************)
EXTENDS HallCallRefinement, OrderProofs, FiniteSetTheorems, WellFoundedInduction

OrderOK(o) == o \in OrderRec /\ (o.status = Confirmed => o.assigned \in Nodes)

SlotOK(s) == s \in [order : OrderRec, timer : Timer] /\ OrderOK(s.order)

WorldOK(w) ==
    /\ w \in [node : Nodes, states : [Nodes -> ElevatorState], due : SUBSET Nodes, num : Nat]
    /\ w.node \notin w.due
    /\ w.states[w.node].active

Improves(s, t) == SlotOK(t) /\ Leq(s.order, t.order)

-----------------------------------------------------------------------------
(* Costs. *)

LEMMA NodesFinite == IsFiniteSet(Nodes)
<1>1. IsFiniteSet(0 .. 3)
    BY FS_Interval, 0 \in Int, 3 \in Int
<1>2. Nodes \in SUBSET (0 .. 3)
    BY NodesAssumption DEF ElevId, kElevs
<1> QED BY <1>1, <1>2, FS_Subset

LEMMA CostsType ==
    ASSUME NEW st, NEW cost \in Costs(st)
    PROVE  cost \in [Nodes -> Nat]
<1>1. Cardinality(Nodes) \in Nat
    BY NodesFinite, FS_CardinalityType
<1>2. cost \in [Nodes -> 0 .. Cardinality(Nodes) - 1]
    BY DEF Costs, Ranking
<1>3. 0 .. Cardinality(Nodes) - 1 \subseteq Nat
    BY <1>1
<1> QED BY <1>2, <1>3

(* A non-empty set of elevators has a cheapest one. *)
LEMMA CheapestExists ==
    ASSUME NEW S \in SUBSET Nodes, S # {}, NEW cost \in [Nodes -> Nat]
    PROVE  Cheapest(S, cost) \in S
<1> DEFINE T == {cost[e] : e \in S}
           R == OpToRel(<, Nat)
<1>1. T \subseteq Nat /\ T # {}
    OBVIOUS
<1>2. PICK x \in T : \A y \in T : ~ (<<y, x>> \in R)
    <2> HIDE DEF T, R
    <2>1. IsWellFoundedOn(R, Nat)
        BY NatLessThanWellFounded DEF R
    <2> QED BY <1>1, <2>1, WFMin
<1>3. PICK e \in S : cost[e] = x
    OBVIOUS
<1>4. \A d \in S : cost[e] <= cost[d]
    <2>1. SUFFICES ASSUME NEW d \in S PROVE cost[e] <= cost[d]
        OBVIOUS
    <2>2. ~ (<<cost[d], cost[e]>> \in R)
        BY <1>2, <1>3
    <2>3. cost[d] \in Nat /\ cost[e] \in Nat
        OBVIOUS
    <2> QED BY <2>2, <2>3 DEF OpToRel
<1> HIDE DEF T, R
<1> QED BY <1>4 DEF Cheapest

-----------------------------------------------------------------------------
(* Who takes over. *)

LEMMA TimedOutOK ==
    ASSUME NEW w, WorldOK(w), NEW e
    PROVE  /\ WorldOK(TimedOut(w, e))
           /\ TimedOut(w, e).node = w.node
BY DEF WorldOK, TimedOut, ElevatorState

(* An order of an elevator of the group is handed to one of the group:     *)
(* neither the assertion nor Abort is reached.                             *)
LEMMA NewAssigneeInGroup ==
    ASSUME NEW w, WorldOK(w), NEW cost \in [Nodes -> Nat], NEW prev \in Nodes
    PROVE  NewAssignee(w, cost, prev) \in Nodes
<1>1. CASE w.num = 1
    BY <1>1 DEF NewAssignee
<1>2. CASE w.num # 1
    <2>1. Candidates(w, prev) \in SUBSET Nodes
        BY DEF Candidates, ActiveIn
    <2>2. CASE Candidates(w, prev) # {}
        BY <1>2, <2>1, <2>2, CheapestExists DEF NewAssignee
    <2>3. CASE Candidates(w, prev) = {}
        <3>1. w.states[prev].active
            BY <2>3 DEF Candidates, ActiveIn, Usable, WorldOK
        <3> QED BY <1>2, <2>3, <3>1 DEF NewAssignee
    <2> QED BY <2>2, <2>3
<1> QED BY <1>1, <1>2

LEMMA ReassignHallOrderOK ==
    ASSUME NEW w, WorldOK(w), NEW cost \in [Nodes -> Nat],
           NEW o, OrderOK(o), o.status = Confirmed
    PROVE  /\ OrderOK(ReassignHallOrder(w, cost, o))
           /\ Leq(o, ReassignHallOrder(w, cost, o))
<1> DEFINE e == NewAssignee(w, cost, o.assigned)
<1>1. e \in Nodes
    BY NewAssigneeInGroup DEF OrderOK
<1>2. e \in ElevId
    BY <1>1, NodesAssumption
<1> HIDE DEF e
<1>3. OnReassignment(o, e) \in OrderRec /\ Leq(o, OnReassignment(o, e))
    BY <1>2, OnReassignmentType, OperationsGrow DEF OrderOK
<1>4. OnReassignment(o, e).assigned = e
    BY DEF OnReassignment, OrderOK, OrderRec
<1>5. ReassignHallOrder(w, cost, o) = OnReassignment(o, e)
    BY DEF ReassignHallOrder, e
<1> QED BY <1>1, <1>3, <1>4, <1>5 DEF OrderOK

-----------------------------------------------------------------------------
(* The parts of Peers::Step. *)

LEMMA ImprovesReflexive ==
    ASSUME NEW s, SlotOK(s)
    PROVE  Improves(s, s)
BY LeqReflexive DEF Improves, SlotOK

LEMMA ImprovesTransitive ==
    ASSUME NEW s, SlotOK(s), NEW t, Improves(s, t), NEW u, Improves(t, u)
    PROVE  Improves(s, u)
BY LeqTransitive DEF Improves, SlotOK

LEMMA ReassignHallOrdersImproves ==
    ASSUME NEW w, WorldOK(w), NEW cost \in [Nodes -> Nat], NEW e, NEW s, SlotOK(s)
    PROVE  Improves(s, ReassignHallOrders(w, cost, e, s))
<1> DEFINE o == ReassignHallOrder(w, cost, s.order)
<1>1. CASE s.order.status = Confirmed /\ s.order.assigned = e
    <2>1. OrderOK(o) /\ Leq(s.order, o)
        BY <1>1, ReassignHallOrderOK DEF SlotOK
    <2>2. ReassignHallOrders(w, cost, e, s) =
            [order |-> o, timer |-> IF o.assigned = w.node THEN "on" ELSE s.timer]
        BY <1>1 DEF ReassignHallOrders
    <2> HIDE DEF o
    <2> QED BY <2>1, <2>2 DEF Improves, SlotOK, OrderOK, Timer
<1>2. CASE ~ (s.order.status = Confirmed /\ s.order.assigned = e)
    BY <1>2, ImprovesReflexive DEF ReassignHallOrders
<1> QED BY <1>1, <1>2

LEMMA WatchdogTimeoutImproves ==
    ASSUME NEW w, WorldOK(w), NEW cost \in [Nodes -> Nat], NEW e, NEW s, SlotOK(s)
    PROVE  Improves(s, WatchdogTimeout(w, cost, e, s))
BY TimedOutOK, ReassignHallOrdersImproves, ImprovesReflexive DEF WatchdogTimeout

LEMMA FaultOfImproves ==
    ASSUME NEW w, WorldOK(w), NEW cost \in [Nodes -> Nat], NEW e, NEW s, SlotOK(s)
    PROVE  Improves(s, FaultOf(w, cost, e, s))
BY ReassignHallOrdersImproves, ImprovesReflexive DEF FaultOf

LEMMA MonitorWatchdogTimersImproves ==
    ASSUME NEW w, WorldOK(w), NEW cost \in [Nodes -> Nat], NEW s, SlotOK(s)
    PROVE  Improves(s, MonitorWatchdogTimers(w, cost, s))
<1> DEFINE s0 == WatchdogTimeout(w, cost, 0, s)
           s1 == WatchdogTimeout(w, cost, 1, s0)
           s2 == WatchdogTimeout(w, cost, 2, s1)
           s3 == WatchdogTimeout(w, cost, 3, s2)
<1>1. Improves(s, s0)
    BY WatchdogTimeoutImproves
<1> HIDE DEF s0
<1>2. Improves(s, s1)
    BY <1>1, WatchdogTimeoutImproves, ImprovesTransitive DEF Improves
<1> HIDE DEF s1
<1>3. Improves(s, s2)
    BY <1>2, WatchdogTimeoutImproves, ImprovesTransitive DEF Improves
<1> HIDE DEF s2
<1>4. Improves(s, s3)
    BY <1>3, WatchdogTimeoutImproves, ImprovesTransitive DEF Improves
<1> QED BY <1>4 DEF MonitorWatchdogTimers, s0, s1, s2

LEMMA MonitorFaultImproves ==
    ASSUME NEW w, WorldOK(w), NEW cost \in [Nodes -> Nat], NEW s, SlotOK(s)
    PROVE  Improves(s, MonitorFault(w, cost, s))
<1> DEFINE s0 == FaultOf(w, cost, 0, s)
           s1 == FaultOf(w, cost, 1, s0)
           s2 == FaultOf(w, cost, 2, s1)
           s3 == FaultOf(w, cost, 3, s2)
<1>1. Improves(s, s0)
    BY FaultOfImproves
<1> HIDE DEF s0
<1>2. Improves(s, s1)
    BY <1>1, FaultOfImproves, ImprovesTransitive DEF Improves
<1> HIDE DEF s1
<1>3. Improves(s, s2)
    BY <1>2, FaultOfImproves, ImprovesTransitive DEF Improves
<1> HIDE DEF s2
<1>4. Improves(s, s3)
    BY <1>3, FaultOfImproves, ImprovesTransitive DEF Improves
<1> QED BY <1>4 DEF MonitorFault, s0, s1, s2

LEMMA ObserveOrderImproves ==
    ASSUME NEW w, WorldOK(w), NEW s, SlotOK(s)
    PROVE  Improves(s, ObserveOrder(w, s))
<1>1. w.node \in ElevId
    BY NodesAssumption DEF WorldOK
<1> DEFINE o == Observe(s.order, w.node)
<1>2. o \in OrderRec /\ Leq(s.order, o)
    BY <1>1, ObserveType, OperationsGrow DEF SlotOK
<1>3. o.status = s.order.status /\ o.assigned = s.order.assigned
    BY DEF Observe, SlotOK, OrderRec
<1>4. CASE s.order.status = Requested
    <2>1. ObserveOrder(w, s) = [s EXCEPT !.order = o]
        BY <1>4 DEF ObserveOrder
    <2> HIDE DEF o
    <2> QED BY <1>2, <1>3, <2>1 DEF Improves, SlotOK, OrderOK
<1>5. CASE s.order.status # Requested
    BY <1>5, ImprovesReflexive DEF ObserveOrder
<1> QED BY <1>4, <1>5

LEMMA ConfirmHallOrderImproves ==
    ASSUME NEW w, WorldOK(w), NEW cost \in [Nodes -> Nat], NEW s, SlotOK(s)
    PROVE  Improves(s, ConfirmHallOrder(w, cost, s))
<1> DEFINE best == Cheapest(ActiveIn(w.states), cost)
           o    == OnConfirm(s.order, best)
<1>1. ActiveIn(w.states) \in SUBSET Nodes /\ ActiveIn(w.states) # {}
    BY DEF ActiveIn, WorldOK
<1>2. best \in Nodes /\ best \in ElevId
    BY <1>1, CheapestExists, NodesAssumption
<1>3. CASE s.order.status = Requested /\ ObservedByAll(w, s.order)
    <2>1. ConfirmHallOrder(w, cost, s) =
            [order |-> o, timer |-> IF best = w.node THEN "on" ELSE s.timer]
        BY <1>1, <1>3 DEF ConfirmHallOrder
    <2> HIDE DEF best
    <2>2. o \in OrderRec /\ Leq(s.order, o)
        BY <1>2, OnConfirmType, OperationsGrow DEF SlotOK
    <2>3. o.assigned = best
        BY <1>3 DEF OnConfirm, SlotOK, OrderRec
    <2> HIDE DEF o
    <2> QED BY <1>2, <2>1, <2>2, <2>3 DEF Improves, SlotOK, OrderOK, Timer
<1>4. CASE ~ (s.order.status = Requested /\ ObservedByAll(w, s.order))
    BY <1>4, ImprovesReflexive DEF ConfirmHallOrder
<1> QED BY <1>3, <1>4

LEMMA ResetHallOrderImproves ==
    ASSUME NEW s, SlotOK(s)
    PROVE  Improves(s, ResetHallOrder(s))
<1> DEFINE o == OnReset(s.order)
<1>1. o \in OrderRec /\ Leq(s.order, o)
    BY OnResetType, OperationsGrow DEF SlotOK
<1>2. o.status = Confirmed => o.assigned \in Nodes
    BY DEF OnReset, SlotOK, OrderOK, OrderRec, None, Confirmed
<1>3. ResetHallOrder(s) = [s EXCEPT !.order = o]
    BY DEF ResetHallOrder
<1> HIDE DEF o
<1> QED BY <1>1, <1>2, <1>3 DEF Improves, SlotOK, OrderOK

LEMMA MonitorHallOrderTimerImproves ==
    ASSUME NEW w, WorldOK(w), NEW cost \in [Nodes -> Nat], NEW s, SlotOK(s)
    PROVE  Improves(s, MonitorHallOrderTimer(w, cost, s))
<1> DEFINE o == ReassignHallOrder(w, cost, s.order)
<1>1. CASE s.timer # "due"
    BY <1>1, ImprovesReflexive DEF MonitorHallOrderTimer
<1>2. CASE s.timer = "due" /\ s.order.status # Confirmed
    <2>1. MonitorHallOrderTimer(w, cost, s) = [s EXCEPT !.timer = "off"]
        BY <1>2 DEF MonitorHallOrderTimer
    <2> QED BY <2>1, LeqReflexive DEF Improves, SlotOK, Timer
<1>3. CASE s.timer = "due" /\ s.order.status = Confirmed
    <2>1. OrderOK(o) /\ Leq(s.order, o)
        BY <1>3, ReassignHallOrderOK DEF SlotOK
    <2>2. MonitorHallOrderTimer(w, cost, s) =
            [order |-> o, timer |-> IF o.assigned = w.node THEN "on" ELSE "off"]
        BY <1>3 DEF MonitorHallOrderTimer
    <2> HIDE DEF o
    <2> QED BY <2>1, <2>2 DEF Improves, SlotOK, OrderOK, Timer
<1> QED BY <1>1, <1>2, <1>3

LEMMA ControlHallOrderTimerImproves ==
    ASSUME NEW w, NEW s, SlotOK(s)
    PROVE  /\ Improves(s, ControlHallOrderTimer(w, s))
           /\ LET t == ControlHallOrderTimer(w, s)
              IN  t.timer # "off" => Mine(w, t.order)
<1> DEFINE tm == CASE ~Mine(w, s.order) -> "off"
                   [] Mine(w, s.order) /\ s.timer = "off" -> "on"
                   [] Mine(w, s.order) /\ s.timer # "off" -> s.timer
<1>1. tm \in Timer /\ (tm # "off" => Mine(w, s.order))
    BY DEF SlotOK, Timer, Mine
<1>2. ControlHallOrderTimer(w, s) = [s EXCEPT !.timer = tm]
    BY DEF ControlHallOrderTimer
<1> HIDE DEF tm
<1> QED BY <1>1, <1>2, LeqReflexive DEF Improves, SlotOK

(* The whole step. *)
LEMMA PeersStepImproves ==
    ASSUME NEW w, WorldOK(w), NEW cost \in [Nodes -> Nat], NEW s, SlotOK(s)
    PROVE  /\ Improves(s, PeersStep(w, cost, s))
           /\ PeersStep(w, cost, s).timer # "off" =>
                /\ PeersStep(w, cost, s).order.status = Confirmed
                /\ PeersStep(w, cost, s).order.assigned = w.node
<1> DEFINE v  == TimedOut(w, kElevs - 1)
           s1 == MonitorWatchdogTimers(w, cost, s)
           s2 == MonitorFault(v, cost, s1)
           s3 == ObserveOrder(v, s2)
           s4 == ConfirmHallOrder(v, cost, s3)
           s5 == ResetHallOrder(s4)
           s6 == MonitorHallOrderTimer(v, cost, s5)
           s7 == ControlHallOrderTimer(v, s6)
<1>1. WorldOK(v) /\ v.node = w.node
    BY TimedOutOK
<1> HIDE DEF v
<1>2. Improves(s, s1)
    BY MonitorWatchdogTimersImproves
<1> HIDE DEF s1
<1>3. Improves(s, s2)
    BY <1>1, <1>2, MonitorFaultImproves, ImprovesTransitive DEF Improves
<1> HIDE DEF s2
<1>4. Improves(s, s3)
    BY <1>1, <1>3, ObserveOrderImproves, ImprovesTransitive DEF Improves
<1> HIDE DEF s3
<1>5. Improves(s, s4)
    BY <1>1, <1>4, ConfirmHallOrderImproves, ImprovesTransitive DEF Improves
<1> HIDE DEF s4
<1>6. Improves(s, s5)
    BY <1>5, ResetHallOrderImproves, ImprovesTransitive DEF Improves
<1> HIDE DEF s5
<1>7. Improves(s, s6)
    BY <1>1, <1>6, MonitorHallOrderTimerImproves, ImprovesTransitive DEF Improves
<1> HIDE DEF s6
<1>8. Improves(s, s7) /\ (s7.timer # "off" => Mine(v, s7.order))
    BY <1>7, ControlHallOrderTimerImproves, ImprovesTransitive DEF Improves
<1>9. PeersStep(w, cost, s) = s7
    BY DEF PeersStep, v, s1, s2, s3, s4, s5, s6
<1> HIDE DEF s7
<1> QED BY <1>1, <1>8, <1>9 DEF Mine

-----------------------------------------------------------------------------
(* The inductive invariant. *)

(* An elevator is active here exactly while its watchdog timer is set; the *)
(* node itself has none, and is active from its first step on.             *)
WatchdogInv ==
    \A n \in Nodes :
        /\ watchdogs[n][n] = "off"
        /\ Networked(n) => states[n][n].active
        /\ \A e \in Nodes \ {n} : states[n][e].active <=> watchdogs[n][e] # "off"

CopiesOK == \A n \in Nodes, h \in Hall : OrderOK(orders[n][h])

PacketsOK == \A p \in net : p.state.active /\ \A h \in Hall : OrderOK(p.orders[h])

(* The timer of a confirmed order runs at its assignee.  A packet may have *)
(* taken the order away since the last step; then its sender is active.    *)
TimerInv ==
    \A n \in Nodes, h \in Hall :
        timers[n][h] # "off" /\ orders[n][h].status = Confirmed
            => \/ orders[n][h].assigned = n
               \/ \E e \in Nodes \ {n} : states[n][e].active

IInv ==
    /\ TypeOK
    /\ NeverAborts
    /\ WatchdogInv
    /\ CopiesOK
    /\ PacketsOK
    /\ TimerInv

(* What a step of any thread may do to the orders. *)
Grows == \A n \in Nodes, h \in Hall :
            phase'[n] # "down" => Leq(orders[n][h], orders'[n][h])

-----------------------------------------------------------------------------
(* Initial states, and the parts of the actions. *)

LEMMA DefaultOrderOK == OrderOK(DefaultOrder)
BY DEF OrderOK, DefaultOrder, OrderRec, OrderStatus, None, Confirmed, NoElev

LEMMA InitOK == Init => IInv
<1> SUFFICES ASSUME Init PROVE IInv
    OBVIOUS
<1>1. TypeOK
    BY DefaultOrderOK, BoundAssumption
       DEF Init, ColdStart, FullBudget, TypeOK, OrderOK, Phase, Timer, ElevatorState, DefaultState, Health, Budget
<1>2. NeverAborts
    BY DEF Init, ColdStart, FullBudget, NeverAborts
<1>3. WatchdogInv
    BY DEF Init, ColdStart, FullBudget, WatchdogInv, Networked, DefaultState
<1>4. CopiesOK
    BY DefaultOrderOK DEF Init, ColdStart, FullBudget, CopiesOK
<1>5. PacketsOK
    BY DEF Init, ColdStart, FullBudget, PacketsOK
<1>6. TimerInv
    BY DEF Init, ColdStart, FullBudget, TimerInv
<1> QED BY <1>1, <1>2, <1>3, <1>4, <1>5, <1>6 DEF IInv

LEMMA UnchangedGrows ==
    ASSUME CopiesOK, UNCHANGED orders
    PROVE  Grows
BY LeqReflexive DEF CopiesOK, OrderOK, Grows

LEMMA SpendType ==
    ASSUME TypeOK, NEW what \in {"press", "crash", "restart", "loss", "late", "change"},
           Spend(what)
    PROVE  budget' \in Budget
BY DEF TypeOK, Spend, Budget

LEMMA OwnStateType ==
    ASSUME TypeOK, NEW n \in Nodes
    PROVE  OwnState(n) \in ElevatorState /\ OwnState(n).active
BY DEF TypeOK, OwnState, ElevatorState

LEMMA WorldIsOK ==
    ASSUME IInv, NEW n \in Nodes
    PROVE  WorldOK(World(n)) /\ World(n).node = n
<1> DEFINE st == [states[n] EXCEPT ![n] = OwnState(n)]
<1>1. st \in [Nodes -> ElevatorState] /\ st[n].active
    BY OwnStateType DEF IInv, TypeOK
<1>2. Cardinality(ActiveIn(st)) \in Nat
    <2>1. ActiveIn(st) \in SUBSET Nodes
        BY DEF ActiveIn
    <2> QED BY <2>1, NodesFinite, FS_Subset, FS_CardinalityType
<1>3. {e \in Nodes : watchdogs[n][e] = "due"} \in SUBSET Nodes
    OBVIOUS
<1>4. n \notin {e \in Nodes : watchdogs[n][e] = "due"}
    BY DEF IInv, WatchdogInv
<1>5. World(n) = [node |-> n, states |-> st, due |-> {e \in Nodes : watchdogs[n][e] = "due"},
                  num |-> Cardinality(ActiveIn(st))]
    BY DEF World
<1> HIDE DEF st
<1> QED BY <1>1, <1>2, <1>3, <1>4, <1>5 DEF WorldOK

LEMMA PressedOK ==
    ASSUME NEW o, OrderOK(o), NEW n \in Nodes
    PROVE  OrderOK(OnRequest(o, n)) /\ Leq(o, OnRequest(o, n))
<1>1. n \in ElevId
    BY NodesAssumption
<1>2. OnRequest(o, n) \in OrderRec /\ Leq(o, OnRequest(o, n))
    BY <1>1, OnRequestType, OperationsGrow DEF OrderOK
<1>3. OnRequest(o, n) = o \/ OnRequest(o, n).status = Requested
    BY DEF OnRequest, Observe, OrderOK, OrderRec
<1> QED BY <1>2, <1>3 DEF OrderOK, Requested, Confirmed

LEMMA ClearOrderOK ==
    ASSUME NEW o, OrderOK(o), NEW n
    PROVE  OrderOK(ClearOrder(n, o)) /\ Leq(o, ClearOrder(n, o))
<1>1. OnClear(o) \in OrderRec /\ Leq(o, OnClear(o)) /\ Leq(o, o)
    BY OnClearType, OperationsGrow, LeqReflexive DEF OrderOK
<1>2. OnClear(o) = o \/ OnClear(o).status = Clear
    BY DEF OnClear, OrderOK, OrderRec
<1> QED BY <1>1, <1>2 DEF ClearOrder, OrderOK, Clear, Confirmed

LEMMA OnUpdateOK ==
    ASSUME NEW o, OrderOK(o), NEW r, OrderOK(r)
    PROVE  OrderOK(OnUpdate(o, r)) /\ Leq(o, OnUpdate(o, r))
<1>1. OnUpdate(o, r) \in OrderRec /\ Leq(o, OnUpdate(o, r))
    BY OnUpdateType, MergeIsUpperBound DEF OrderOK
<1>2. \/ OnUpdate(o, r).status = o.status /\ OnUpdate(o, r).assigned = o.assigned
      \/ OnUpdate(o, r).status = r.status /\ OnUpdate(o, r).assigned = r.assigned
    BY DEF OnUpdate, Adopt, OrderOK, OrderRec
<1> QED BY <1>1, <1>2 DEF OrderOK

-----------------------------------------------------------------------------
(* The actions of a node. *)

LEMMA StepPreserves ==
    ASSUME IInv, NEW n \in Nodes, Step(n)
    PROVE  IInv' /\ Grows
<1> USE DEF IInv
<1> DEFINE w == World(n)
<1>0. PICK pressed \in SUBSET Hall : \E slot \in StepOutcomes(n, World(n), pressed) :
            /\ Cardinality(pressed) <= budget.press
            /\ phase' = [phase EXCEPT ![n] =
                    IF \E h \in Hall : Aborts(slot[h].order) THEN "aborted" ELSE "synced"]
            /\ orders' = [orders EXCEPT ![n] = [h \in Hall |-> slot[h].order]]
            /\ timers' = [timers EXCEPT ![n] = [h \in Hall |-> slot[h].timer]]
            /\ watchdogs' = [watchdogs EXCEPT ![n] =
                    [e \in Nodes |-> IF e \in World(n).due THEN "off" ELSE watchdogs[n][e]]]
            /\ states' = [states EXCEPT ![n] = TimedOut(World(n), kElevs - 1).states]
            /\ budget' = [budget EXCEPT !.press = @ - Cardinality(pressed)]
            /\ UNCHANGED <<health, net>>
    BY DEF Step
<1>1. PICK slot \in StepOutcomes(n, w, pressed) :
            /\ Cardinality(pressed) <= budget.press
            /\ phase' = [phase EXCEPT ![n] =
                    IF \E h \in Hall : Aborts(slot[h].order) THEN "aborted" ELSE "synced"]
            /\ orders' = [orders EXCEPT ![n] = [h \in Hall |-> slot[h].order]]
            /\ timers' = [timers EXCEPT ![n] = [h \in Hall |-> slot[h].timer]]
            /\ watchdogs' = [watchdogs EXCEPT ![n] =
                    [e \in Nodes |-> IF e \in w.due THEN "off" ELSE watchdogs[n][e]]]
            /\ states' = [states EXCEPT ![n] = TimedOut(w, kElevs - 1).states]
            /\ budget' = [budget EXCEPT !.press = @ - Cardinality(pressed)]
            /\ UNCHANGED <<health, net>>
    BY <1>0
<1> DEFINE s(h) == [order |-> Pressed(n, pressed, h), timer |-> timers[n][h]]
<1>2. PICK cost \in [Hall -> Costs(w.states)] :
            slot = [h \in Hall |-> PeersStep(w, cost[h], s(h))]
    BY DEF StepOutcomes
<1>3. WorldOK(w) /\ w.node = n
    BY WorldIsOK
<1>4. ASSUME NEW h \in Hall
      PROVE  /\ SlotOK(slot[h])
             /\ Leq(orders[n][h], slot[h].order)
             /\ slot[h].timer # "off" => slot[h].order.status = Confirmed /\ slot[h].order.assigned = n
    <2>1. OrderOK(orders[n][h]) /\ timers[n][h] \in Timer
        BY DEF CopiesOK, TypeOK
    <2>2. OrderOK(Pressed(n, pressed, h)) /\ Leq(orders[n][h], Pressed(n, pressed, h))
        BY <2>1, PressedOK, LeqReflexive DEF Pressed, OrderOK
    <2>3. SlotOK(s(h)) /\ s(h).order = Pressed(n, pressed, h)
        BY <2>1, <2>2 DEF SlotOK, OrderOK
    <2>4. cost[h] \in [Nodes -> Nat]
        BY CostsType
    <2>5. slot[h] = PeersStep(w, cost[h], s(h))
        BY <1>2
    <2> HIDE DEF w, s
    <2>6. /\ Improves(s(h), slot[h])
          /\ slot[h].timer # "off" => slot[h].order.status = Confirmed /\ slot[h].order.assigned = n
        BY <1>3, <2>3, <2>4, <2>5, PeersStepImproves
    <2>7. Leq(orders[n][h], slot[h].order)
        BY <2>1, <2>2, <2>3, <2>6, LeqTransitive DEF Improves, SlotOK, OrderOK
    <2> QED BY <2>6, <2>7 DEF Improves
<1> HIDE DEF w, s
<1>5. ~ \E h \in Hall : Aborts(slot[h].order)
    BY <1>4, NodesAssumption DEF SlotOK, OrderOK, Aborts, NoElev, ElevId, kElevs
<1>6. phase' = [phase EXCEPT ![n] = "synced"]
    BY <1>1, <1>5
<1>7. /\ orders' \in [Nodes -> [Hall -> OrderRec]]
      /\ timers' \in [Nodes -> [Hall -> Timer]]
    BY <1>1, <1>4 DEF TypeOK, SlotOK
<1>8. CopiesOK'
    BY <1>1, <1>4 DEF CopiesOK, TypeOK, SlotOK
<1>9. Grows
    BY <1>1, <1>4, LeqReflexive DEF Grows, TypeOK
<1>10. TimedOut(w, kElevs - 1).states \in [Nodes -> ElevatorState]
    BY <1>3, TimedOutOK DEF WorldOK
<1>11. states' \in [Nodes -> [Nodes -> ElevatorState]]
    BY <1>1, <1>10 DEF TypeOK, w
<1>12. watchdogs' \in [Nodes -> [Nodes -> Timer]]
    BY <1>1 DEF TypeOK, Timer
<1>13. budget' \in Budget
    <2>1. Cardinality(pressed) \in Nat
        BY HallAssumption, FS_Subset, FS_CardinalityType
    <2>2. budget.press \in Nat
        BY DEF TypeOK, Budget
    <2>3. budget.press - Cardinality(pressed) \in Nat
        BY <1>1, <2>1, <2>2
    <2> QED BY <1>1, <2>3 DEF TypeOK, Budget
<1>14. TypeOK'
    BY <1>1, <1>6, <1>7, <1>11, <1>12, <1>13 DEF TypeOK, Phase
<1>15. NeverAborts'
    BY <1>6 DEF NeverAborts, TypeOK
<1>16. \A e \in Nodes : states'[n][e].active <=>
            ~ (watchdogs[n][e] = "due") /\ (e = n \/ states[n][e].active)
    <2> SUFFICES ASSUME NEW e \in Nodes
                 PROVE  states'[n][e].active <=>
                            ~ (watchdogs[n][e] = "due") /\ (e = n \/ states[n][e].active)
        OBVIOUS
    <2>1. states'[n][e] = TimedOut(w, kElevs - 1).states[e]
        BY <1>1 DEF TypeOK, w
    <2>2. e <= kElevs - 1
        BY NodesAssumption DEF ElevId, kElevs
    <2>3. TimedOut(w, kElevs - 1).states[e] =
            IF e \in w.due THEN [w.states[e] EXCEPT !.active = FALSE] ELSE w.states[e]
        BY <1>3, <2>2 DEF TimedOut, WorldOK
    <2>4. e \in w.due <=> watchdogs[n][e] = "due"
        BY DEF w, World
    <2>5. w.states[e] = IF e = n THEN OwnState(n) ELSE states[n][e]
        BY DEF w, World, TypeOK
    <2>6. w.states[e] \in ElevatorState
        BY <1>3 DEF WorldOK
    <2>7. e = n => w.states[e].active
        BY <2>5, OwnStateType
    <2> QED BY <2>1, <2>3, <2>4, <2>5, <2>6, <2>7 DEF ElevatorState
<1>17. \A e \in Nodes : watchdogs'[n][e] = IF watchdogs[n][e] = "due" THEN "off" ELSE watchdogs[n][e]
    BY <1>1 DEF TypeOK, World, w
<1>18. WatchdogInv'
    <2> SUFFICES ASSUME NEW m \in Nodes
                 PROVE  (/\ watchdogs[m][m] = "off"
                         /\ Networked(m) => states[m][m].active
                         /\ \A e \in Nodes \ {m} : states[m][e].active <=> watchdogs[m][e] # "off")'
        BY DEF WatchdogInv
    <2>1. CASE m = n
        BY <2>1, <1>16, <1>17 DEF WatchdogInv, TypeOK
    <2>2. CASE m # n
        BY <2>2, <1>1, <1>6 DEF WatchdogInv, TypeOK, Networked
    <2> QED BY <2>1, <2>2
<1>19. PacketsOK'
    BY <1>1 DEF PacketsOK
<1>20. TimerInv'
    <2> SUFFICES ASSUME NEW m \in Nodes, NEW h \in Hall,
                        timers'[m][h] # "off", orders'[m][h].status = Confirmed
                 PROVE  \/ orders'[m][h].assigned = m
                        \/ \E e \in Nodes \ {m} : states'[m][e].active
        BY DEF TimerInv
    <2>1. CASE m = n
        BY <2>1, <1>1, <1>4 DEF TypeOK
    <2>2. CASE m # n
        BY <2>2, <1>1 DEF TimerInv, TypeOK
    <2> QED BY <2>1, <2>2
<1> QED BY <1>8, <1>9, <1>14, <1>15, <1>18, <1>19, <1>20
(* The event of a step, whatever its elevator served and has become. *)
LEMMA ServePreserves ==
    ASSUME IInv, NEW n \in Nodes, NEW served \in SUBSET Hall, NEW own \in ElevatorState,
           own.active, Serve(n, served, own), health' \in [Nodes -> Health]
    PROVE  IInv' /\ Grows
<1> USE DEF IInv
<1>1.   /\ phase[n] = "synced"
        /\ phase' = [phase EXCEPT ![n] = "idle"]
        /\ orders' = [orders EXCEPT ![n] = [h \in Hall |->
                IF h \in served THEN ClearOrder(n, orders[n][h]) ELSE orders[n][h]]]
        /\ timers' = [timers EXCEPT ![n] = [h \in Hall |->
                IF h \in served /\ orders[n][h].assigned = n THEN "off" ELSE timers[n][h]]]
        /\ states' = [states EXCEPT ![n][n] = own]
        /\ UNCHANGED <<watchdogs, net, budget>>
    BY DEF Serve, TypeOK
<1>2. ASSUME NEW h \in Hall
      PROVE  OrderOK(ClearOrder(n, orders[n][h])) /\ Leq(orders[n][h], ClearOrder(n, orders[n][h]))
    BY ClearOrderOK DEF CopiesOK
<1>3. CopiesOK'
    BY <1>1, <1>2 DEF CopiesOK, TypeOK
<1>4. Grows
    BY <1>1, <1>2, LeqReflexive DEF Grows, TypeOK
<1>6. TypeOK'
    <2>1. orders' \in [Nodes -> [Hall -> OrderRec]]
        BY <1>1, <1>2 DEF TypeOK, OrderOK
    <2>2. states' \in [Nodes -> [Nodes -> ElevatorState]]
        BY <1>1 DEF TypeOK
    <2>3. timers' \in [Nodes -> [Hall -> Timer]]
        BY <1>1 DEF TypeOK, Timer
    <2> QED BY <1>1, <2>1, <2>2, <2>3 DEF TypeOK, Phase
<1>7. NeverAborts'
    BY <1>1 DEF NeverAborts, TypeOK
<1>8. WatchdogInv'
    BY <1>1 DEF WatchdogInv, TypeOK, Networked
<1>9. PacketsOK'
    BY <1>1 DEF PacketsOK
<1>10. TimerInv'
    <2> SUFFICES ASSUME NEW m \in Nodes, NEW h \in Hall,
                        timers'[m][h] # "off", orders'[m][h].status = Confirmed
                 PROVE  \/ orders'[m][h].assigned = m
                        \/ \E e \in Nodes \ {m} : states'[m][e].active
        BY DEF TimerInv
    <2>1. timers[m][h] # "off" /\ orders'[m][h] = orders[m][h]
        BY <1>1 DEF TypeOK, ClearOrder
    <2>2. \A e \in Nodes \ {m} : states'[m][e] = states[m][e]
        BY <1>1 DEF TypeOK
    <2> QED BY <2>1, <2>2 DEF TimerInv
<1> QED BY <1>3, <1>4, <1>6, <1>7, <1>8, <1>9, <1>10

LEMMA EventPreserves ==
    ASSUME IInv, NEW n \in Nodes, Event(n)
    PROVE  IInv' /\ Grows
<1>1. OwnState(n) \in ElevatorState /\ OwnState(n).active
    BY OwnStateType DEF IInv
<1>2. PICK served \in SUBSET Hall : Serve(n, served, OwnState(n)) /\ UNCHANGED health
    BY DEF Event
<1>3. health' \in [Nodes -> Health]
    BY <1>2 DEF IInv, TypeOK
<1> QED BY <1>1, <1>2, <1>3, ServePreserves

LEMMA NoEventPreserves ==
    ASSUME IInv, NEW n \in Nodes, NoEvent(n)
    PROVE  IInv' /\ Grows
<1> USE DEF IInv
<1>1. /\ phase[n] = "synced"
      /\ phase' = [phase EXCEPT ![n] = "idle"]
      /\ UNCHANGED <<orders, timers, watchdogs, states, health, net, budget>>
    BY DEF NoEvent
<1>2. TypeOK'
    BY <1>1 DEF TypeOK, Phase
<1>3. NeverAborts' /\ WatchdogInv'
    BY <1>1 DEF NeverAborts, WatchdogInv, Networked, TypeOK
<1>4. CopiesOK' /\ PacketsOK' /\ TimerInv'
    BY <1>1 DEF CopiesOK, PacketsOK, TimerInv
<1> QED BY <1>1, <1>2, <1>3, <1>4, UnchangedGrows

LEMMA TxPreserves ==
    ASSUME IInv, NEW n \in Nodes, Tx(n)
    PROVE  IInv' /\ Grows
<1> USE DEF IInv
<1>1. /\ Networked(n)
      /\ net' \subseteq net \cup {PacketOf(n)}
      /\ UNCHANGED <<phase, orders, timers, watchdogs, states, health, budget>>
    BY DEF Tx, From
<1>2. PacketOf(n) \in Packet
    BY DEF PacketOf, Packet, TypeOK
<1>3. PacketOf(n).state.active /\ \A h \in Hall : OrderOK(PacketOf(n).orders[h])
    BY <1>1 DEF PacketOf, WatchdogInv, CopiesOK
<1>4. TypeOK'
    BY <1>1, <1>2 DEF TypeOK
<1>5. PacketsOK'
    BY <1>1, <1>3 DEF PacketsOK
<1>6. NeverAborts' /\ WatchdogInv' /\ CopiesOK' /\ TimerInv'
    BY <1>1 DEF NeverAborts, WatchdogInv, Networked, CopiesOK, TimerInv
<1> QED BY <1>1, <1>4, <1>5, <1>6, UnchangedGrows

LEMMA ReceivePreserves ==
    ASSUME IInv, NEW n \in Nodes, NEW p \in net, Receive(n, p)
    PROVE  IInv' /\ Grows
<1> USE DEF IInv
<1>1. PICK newer \in BOOLEAN :
        /\ Networked(n)
        /\ p.from # n
        /\ ~states[n][p.from].active => newer
        /\ watchdogs' = [watchdogs EXCEPT ![n][p.from] = "on"]
        /\ states' = [states EXCEPT ![n][p.from] = IF newer THEN p.state ELSE states[n][p.from]]
        /\ orders' = [orders EXCEPT ![n] = [h \in Hall |-> OnUpdate(orders[n][h], p.orders[h])]]
        /\ UNCHANGED <<phase, timers, health, net, budget>>
    BY DEF Receive, TypeOK
<1>2. p.from \in Nodes /\ p.state \in ElevatorState /\ p.state.active
    BY DEF TypeOK, Packet, PacketsOK
<1>3. ASSUME NEW h \in Hall
      PROVE  /\ OrderOK(OnUpdate(orders[n][h], p.orders[h]))
             /\ Leq(orders[n][h], OnUpdate(orders[n][h], p.orders[h]))
    BY OnUpdateOK DEF CopiesOK, PacketsOK
<1>4. CopiesOK'
    BY <1>1, <1>3 DEF CopiesOK, TypeOK
<1>5. Grows
    BY <1>1, <1>3, LeqReflexive DEF Grows, CopiesOK, OrderOK, TypeOK
<1>6. states' \in [Nodes -> [Nodes -> ElevatorState]] /\ states'[n][p.from].active
    BY <1>1, <1>2 DEF TypeOK
<1>7. TypeOK'
    <2>1. orders' \in [Nodes -> [Hall -> OrderRec]]
        BY <1>1, <1>3 DEF TypeOK, OrderOK
    <2>2. watchdogs' \in [Nodes -> [Nodes -> Timer]]
        BY <1>1, <1>2 DEF TypeOK, Timer
    <2> QED BY <1>1, <1>6, <2>1, <2>2 DEF TypeOK
<1>8. NeverAborts' /\ PacketsOK'
    BY <1>1 DEF NeverAborts, PacketsOK
<1>9. WatchdogInv'
    <2> SUFFICES ASSUME NEW m \in Nodes
                 PROVE  (/\ watchdogs[m][m] = "off"
                         /\ Networked(m) => states[m][m].active
                         /\ \A e \in Nodes \ {m} : states[m][e].active <=> watchdogs[m][e] # "off")'
        BY DEF WatchdogInv
    <2>1. \A e \in Nodes : ~ (m = n /\ e = p.from) =>
                states'[m][e] = states[m][e] /\ watchdogs'[m][e] = watchdogs[m][e]
        BY <1>1, <1>2 DEF TypeOK
    <2>2. watchdogs'[n][p.from] = "on"
        BY <1>1, <1>2 DEF TypeOK
    <2>3. Networked(m)' <=> Networked(m)
        BY <1>1 DEF Networked
    <2>4. watchdogs'[m][m] = "off"
        BY <1>1, <2>1 DEF WatchdogInv
    <2>5. Networked(m)' => states'[m][m].active
        BY <1>1, <2>1, <2>3 DEF WatchdogInv
    <2>6. ASSUME NEW e \in Nodes \ {m}
          PROVE  states'[m][e].active <=> watchdogs'[m][e] # "off"
        <3>1. CASE m = n /\ e = p.from
            BY <3>1, <1>6, <2>2
        <3>2. CASE ~ (m = n /\ e = p.from)
            BY <3>2, <2>1 DEF WatchdogInv
        <3> QED BY <3>1, <3>2
    <2> QED BY <2>4, <2>5, <2>6
<1>10. TimerInv'
    <2> SUFFICES ASSUME NEW m \in Nodes, NEW h \in Hall,
                        timers'[m][h] # "off", orders'[m][h].status = Confirmed
                 PROVE  \/ orders'[m][h].assigned = m
                        \/ \E e \in Nodes \ {m} : states'[m][e].active
        BY DEF TimerInv
    <2>1. CASE m = n
        BY <2>1, <1>1, <1>2, <1>6
    <2>2. CASE m # n
        BY <2>2, <1>1 DEF TimerInv, TypeOK
    <2> QED BY <2>1, <2>2
<1> QED BY <1>4, <1>5, <1>7, <1>8, <1>9, <1>10

-----------------------------------------------------------------------------
(* The actions of the environment. *)

LEMMA TimerExpiryPreserves ==
    ASSUME IInv, NEW n \in Nodes,
           OrderTimerExpires(n) \/ \E e \in Nodes : ContactLost(n, e) \/ PeerSilent(n, e)
    PROVE  IInv' /\ Grows
<1> USE DEF IInv
<1>1. CASE OrderTimerExpires(n)
    <2>1. PICK h \in Hall :
            /\ timers[n][h] = "on"
            /\ timers' = [timers EXCEPT ![n][h] = "due"]
            /\ Spend("late")
            /\ UNCHANGED <<phase, orders, watchdogs, states, health, net>>
        BY <1>1 DEF OrderTimerExpires
    <2>2. budget' \in Budget
        BY <2>1, SpendType
    <2>3. TypeOK'
        BY <2>1, <2>2 DEF TypeOK, Timer
    <2>4. TimerInv'
        BY <2>1 DEF TimerInv, TypeOK
    <2>5. NeverAborts' /\ WatchdogInv' /\ CopiesOK' /\ PacketsOK'
        BY <2>1 DEF NeverAborts, WatchdogInv, Networked, CopiesOK, PacketsOK
    <2> QED BY <2>1, <2>3, <2>4, <2>5, UnchangedGrows
<1>2. CASE \E e \in Nodes : ContactLost(n, e) \/ PeerSilent(n, e)
    <2>1. PICK e \in Nodes :
            /\ watchdogs[n][e] = "on"
            /\ watchdogs' = [watchdogs EXCEPT ![n][e] = "due"]
            /\ Spend("loss") \/ UNCHANGED budget
            /\ UNCHANGED <<phase, orders, timers, states, health, net>>
        BY <1>2 DEF ContactLost, PeerSilent
    <2>2. budget' \in Budget
        BY <2>1, SpendType DEF TypeOK
    <2>3. TypeOK'
        BY <2>1, <2>2 DEF TypeOK, Timer
    <2>4. WatchdogInv'
        BY <2>1 DEF WatchdogInv, TypeOK, Networked
    <2>5. NeverAborts' /\ CopiesOK' /\ PacketsOK' /\ TimerInv'
        BY <2>1 DEF NeverAborts, CopiesOK, PacketsOK, TimerInv
    <2> QED BY <2>1, <2>3, <2>4, <2>5, UnchangedGrows
<1> QED BY <1>1, <1>2

LEMMA CrashPreserves ==
    ASSUME IInv, NEW n \in Nodes, Crash(n)
    PROVE  IInv' /\ Grows
<1> USE DEF IInv
<1>1. /\ phase'     = [phase     EXCEPT ![n] = "down"]
      /\ orders'    = [orders    EXCEPT ![n] = [h \in Hall |-> DefaultOrder]]
      /\ timers'    = [timers    EXCEPT ![n] = [h \in Hall |-> "off"]]
      /\ watchdogs' = [watchdogs EXCEPT ![n] = [e \in Nodes |-> "off"]]
      /\ states'    = [states    EXCEPT ![n] = [e \in Nodes |-> DefaultState]]
      /\ health'    = [health    EXCEPT ![n] = "ok"]
      /\ net' = net
    BY DEF Crash
<1>2. budget' \in Budget
    BY SpendType DEF Crash
<1>3. OrderOK(DefaultOrder)
    BY DefaultOrderOK
<1>4. DefaultState \in ElevatorState /\ ~DefaultState.active
    BY DEF DefaultState, ElevatorState, Health
<1>5. TypeOK'
    BY <1>1, <1>2, <1>3, <1>4 DEF TypeOK, Phase, Timer, Health, OrderOK
<1>6. NeverAborts' /\ PacketsOK'
    BY <1>1 DEF NeverAborts, PacketsOK, TypeOK
<1>7. CopiesOK'
    BY <1>1, <1>3 DEF CopiesOK, TypeOK
<1>8. WatchdogInv'
    BY <1>1, <1>4 DEF WatchdogInv, TypeOK, Networked
<1>9. TimerInv'
    BY <1>1 DEF TimerInv, TypeOK
<1>10. Grows
    BY <1>1, LeqReflexive DEF Grows, CopiesOK, OrderOK, TypeOK
<1> QED BY <1>5, <1>6, <1>7, <1>8, <1>9, <1>10

LEMMA OtherEventsPreserve ==
    ASSUME IInv, NEW n \in Nodes, LastPacketsGone(n) \/ ChangeHealth(n) \/ Restart(n)
    PROVE  IInv' /\ Grows
<1> USE DEF IInv
<1>1. CASE LastPacketsGone(n)
    <2>1. net' \subseteq net /\ UNCHANGED <<phase, orders, timers, watchdogs, states, health, budget>>
        BY <1>1 DEF LastPacketsGone
    <2>2. TypeOK' /\ PacketsOK'
        BY <2>1 DEF TypeOK, PacketsOK
    <2>3. NeverAborts' /\ WatchdogInv' /\ CopiesOK' /\ TimerInv'
        BY <2>1 DEF NeverAborts, WatchdogInv, Networked, CopiesOK, TimerInv
    <2> QED BY <2>1, <2>2, <2>3, UnchangedGrows
<1>2. CASE ChangeHealth(n)
    <2>1. PICK h \in Healths :
            /\ health' = [health EXCEPT ![n] = h]
            /\ Spend("change")
            /\ UNCHANGED <<phase, orders, timers, watchdogs, states, net>>
        BY <1>2 DEF ChangeHealth
    <2>2. budget' \in Budget
        BY <2>1, SpendType
    <2>3. TypeOK'
        BY <2>1, <2>2, HealthAssumption DEF TypeOK, Health
    <2>4. NeverAborts' /\ WatchdogInv' /\ CopiesOK' /\ PacketsOK' /\ TimerInv'
        BY <2>1 DEF NeverAborts, WatchdogInv, Networked, CopiesOK, PacketsOK, TimerInv
    <2> QED BY <2>1, <2>3, <2>4, UnchangedGrows
<1>3. CASE Restart(n)
    <2>1. PICK h \in Healths :
            /\ phase'  = [phase  EXCEPT ![n] = "starting"]
            /\ health' = [health EXCEPT ![n] = h]
            /\ Spend("restart")
            /\ UNCHANGED <<orders, timers, watchdogs, states, net>>
        BY <1>3 DEF Restart
    <2>2. budget' \in Budget
        BY <2>1, SpendType
    <2>3. TypeOK'
        BY <2>1, <2>2, HealthAssumption DEF TypeOK, Health, Phase
    <2>4. NeverAborts' /\ WatchdogInv'
        BY <2>1 DEF NeverAborts, WatchdogInv, Networked, TypeOK
    <2>5. CopiesOK' /\ PacketsOK' /\ TimerInv'
        BY <2>1 DEF CopiesOK, PacketsOK, TimerInv
    <2> QED BY <2>1, <2>3, <2>4, <2>5, UnchangedGrows
<1> QED BY <1>1, <1>2, <1>3

-----------------------------------------------------------------------------
(* The specification. *)

LEMMA NextPreserves == IInv /\ [Next]_vars => IInv' /\ Grows
<1> SUFFICES ASSUME IInv, [Next]_vars PROVE IInv' /\ Grows
    OBVIOUS
<1>1. CASE Next
    <2>1. PICK n \in Nodes : NodeStep(n) \/ Environment(n)
        BY <1>1 DEF Next
    <2>2. CASE NodeStep(n)
        <3>1. CASE \E m \in Nodes : Rx(n, m)
            BY <3>1, ReceivePreserves DEF Rx, From
        <3> QED BY <2>2, <3>1, StepPreserves, EventPreserves, NoEventPreserves, TxPreserves
                DEF NodeStep
    <2>3. CASE Environment(n)
        BY <2>3, TimerExpiryPreserves, CrashPreserves, OtherEventsPreserve DEF Environment
    <2> QED BY <2>1, <2>2, <2>3
<1>2. CASE UNCHANGED vars
    <2>1. UNCHANGED <<phase, orders, timers, watchdogs, states, health, net, budget>>
        BY <1>2 DEF vars
    <2>2. TypeOK' /\ NeverAborts' /\ WatchdogInv'
        BY <2>1 DEF IInv, TypeOK, NeverAborts, WatchdogInv, Networked
    <2>3. CopiesOK' /\ PacketsOK' /\ TimerInv'
        BY <2>1 DEF IInv, CopiesOK, PacketsOK, TimerInv
    <2> QED BY <2>1, <2>2, <2>3, UnchangedGrows DEF IInv
<1> QED BY <1>1, <1>2

LEMMA Invariance == Spec => []IInv
BY InitOK, NextPreserves, PTL DEF Spec

LEMMA LoneTimerIsOwn == IInv => AloneKeepsOwnOrders
<1> SUFFICES ASSUME IInv, NEW n \in Nodes, NEW h \in Hall,
                    ActiveIn(World(n).states) = {n},
                    timers[n][h] # "off",
                    orders[n][h].status = Confirmed
             PROVE  orders[n][h].assigned = n
    BY DEF AloneKeepsOwnOrders
<1>1. \A e \in Nodes \ {n} : World(n).states[e] = states[n][e]
    BY DEF IInv, TypeOK, World
<1>2. \A e \in Nodes \ {n} : ~states[n][e].active
    BY <1>1 DEF ActiveIn
<1> QED BY <1>2 DEF IInv, TimerInv

(* Every variable keeps its type; for an order this says in particular     *)
(* that its mask has no bits but those of elevators.                       *)
THEOREM TypeCorrect == Spec => []TypeOK
<1>1. IInv => TypeOK
    BY DEF IInv
<1> QED BY Invariance, <1>1, PTL

(* No node ever runs into the assertion or the Abort of the reassignment,  *)
(* whatever crashes, faults, stale packets and losses of contact happen.   *)
THEOREM NoAbort == Spec => []NeverAborts
<1>1. IInv => NeverAborts
    BY DEF IInv
<1> QED BY Invariance, <1>1, PTL

(* A confirmed order names an elevator of the group, at every node and in  *)
(* every packet on its way.                                                *)
THEOREM ConfirmedIsAssigned == Spec => []ConfirmedNamesNode
<1>1. IInv => ConfirmedNamesNode
    BY DEF IInv, CopiesOK, PacketsOK, OrderOK, ConfirmedNamesNode
<1> QED BY Invariance, <1>1, PTL

(* A node counts a peer as active exactly while the peer's watchdog timer  *)
(* is set, so that no peer that dies stays active.                         *)
THEOREM ActiveIsGuarded == Spec => []WatchdogGuardsActive
<1>1. IInv => WatchdogGuardsActive
    BY DEF IInv, WatchdogInv, WatchdogGuardsActive
<1> QED BY Invariance, <1>1, PTL

(* A node that is alone and whose order timer has expired holds that order *)
(* itself: keeping the assignee is the same as reassigning to itself.      *)
THEOREM AloneReassignsToSelf == Spec => []AloneKeepsOwnOrders
BY Invariance, LoneTimerIsOwn, PTL

(* No step of any thread of a running node takes its copy of an order      *)
(* backwards in Leq: not a stale, a repeated or a reordered packet either. *)
THEOREM CopiesOnlyGrow == Spec => OrdersOnlyGrow
<1>1. IInv /\ [Next]_vars =>
        [\A n \in Nodes, h \in Hall :
            phase'[n] # "down" => Leq(orders[n][h], orders'[n][h])]_vars
    BY NextPreserves DEF Grows
<1> QED BY Invariance, <1>1, PTL DEF Spec, OrdersOnlyGrow

-----------------------------------------------------------------------------
(***************************************************************************)
(* The third part: with everybody in time, the copies of an order read as  *)
(* one call.  Without a timer that comes due, an elevator that is not      *)
(* active or one at fault, a step of a node leaves an order alone or makes *)
(* it go on by one state (QuietPeersStep), and so does every action; what  *)
(* this means for the copies of that order is MoveKept of OrderProofs.     *)
(***************************************************************************)
QuietWorld(w) ==
    /\ w.due = {}
    /\ \A e \in Nodes : w.states[e].active /\ w.states[e].health # "fault"

LEMMA QuietTimedOut ==
    ASSUME NEW w, WorldOK(w), QuietWorld(w), NEW e
    PROVE  TimedOut(w, e) = w
BY DEF WorldOK, QuietWorld, TimedOut

LEMMA QuietMonitors ==
    ASSUME NEW w, WorldOK(w), QuietWorld(w), NEW cost, NEW s
    PROVE  MonitorWatchdogTimers(w, cost, s) = s /\ MonitorFault(w, cost, s) = s
<1>1. \A e, t : WatchdogTimeout(w, cost, e, t) = t
    BY DEF WatchdogTimeout, QuietWorld
<1>2. \A e, t : FaultOf(w, cost, e, t) = t
    BY DEF FaultOf, QuietWorld, ActiveIn
<1>3. MonitorWatchdogTimers(w, cost, s) = s
    BY <1>1 DEF MonitorWatchdogTimers
<1>4. MonitorFault(w, cost, s) = s
    BY <1>2 DEF MonitorFault
<1> QED BY <1>3, <1>4

(* What a quiet step makes of an order.                                    *)
GoesOn(n, o, x) ==
    \/ o.status \in {None, Confirmed} /\ x = o
    \/ o.status = Requested /\ x = Observe(o, n)
    \/ /\ o.status = Requested /\ Nodes \subseteq o.mask \cup {n}
       /\ x.status = Confirmed /\ x.version = o.version + 1
    \/ o.status = Clear /\ x.status = None /\ x.version = o.version + 1

LEMMA QuietPeersStep ==
    ASSUME NEW w, WorldOK(w), QuietWorld(w), NEW cost \in [Nodes -> Nat],
           NEW s, SlotOK(s), s.timer # "due"
    PROVE  /\ GoesOn(w.node, s.order, PeersStep(w, cost, s).order)
           /\ PeersStep(w, cost, s).timer # "due"
<1> DEFINE n  == w.node
           o  == s.order
           s3 == ObserveOrder(w, s)
           s4 == ConfirmHallOrder(w, cost, s3)
           s5 == ResetHallOrder(s4)
           s6 == MonitorHallOrderTimer(w, cost, s5)
           s7 == ControlHallOrderTimer(w, s6)
<1>1. PeersStep(w, cost, s) = s7
    <2>1. TimedOut(w, kElevs - 1) = w
        BY QuietTimedOut
    <2>2. MonitorWatchdogTimers(w, cost, s) = s /\ MonitorFault(w, cost, s) = s
        BY QuietMonitors
    <2> QED BY <2>1, <2>2 DEF PeersStep
<1>2. s \in [order : OrderRec, timer : Timer] /\ o \in OrderRec /\ o.version \in Nat /\ n \in ElevId
    BY NodesAssumption DEF SlotOK, OrderOK, OrderRec, WorldOK
<1>3. /\ SlotOK(s3) /\ s3.timer = s.timer
      /\ s3.order = IF o.status = Requested THEN Observe(o, n) ELSE o
    BY <1>2, ObserveOrderImproves DEF Improves, ObserveOrder
<1> HIDE DEF s3
<1>4. /\ SlotOK(s4) /\ s4.timer \in {s3.timer, "on"}
      /\ \/ s4.order = s3.order
         \/ /\ s3.order.status = Requested /\ Nodes \subseteq s3.order.mask
            /\ s4.order.status = Confirmed /\ s4.order.version = s3.order.version + 1
    <2>1. SlotOK(s4)
        BY <1>3, ConfirmHallOrderImproves DEF Improves
    <2> DEFINE best == Cheapest(ActiveIn(w.states), cost)
    <2>2. ActiveIn(w.states) = Nodes
        BY DEF ActiveIn, QuietWorld
    <2>3. CASE s3.order.status = Requested /\ ObservedByAll(w, s3.order) /\ ActiveIn(w.states) # {}
        <3>1. s4 = [order |-> OnConfirm(s3.order, best),
                    timer |-> IF best = w.node THEN "on" ELSE s3.timer]
            BY <2>3 DEF ConfirmHallOrder
        <3>2. Nodes \subseteq s3.order.mask
            BY <2>2, <2>3 DEF ObservedByAll, ObservedBy
        <3> HIDE DEF best, s4
        <3>3. s4.order.status = Confirmed /\ s4.order.version = s3.order.version + 1
            BY <1>3, <2>3, <3>1 DEF OnConfirm, SlotOK, OrderRec
        <3> QED BY <2>1, <2>3, <3>1, <3>2, <3>3
    <2>4. CASE ~ (s3.order.status = Requested /\ ObservedByAll(w, s3.order) /\ ActiveIn(w.states) # {})
        <3>1. s4 = s3
            BY <2>4 DEF ConfirmHallOrder
        <3> QED BY <1>3, <3>1
    <2> QED BY <2>3, <2>4
<1> HIDE DEF s4
<1>5. /\ s5.timer = s4.timer
      /\ s5.order = OnReset(s4.order)
    BY <1>4 DEF ResetHallOrder, SlotOK
<1> HIDE DEF s5
<1>6. s.timer # "due" /\ s5.timer # "due"
    BY <1>3, <1>4, <1>5
<1>7. s6 = s5
    BY <1>6 DEF MonitorHallOrderTimer
<1>8. SlotOK(s6)
    BY <1>4, <1>5, <1>7, ResetHallOrderImproves DEF Improves, s5
<1>9. s7.order = s6.order /\ s7.timer # "due"
    BY <1>6, <1>7, <1>8 DEF ControlHallOrderTimer, SlotOK
<1>10. s7.order = OnReset(s4.order)
    BY <1>5, <1>7, <1>9
<1> HIDE DEF s6, s7
<1>11. s3.order \in OrderRec /\ s4.order \in OrderRec
    BY <1>3, <1>4 DEF SlotOK
<1>12. GoesOn(n, o, s7.order)
    <2>1. CASE o.status = Requested
        <3>1. s3.order = Observe(o, n) /\ s3.order.status = Requested
              /\ s3.order.version = o.version /\ s3.order.mask = o.mask \cup {n}
            BY <1>2, <1>3, <2>1 DEF Observe, OrderRec
        <3>2. s4.order.status # Clear /\ s7.order = s4.order
            BY <1>4, <1>10, <3>1 DEF OnReset, Requested, Confirmed, Clear
        <3> QED BY <1>4, <2>1, <3>1, <3>2 DEF GoesOn
    <2>2. CASE o.status # Requested
        <3>1. s4.order = o
            BY <1>3, <1>4, <2>2
        <3>2. o.status = Clear => s7.order.status = None /\ s7.order.version = o.version + 1
            BY <1>2, <1>10, <3>1 DEF OnReset, OrderRec
        <3>3. o.status # Clear => s7.order = o
            BY <1>10, <3>1 DEF OnReset
        <3>4. o.status \in {None, Confirmed, Clear}
            BY <1>2, <2>2 DEF OrderRec, OrderStatus
        <3> QED BY <3>2, <3>3, <3>4 DEF GoesOn
    <2> QED BY <2>1, <2>2
<1> QED BY <1>1, <1>9, <1>12

-----------------------------------------------------------------------------
(* The states of a group in time, and what a step does to the copies.      *)

Quiet(s) == s.active /\ s.health # "fault"

QuietInv ==
    /\ \A n \in Nodes : phase[n] \in {"synced", "idle"} /\ health[n] # "fault"
    /\ \A n, e \in Nodes : Quiet(states[n][e]) /\ watchdogs[n][e] # "due"
    /\ \A n \in Nodes, h \in Hall : timers[n][h] # "due"
    /\ \A p \in net : Quiet(p.state)
    /\ budget.crash = 0 /\ budget.loss = 0 /\ budget.late = 0

Held(h) == [m \in Nodes |-> orders[m][h]]

CallsInv == \A h \in Hall : CallInv(Nodes, Held(h), Copies(h))

(* Node n moves its copies; packets may go, or come with what n held.      *)
CopyMoves(n) ==
    \A h \in Hall :
        /\ \A m \in Nodes : m # n => orders'[m][h] = orders[m][h]
        /\ Moves(Nodes, Copies(h), n, orders[n][h], orders'[n][h])
        /\ \A p \in net' : p \in net \/ p.orders[h] = orders[n][h]

LEMMA CopiesStay ==
    ASSUME NEW n \in Nodes, UNCHANGED orders, net' \subseteq net \cup {PacketOf(n)}
    PROVE  CopyMoves(n)
BY DEF CopyMoves, Moves, PacketOf

(* A confirmed copy of n stays as it is.                                   *)
KeepsConfirmed(n) ==
    \A h \in Hall : orders[n][h].status = Confirmed => orders'[n][h] = orders[n][h]

LEMMA StepMoves ==
    ASSUME IInv, QuietInv, InTime, NEW n \in Nodes, Step(n)
    PROVE  QuietInv' /\ CopyMoves(n) /\ KeepsConfirmed(n)
<1> USE DEF IInv
<1> DEFINE w == World(n)
<1>0. PICK pressed \in SUBSET Hall : \E slot \in StepOutcomes(n, World(n), pressed) :
            /\ phase' = [phase EXCEPT ![n] =
                    IF \E h \in Hall : Aborts(slot[h].order) THEN "aborted" ELSE "synced"]
            /\ orders' = [orders EXCEPT ![n] = [h \in Hall |-> slot[h].order]]
            /\ timers' = [timers EXCEPT ![n] = [h \in Hall |-> slot[h].timer]]
            /\ watchdogs' = [watchdogs EXCEPT ![n] =
                    [e \in Nodes |-> IF e \in World(n).due THEN "off" ELSE watchdogs[n][e]]]
            /\ states' = [states EXCEPT ![n] = TimedOut(World(n), kElevs - 1).states]
            /\ budget' = [budget EXCEPT !.press = @ - Cardinality(pressed)]
            /\ UNCHANGED <<health, net>>
    BY DEF Step
<1>1. PICK slot \in StepOutcomes(n, w, pressed) :
            /\ phase' = [phase EXCEPT ![n] =
                    IF \E h \in Hall : Aborts(slot[h].order) THEN "aborted" ELSE "synced"]
            /\ orders' = [orders EXCEPT ![n] = [h \in Hall |-> slot[h].order]]
            /\ timers' = [timers EXCEPT ![n] = [h \in Hall |-> slot[h].timer]]
            /\ watchdogs' = [watchdogs EXCEPT ![n] =
                    [e \in Nodes |-> IF e \in w.due THEN "off" ELSE watchdogs[n][e]]]
            /\ states' = [states EXCEPT ![n] = TimedOut(w, kElevs - 1).states]
            /\ budget' = [budget EXCEPT !.press = @ - Cardinality(pressed)]
            /\ UNCHANGED <<health, net>>
    BY <1>0
<1> DEFINE s(h) == [order |-> Pressed(n, pressed, h), timer |-> timers[n][h]]
<1>2. PICK cost \in [Hall -> Costs(w.states)] :
            slot = [h \in Hall |-> PeersStep(w, cost[h], s(h))]
    BY DEF StepOutcomes
<1>3. WorldOK(w) /\ w.node = n
    BY WorldIsOK
<1>4. QuietWorld(w)
    <2>1. w.due = {}
        BY DEF w, World, QuietInv
    <2>2. \A e \in Nodes : w.states[e] = IF e = n THEN OwnState(n) ELSE states[n][e]
        BY DEF w, World, TypeOK
    <2>3. OwnState(n).active /\ OwnState(n).health # "fault"
        BY DEF OwnState, QuietInv
    <2> QED BY <2>1, <2>2, <2>3 DEF QuietWorld, QuietInv, Quiet
<1>5. ASSUME NEW h \in Hall
      PROVE  /\ Moves(Nodes, Copies(h), n, orders[n][h], slot[h].order)
             /\ slot[h].timer # "due"
             /\ orders[n][h].status = Confirmed => slot[h].order = orders[n][h]
    <2>1. OrderOK(orders[n][h]) /\ timers[n][h] \in Timer /\ timers[n][h] # "due"
        BY DEF CopiesOK, TypeOK, QuietInv
    <2>2. OrderOK(Pressed(n, pressed, h))
        BY <2>1, PressedOK DEF Pressed
    <2>3. /\ SlotOK(s(h)) /\ s(h).order = Pressed(n, pressed, h) /\ s(h).timer # "due"
        BY <2>1, <2>2 DEF SlotOK, OrderOK
    <2>4. cost[h] \in [Nodes -> Nat]
        BY CostsType
    <2>5. slot[h] = PeersStep(w, cost[h], s(h))
        BY <1>2
    <2> HIDE DEF w, s
    <2>6. /\ GoesOn(n, Pressed(n, pressed, h), slot[h].order)
          /\ slot[h].timer # "due"
        BY <1>3, <1>4, <2>3, <2>4, <2>5, QuietPeersStep
    <2> DEFINE a == orders[n][h]
               x == slot[h].order
    <2>7. a \in OrderRec /\ a.version \in Nat
        BY <2>1 DEF OrderOK, OrderRec
    <2>8. CASE Pressed(n, pressed, h) = a
        <3>1. GoesOn(n, a, x)
            BY <2>6, <2>8
        <3> HIDE DEF a, x
        <3>2. \/ x = a \/ (a.status = Requested /\ x = Observe(a, n))
              \/ Advances(Nodes, n, a, x)
            BY <2>7, <3>1 DEF GoesOn, Advances
        <3>3. Moves(Nodes, Copies(h), n, a, x)
            BY <3>2 DEF Moves
        <3>4. a.status = Confirmed => x = a
            BY <3>1 DEF GoesOn, None, Requested, Confirmed, Clear
        <3> QED BY <2>6, <3>3, <3>4 DEF a, x
    <2>9. CASE Pressed(n, pressed, h) # a
        <3> DEFINE b == OnRequest(a, n)
        <3>1. Pressed(n, pressed, h) = b /\ b # a
            BY <2>9 DEF Pressed
        <3>2. GoesOn(n, b, x)
            BY <2>6, <3>1
        <3> HIDE DEF a, x
        <3>3. /\ a.status \in {None, Clear} /\ b.status = Requested
              /\ b.version = a.version + 1 /\ b.mask = {n} /\ b \in OrderRec
            <4>1. n \in ElevId
                BY NodesAssumption
            <4>2. a.status \in {None, Clear}
                BY <3>1 DEF OnRequest
            <4>3. b = Observe([a EXCEPT !.status = Requested, !.version = @ + 1, !.mask = {}], n)
                BY <4>2 DEF OnRequest
            <4>4. b.status = Requested /\ b.version = a.version + 1 /\ b.mask = {n}
                BY <2>7, <4>3 DEF Observe, OrderRec
            <4> QED BY <2>7, <4>1, <4>2, <4>4, OnRequestType
        <3> HIDE DEF b
        <3>4. ~ (Nodes \subseteq b.mask \cup {n})
            BY <3>3 DEF InTime
        <3>5. x = Observe(b, n)
            BY <3>2, <3>3, <3>4 DEF GoesOn, None, Requested, Confirmed, Clear
        <3>6. x.status = Requested /\ x.version = a.version + 1 /\ x.mask = {n}
            BY <3>3, <3>5 DEF Observe, OrderRec
        <3>7. Moves(Nodes, Copies(h), n, a, x)
            BY <3>3, <3>6 DEF Moves, Advances
        <3>8. a.status # Confirmed
            BY <3>3 DEF None, Confirmed, Clear
        <3> QED BY <2>6, <3>7, <3>8 DEF a, x
    <2> QED BY <2>8, <2>9
<1> HIDE DEF s
<1>6. NeverAborts'
    BY StepPreserves
<1>7. phase' = [phase EXCEPT ![n] = "synced"]
    <2>1. phase'[n] # "aborted"
        BY <1>6 DEF NeverAborts
    <2> QED BY <1>1, <2>1 DEF TypeOK
<1>8. TimedOut(w, kElevs - 1) = w
    <2> HIDE DEF w
    <2> QED BY <1>3, <1>4, QuietTimedOut
<1>9. states'[n] = w.states /\ \A m \in Nodes : m # n => states'[m] = states[m]
    BY <1>1, <1>8 DEF TypeOK
<1>10. \A m, e \in Nodes : watchdogs'[m][e] # "due"
    BY <1>1 DEF TypeOK, QuietInv
<1>11. \A m \in Nodes, h \in Hall : timers'[m][h] # "due"
    BY <1>1, <1>5 DEF TypeOK, QuietInv
<1>12. \A m, e \in Nodes : Quiet(states'[m][e])
    BY <1>4, <1>9 DEF QuietInv, QuietWorld, Quiet
<1>13. budget'.crash = 0 /\ budget'.loss = 0 /\ budget'.late = 0
    BY <1>1 DEF TypeOK, Budget, QuietInv
<1>14. \A m \in Nodes : phase'[m] \in {"synced", "idle"} /\ health'[m] # "fault"
    BY <1>1, <1>7 DEF TypeOK, QuietInv
<1>15. \A p \in net' : Quiet(p.state)
    BY <1>1 DEF QuietInv
<1>16. CopyMoves(n) /\ KeepsConfirmed(n)
    BY <1>1, <1>5 DEF CopyMoves, KeepsConfirmed, TypeOK
<1> QED BY <1>10, <1>11, <1>12, <1>13, <1>14, <1>15, <1>16 DEF QuietInv

LEMMA EventMoves ==
    ASSUME IInv, QuietInv, NEW n \in Nodes, Event(n)
    PROVE  QuietInv' /\ CopyMoves(n)
<1> USE DEF IInv
<1>1. PICK served \in SUBSET Hall :
        /\ phase' = [phase EXCEPT ![n] = "idle"]
        /\ orders' = [orders EXCEPT ![n] = [h \in Hall |->
                IF h \in served THEN ClearOrder(n, orders[n][h]) ELSE orders[n][h]]]
        /\ timers' = [timers EXCEPT ![n] = [h \in Hall |->
                IF h \in served /\ orders[n][h].assigned = n THEN "off" ELSE timers[n][h]]]
        /\ states' = [states EXCEPT ![n][n] = OwnState(n)]
        /\ UNCHANGED <<watchdogs, net, budget, health>>
    BY DEF Event, Serve, TypeOK
<1>2. Quiet(OwnState(n))
    BY DEF OwnState, Quiet, QuietInv
<1>3. \A m, e \in Nodes : Quiet(states'[m][e])
    BY <1>1, <1>2 DEF QuietInv, TypeOK
<1>4. \A m \in Nodes, h \in Hall : timers'[m][h] # "due"
    BY <1>1 DEF QuietInv, TypeOK
<1>5. \A m \in Nodes : phase'[m] \in {"synced", "idle"}
    BY <1>1 DEF QuietInv, TypeOK
<1>6. QuietInv'
    BY <1>1, <1>3, <1>4, <1>5 DEF QuietInv
<1>7. ASSUME NEW h \in Hall
      PROVE  Moves(Nodes, Copies(h), n, orders[n][h], ClearOrder(n, orders[n][h]))
    <2> DEFINE a == orders[n][h]
               x == ClearOrder(n, a)
    <2>1. a \in OrderRec
        BY DEF TypeOK
    <2>2. x = a \/ Advances(Nodes, n, a, x)
        BY <2>1 DEF ClearOrder, OnClear, Advances, OrderRec
    <2> QED BY <2>2 DEF Moves
<1>8. CopyMoves(n)
    BY <1>1, <1>7 DEF CopyMoves, TypeOK, Moves
<1> QED BY <1>6, <1>8

LEMMA ReceiveMoves ==
    ASSUME IInv, QuietInv, NEW n \in Nodes, NEW p \in net, Receive(n, p)
    PROVE  QuietInv' /\ CopyMoves(n)
<1> USE DEF IInv
<1>1. PICK newer \in BOOLEAN :
        /\ watchdogs' = [watchdogs EXCEPT ![n][p.from] = "on"]
        /\ states' = [states EXCEPT ![n][p.from] = IF newer THEN p.state ELSE states[n][p.from]]
        /\ orders' = [orders EXCEPT ![n] = [h \in Hall |-> OnUpdate(orders[n][h], p.orders[h])]]
        /\ UNCHANGED <<phase, timers, health, net, budget>>
    BY DEF Receive, TypeOK
<1>2. \A m, e \in Nodes : Quiet(states'[m][e]) /\ watchdogs'[m][e] # "due"
    BY <1>1 DEF QuietInv, TypeOK
<1>3. QuietInv'
    BY <1>1, <1>2 DEF QuietInv
<1>4. \A h \in Hall : p.orders[h] \in Copies(h)
    BY DEF Copies
<1>5. CopyMoves(n)
    BY <1>1, <1>4 DEF CopyMoves, TypeOK, Moves
<1> QED BY <1>3, <1>5

LEMMA TxMoves ==
    ASSUME IInv, QuietInv, NEW n \in Nodes, Tx(n)
    PROVE  QuietInv' /\ CopyMoves(n) /\ UNCHANGED orders
<1>1. /\ net' \subseteq net \cup {PacketOf(n)}
      /\ UNCHANGED <<phase, orders, timers, watchdogs, states, health, budget>>
    BY DEF Tx, From
<1>2. Quiet(PacketOf(n).state)
    BY DEF PacketOf, QuietInv
<1>3. QuietInv'
    BY <1>1, <1>2 DEF QuietInv
<1> QED BY <1>1, <1>3, CopiesStay

LEMMA NothingElseMoves ==
    ASSUME IInv, QuietInv, InTime, NEW n \in Nodes, NoEvent(n) \/ Environment(n) \/ UNCHANGED vars
    PROVE  QuietInv' /\ CopyMoves(n) /\ UNCHANGED orders
<1>1. \A m \in Nodes : phase[m] \notin {"down", "aborted"}
    BY DEF QuietInv
<1>2. ~Spend("crash") /\ ~Spend("loss") /\ ~Spend("late")
    BY DEF QuietInv, Spend
<1>3. ~Crash(n) /\ ~Restart(n) /\ ~LastPacketsGone(n) /\ ~OrderTimerExpires(n)
    BY <1>1, <1>2 DEF Crash, Restart, LastPacketsGone, OrderTimerExpires
<1>4. \A e \in Nodes : ~ContactLost(n, e) /\ ~PeerSilent(n, e)
    BY <1>1, <1>2 DEF ContactLost, PeerSilent
<1>5. CASE NoEvent(n)
    <2>1. /\ phase' = [phase EXCEPT ![n] = "idle"]
          /\ UNCHANGED <<orders, timers, watchdogs, states, health, net, budget>>
        BY <1>5 DEF NoEvent
    <2>2. QuietInv'
        BY <2>1 DEF QuietInv, IInv, TypeOK
    <2> QED BY <2>1, <2>2, CopiesStay
<1>6. CASE ChangeHealth(n)
    <2>1. PICK h \in Healths :
            /\ health' = [health EXCEPT ![n] = h]
            /\ budget' = [budget EXCEPT !.change = @ - 1]
            /\ UNCHANGED <<phase, orders, timers, watchdogs, states, net>>
        BY <1>6 DEF ChangeHealth, Spend
    <2>2. \A m \in Nodes : health'[m] # "fault"
        BY <2>1 DEF QuietInv, InTime, IInv, TypeOK
    <2>3. budget'.crash = 0 /\ budget'.loss = 0 /\ budget'.late = 0
        BY <2>1 DEF QuietInv, IInv, TypeOK, Budget
    <2>4. QuietInv'
        BY <2>1, <2>2, <2>3 DEF QuietInv
    <2> QED BY <2>1, <2>4, CopiesStay
<1>7. CASE UNCHANGED vars
    BY <1>7, CopiesStay DEF vars, QuietInv
<1> QED BY <1>3, <1>4, <1>5, <1>6, <1>7 DEF Environment

-----------------------------------------------------------------------------
(* The calls.                                                              *)

LEMMA CallsKept ==
    ASSUME IInv, IInv', CallsInv, NEW n \in Nodes, CopyMoves(n)
    PROVE  CallsInv' /\ \A h \in Hall :
                /\ ReadingMoves(Copies(h), Copies(h)')
                /\ AnsweredBy(Copies(h), Copies(h)', orders[n][h], orders'[n][h])
<1> SUFFICES ASSUME NEW h \in Hall
             PROVE  /\ CallInv(Nodes, Held(h), Copies(h))'
                    /\ ReadingMoves(Copies(h), Copies(h)')
                    /\ AnsweredBy(Copies(h), Copies(h)', orders[n][h], orders'[n][h])
    BY DEF CallsInv
<1>1. PICK o, K, o2, K2, x :
        o = Held(h) /\ K = Copies(h) /\ o2 = Held(h)' /\ K2 = Copies(h)' /\ x = orders'[n][h]
    OBVIOUS
<1>2. CallInv(Nodes, o, K)
    BY <1>1 DEF CallsInv
<1>3. x \in OrderRec /\ o[n] = orders[n][h]
    BY <1>1 DEF IInv, TypeOK, Held
<1>4. /\ \A m \in Nodes : m # n => orders'[m][h] = orders[m][h]
      /\ Moves(Nodes, K, n, o[n], x)
      /\ \A p \in net' : p \in net \/ p.orders[h] = orders[n][h]
    BY <1>1, <1>3 DEF CopyMoves
<1>5. o2 = [o EXCEPT ![n] = x]
    BY <1>1, <1>4 DEF Held
<1>6. K2 \subseteq K \cup {x}
    BY <1>1, <1>4 DEF Copies
<1>7. \A m \in Nodes : o2[m] \in K2
    BY <1>1 DEF Held, Copies
<1>8. CallInv(Nodes, o2, K2) /\ ReadingMoves(K, K2) /\ AnsweredBy(K, K2, o[n], x)
    <2>1. Replaces(Nodes, o, K, n, x, o2, K2)
        BY <1>3, <1>5, <1>6, <1>7 DEF Replaces
    <2> QED BY <1>2, <1>3, <1>4, <2>1, MoveKept
<1> QED BY <1>1, <1>3, <1>8

(* CallOf reads a leading copy.                                            *)
LEMMA CallReadsLeader ==
    ASSUME NEW N, NEW o, NEW K, CallInv(N, o, K)
    PROVE  Leads(K, CHOOSE a \in K : \A b \in K : NotBehind(a, b))
<1>1. PICK T, top : History(T, top, N, o, K)
    BY DEF CallInv
<1>2. PICK n \in N : Leads(K, o[n])
    BY <1>1 DEF History
<1> QED BY <1>2 DEF Leads

LEMMA LeaderStatus ==
    ASSUME NEW N, NEW o, NEW K, CallInv(N, o, K), NEW a, Leads(K, a)
    PROVE  a.status \in OrderStatus
<1>1. K \in SUBSET OrderRec
    BY DEF CallInv, History, Copied
<1> QED BY <1>1 DEF Leads, OrderRec

(* The call of h goes from accepted to idle.                               *)
Answered(h) == CallOf(h) = "accepted" /\ CallOf(h)' = "idle"

(* It is n that clears it, and nobody has cleared it before.               *)
AnsweredOnlyBy(n) ==
    \A h \in Hall : Answered(h) =>
        /\ orders[n][h].status = Confirmed /\ orders'[n][h].status = Clear
        /\ \A a \in Copies(h) : a.version < orders'[n][h].version

LEMMA CallsMove ==
    ASSUME IInv, IInv', CallsInv, NEW n \in Nodes, CopyMoves(n)
    PROVE  CallsInv' /\ Abstract!Next /\ AnsweredOnlyBy(n)
<1>1. CallsInv' /\ \A h \in Hall :
            /\ ReadingMoves(Copies(h), Copies(h)')
            /\ AnsweredBy(Copies(h), Copies(h)', orders[n][h], orders'[n][h])
    BY CallsKept
<1>2. ASSUME NEW h \in Hall
      PROVE  /\ CallMoves(CallOf(h), CallOf(h)') /\ CallOf(h)' \in {"idle", "called", "accepted"}
             /\ Answered(h) => /\ orders[n][h].status = Confirmed /\ orders'[n][h].status = Clear
                               /\ \A a \in Copies(h) : a.version < orders'[n][h].version
    <2>1. PICK o, K, o2, K2 :
            o = Held(h) /\ K = Copies(h) /\ o2 = Held(h)' /\ K2 = Copies(h)'
        OBVIOUS
    <2>2. /\ CallInv(Nodes, o, K) /\ CallInv(Nodes, o2, K2) /\ ReadingMoves(K, K2)
          /\ AnsweredBy(K, K2, orders[n][h], orders'[n][h])
        BY <1>1, <2>1 DEF CallsInv
    <2>3. PICK a, b : /\ a = CHOOSE c \in K : \A d \in K : NotBehind(c, d)
                      /\ b = CHOOSE c \in K2 : \A d \in K2 : NotBehind(c, d)
        OBVIOUS
    <2>4. Leads(K, a) /\ Leads(K2, b)
        BY <2>2, <2>3, CallReadsLeader
    <2>5. a.status = LeadingStatus(h) /\ b.status = LeadingStatus(h)'
        BY <2>1, <2>3 DEF LeadingStatus
    <2>6. CallOf(h) = Reading(a.status) /\ CallOf(h)' = Reading(b.status)
        BY <2>5 DEF CallOf, Reading
    <2>7. CallMoves(Reading(a.status), Reading(b.status))
        BY <2>2, <2>4 DEF ReadingMoves
    <2>8. b.status \in OrderStatus
        BY <2>2, <2>4, LeaderStatus
    <2>9. Reading(b.status) \in {"idle", "called", "accepted"}
        BY <2>8 DEF Reading, OrderStatus, None, Requested, Confirmed, Clear
    <2>10. Answered(h) => /\ orders[n][h].status = Confirmed /\ orders'[n][h].status = Clear
                          /\ \A d \in K : d.version < orders'[n][h].version
        BY <2>2, <2>4, <2>6 DEF Answered, AnsweredBy
    <2> QED BY <2>1, <2>6, <2>7, <2>9, <2>10
<1>3. Abstract!Next
    BY <1>2 DEF Abstract!Next, Abstract!CallState, Abstract!Press, Abstract!Accept,
                Abstract!Answer, Abstract!Change, CallMoves
<1>4. AnsweredOnlyBy(n)
    BY <1>2 DEF AnsweredOnlyBy
<1> QED BY <1>1, <1>3, <1>4

-----------------------------------------------------------------------------
(* The group at the start.                                                 *)

LEMMA QuietInitOK ==
    ASSUME QuietInit, InTime
    PROVE  IInv /\ QuietInv
<1>1. /\ phase     = [n \in Nodes |-> "idle"]
      /\ orders    = [n \in Nodes |-> [h \in Hall |-> DefaultOrder]]
      /\ timers    = [n \in Nodes |-> [h \in Hall |-> "off"]]
      /\ watchdogs = [n \in Nodes |-> [e \in Nodes |-> IF e # n THEN "on" ELSE "off"]]
      /\ health    = [n \in Nodes |-> "ok"]
      /\ states    = [n \in Nodes |-> [e \in Nodes |-> OwnState(e)]]
      /\ net       = {PacketOf(n) : n \in Nodes}
      /\ budget    = FullBudget
    BY DEF QuietInit, Group
<1>2. \A n \in Nodes : OwnState(n) = [active |-> TRUE, health |-> "ok"]
    BY <1>1 DEF OwnState
<1>3. \A n \in Nodes : PacketOf(n) = [from |-> n, state |-> [active |-> TRUE, health |-> "ok"],
                                      orders |-> [h \in Hall |-> DefaultOrder]]
    BY <1>1, <1>2 DEF PacketOf
<1>4. OrderOK(DefaultOrder)
    BY DefaultOrderOK
<1>5. \A n \in Nodes : OwnState(n) \in ElevatorState
    BY <1>1 DEF OwnState, ElevatorState, Health
<1>6. states \in [Nodes -> [Nodes -> ElevatorState]]
    BY <1>1, <1>5
<1>7. net \in SUBSET Packet
    <2>1. \A n \in Nodes : PacketOf(n) \in Packet
        BY <1>1, <1>4, <1>5 DEF PacketOf, Packet, OrderOK
    <2> QED BY <1>1, <2>1
<1>8. budget \in Budget
    BY <1>1, BoundAssumption DEF FullBudget, Budget
<1>9. TypeOK
    BY <1>1, <1>4, <1>6, <1>7, <1>8 DEF TypeOK, Phase, Timer, Health, OrderOK
<1>10. NeverAborts /\ TimerInv
    BY <1>1 DEF NeverAborts, TimerInv
<1>11. WatchdogInv
    BY <1>1, <1>2 DEF WatchdogInv
<1>12. CopiesOK
    BY <1>1, <1>4 DEF CopiesOK
<1>13. PacketsOK
    BY <1>1, <1>3, <1>4 DEF PacketsOK
<1>14. \A p \in net : Quiet(p.state)
    BY <1>1, <1>3 DEF Quiet
<1>15. \A n, e \in Nodes : Quiet(states[n][e]) /\ watchdogs[n][e] # "due"
    BY <1>1, <1>2 DEF Quiet
<1>16. budget.crash = 0 /\ budget.loss = 0 /\ budget.late = 0
    BY <1>1 DEF FullBudget, InTime
<1>17. QuietInv
    BY <1>1, <1>14, <1>15, <1>16 DEF QuietInv
<1> QED BY <1>9, <1>10, <1>11, <1>12, <1>13, <1>17 DEF IInv

LEMMA NoCallYet ==
    ASSUME NEW N, N # {}, NEW o, o = [n \in N |-> DefaultOrder]
    PROVE  CallInv(N, o, {DefaultOrder})
<1> DEFINE T == [v \in Nat |-> "rest"]
           K == {DefaultOrder}
<1>1. DefaultOrder \in OrderRec /\ DefaultOrder.status = None /\ DefaultOrder.version = 0
    BY DefaultOrderOK DEF OrderOK, DefaultOrder
<1>2. T \in [Nat -> Kind] /\ \A v \in Nat : T[v] = "rest"
    BY DEF Kind
<1> HIDE DEF T
<1>3. Copied(N, o, K)
    BY <1>1 DEF Copied
<1>4. \A a \in K : a.version <= 0 /\ Suits(a.status, T[a.version])
    BY <1>1, <1>2 DEF Suits
<1>5. Marked(T, N, o, K)
    BY <1>1, <1>2 DEF Marked
<1>6. Decided(T, 0, N, o, K)
    BY <1>2 DEF Decided
<1>7. \E n \in N : o[n].version = 0 /\ Leads(K, o[n])
    BY <1>1 DEF Leads, NotBehind, None
<1>8. \A v \in Nat : v < 0 => Follows(T[v], T[v + 1])
    OBVIOUS
<1>9. History(T, 0, N, o, K)
    BY <1>2, <1>3, <1>4, <1>5, <1>6, <1>7, <1>8 DEF History
<1> QED BY <1>9 DEF CallInv

LEMMA QuietInitCalls ==
    ASSUME QuietInit, InTime
    PROVE  CallsInv /\ Abstract!Init
<1>1. ASSUME NEW h \in Hall
      PROVE  Held(h) = [n \in Nodes |-> DefaultOrder] /\ Copies(h) = {DefaultOrder}
    <2>1. /\ orders = [n \in Nodes |-> [g \in Hall |-> DefaultOrder]]
          /\ net = {PacketOf(n) : n \in Nodes}
        BY DEF QuietInit, Group
    <2>2. \A n \in Nodes : orders[n][h] = DefaultOrder
        BY <2>1
    <2>3. \A p \in net : p.orders[h] = DefaultOrder
        BY <2>1, <2>2 DEF PacketOf
    <2>4. Nodes # {}
        BY DEF InTime
    <2> QED BY <2>2, <2>3, <2>4 DEF Held, Copies
<1>2. CallsInv
    BY <1>1, NoCallYet DEF CallsInv, InTime
<1>3. ASSUME NEW h \in Hall
      PROVE  CallOf(h) = "idle"
    <2>1. LeadingStatus(h) = DefaultOrder.status
        <3>1. Copies(h) = {DefaultOrder}
            BY <1>1
        <3>2. NotBehind(DefaultOrder, DefaultOrder)
            BY DEF NotBehind, DefaultOrder, None
        <3> QED BY <3>1, <3>2 DEF LeadingStatus
    <2> QED BY <2>1 DEF CallOf, DefaultOrder, None, Requested, Confirmed, Clear
<1>4. Abstract!Init
    BY <1>3 DEF Abstract!Init
<1> QED BY <1>2, <1>4

-----------------------------------------------------------------------------
QuietIInv == IInv /\ QuietInv /\ CallsInv

(* It takes the event of a node to answer a call.                          *)
AnsweredByEvent ==
    \A h \in Hall : Answered(h) =>
        \E n \in Nodes : /\ phase[n] = "synced" /\ phase'[n] = "idle"
                         /\ orders[n][h].status = Confirmed
                         /\ orders'[n][h].status = Clear

LEMMA MergeAnswersNothing ==
    ASSUME IInv, NEW n \in Nodes, NEW p \in net, Receive(n, p), AnsweredOnlyBy(n)
    PROVE  \A h \in Hall : ~Answered(h)
<1> SUFFICES ASSUME NEW h \in Hall, Answered(h) PROVE FALSE
    OBVIOUS
<1> DEFINE a == orders[n][h]
           r == p.orders[h]
<1>1. orders'[n][h] = OnUpdate(a, r)
    BY DEF Receive, IInv, TypeOK
<1>2. a \in Copies(h) /\ r \in Copies(h) /\ a \in OrderRec /\ r \in OrderRec
    BY DEF Copies, IInv, TypeOK, Packet
<1> HIDE DEF a, r
<1>3. OnUpdate(a, r).version \in {a.version, r.version} /\ a.version \in Nat /\ r.version \in Nat
    BY <1>2 DEF OnUpdate, Adopt, OrderRec
<1> QED BY <1>1, <1>2, <1>3 DEF AnsweredOnlyBy

LEMMA QuietNext ==
    ASSUME InTime, QuietIInv, [Next]_vars
    PROVE  QuietIInv' /\ Abstract!Next /\ AnsweredByEvent
<1>1. IInv'
    BY NextPreserves DEF QuietIInv
<1>2. PICK n \in Nodes : NodeStep(n) \/ Environment(n) \/ UNCHANGED vars
    BY DEF Next, InTime
<1>3. QuietInv' /\ CopyMoves(n)
    <2>1. CASE \E m \in Nodes : Rx(n, m)
        BY <2>1, ReceiveMoves DEF Rx, From, QuietIInv
    <2> QED BY <1>2, <2>1, StepMoves, EventMoves, TxMoves, NothingElseMoves
            DEF NodeStep, QuietIInv
<1>4. CallsInv' /\ Abstract!Next /\ AnsweredOnlyBy(n)
    BY <1>1, <1>3, CallsMove DEF QuietIInv
<1>5. AnsweredByEvent
    <2>1. CASE Event(n)
        <3>1. phase[n] = "synced" /\ phase'[n] = "idle"
            BY <2>1 DEF Event, Serve, QuietIInv, IInv, TypeOK
        <3> QED BY <1>4, <3>1 DEF AnsweredByEvent, AnsweredOnlyBy
    <2>2. CASE \E m \in Nodes : Rx(n, m)
        BY <1>4, <2>2, MergeAnswersNothing DEF Rx, From, QuietIInv, AnsweredByEvent
    <2>3. CASE KeepsConfirmed(n) \/ UNCHANGED orders
        <3>1. \A h \in Hall : ~(orders[n][h].status = Confirmed /\ orders'[n][h].status = Clear)
            BY <2>3 DEF KeepsConfirmed, Confirmed, Clear
        <3> QED BY <1>4, <3>1 DEF AnsweredByEvent, AnsweredOnlyBy
    <2> QED BY <1>2, <2>1, <2>2, <2>3, StepMoves, TxMoves, NothingElseMoves DEF NodeStep, QuietIInv
<1> QED BY <1>1, <1>3, <1>4, <1>5 DEF QuietIInv

(* In a group that works, the copies of every hall order behave as one     *)
(* call that is noted, accepted and answered in turn: no call that was     *)
(* accepted is forgotten, none is answered that was not accepted, and none *)
(* comes back, however long the packets of any node take to arrive and     *)
(* whatever of them is lost.                                               *)
THEOREM CallsAreKept == InTime => (QuietSpec => ImplementsHallCall)
<1> SUFFICES ASSUME InTime PROVE QuietSpec => ImplementsHallCall
    OBVIOUS
<1>1. QuietInit => QuietIInv /\ Abstract!Init
    BY QuietInitOK, QuietInitCalls DEF QuietIInv
<1>2. QuietIInv /\ [Next]_vars => QuietIInv' /\ Abstract!Next
    BY QuietNext
<1> QED BY <1>1, <1>2, PTL DEF QuietSpec, ImplementsHallCall, Abstract!Spec
=============================================================================

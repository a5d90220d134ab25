----------------------------- MODULE HallOrders -----------------------------
(***************************************************************************)
(* The hall orders of a group of elevator nodes: class Peers of            *)
(* libs/network as services/elevator-node drives it.                       *)
(*                                                                         *)
(* Each node has three threads that take turns under peers_mutex_: the     *)
(* control thread (Step, and Event for what its elevator did), the         *)
(* receiver (Rx) and the transmitter (Tx).  Each action below is one       *)
(* critical section.  The network broadcasts packets that may be lost,     *)
(* duplicated and reordered; a node may crash at any point, with all of    *)
(* its memory, and be restarted by hand.                                   *)
(*                                                                         *)
(* A timer is "off", running ("on") or "due": running and past its end     *)
(* time.  Time itself is not modelled; a running timer may come due at     *)
(* any point unless an action's comment says otherwise.                    *)
(***************************************************************************)
EXTENDS Order, FiniteSets

CONSTANTS
    Nodes,          \* the elevators of the group, out of 0 .. kElevs - 1
    Hall,           \* the hall buttons (floor and direction)
    Healths,        \* what can be wrong with an elevator, "ok" included
    MaxInFlight,    \* packets of one sender in the network at a time
    MaxVersion,     \* no step takes an order beyond this version
    MaxPress,       \* bounds on the environment: button presses,
    MaxCrash,       \*   crashes,
    MaxRestart,     \*   restarts,
    MaxLoss,        \*   losses of contact with a peer that is running,
    MaxLate,        \*   orders not served in time,
    MaxChange       \*   changes of an elevator's health

ASSUME NodesAssumption  == Nodes \subseteq ElevId
ASSUME HallAssumption   == IsFiniteSet(Hall)
ASSUME HealthAssumption == /\ "ok" \in Healths
                           /\ Healths \subseteq {"ok", "obstructed", "stopped", "fault"}
ASSUME BoundAssumption  == /\ MaxInFlight \in Nat \ {0}
                           /\ MaxVersion \in Nat
                           /\ {MaxPress, MaxCrash, MaxRestart, MaxLoss, MaxLate, MaxChange} \subseteq Nat

VARIABLES
    phase,          \* phase[n]: where the process of n is
    orders,         \* orders[n][h]: the hall part of n's orders_
    timers,         \* timers[n][h]: the hall part of n's order_timers_
    watchdogs,      \* watchdogs[n][e]: n's watchdog_timers_
    states,         \* states[n][e]: n's all_states_
    health,         \* health[n]: what the control thread of n knows of its elevator
    net,            \* the packets in the network
    budget          \* what the environment may still do

vars == <<phase, orders, timers, watchdogs, states, health, net, budget>>

Health == {"ok", "obstructed", "stopped", "fault"}
Timer  == {"off", "on", "due"}
Phase  == {"down",      \* no process
           "starting",  \* initialised, before the first step and the network threads
           "synced",    \* after a step, before the event of that step, if any
           "idle",      \* before the next step
           "aborted"}   \* an assertion failed or Abort was called

(* The fields of ElevatorState that decide who gets an order. *)
ElevatorState == [active : BOOLEAN, health : Health]
DefaultState  == [active |-> FALSE, health |-> "obstructed"]

Packet == [from : Nodes, state : ElevatorState, orders : [Hall -> OrderRec]]

Budget == [press : Nat, crash : Nat, restart : Nat, loss : Nat, late : Nat, change : Nat]

(* The network threads start after the first step.  Its event, which comes *)
(* between the two, may here already meet a packet.                        *)
Running(n)   == phase[n] \in {"starting", "synced", "idle"}
Networked(n) == phase[n] \in {"synced", "idle"}

Spend(what) == /\ budget[what] > 0
               /\ budget' = [budget EXCEPT ![what] = @ - 1]

-----------------------------------------------------------------------------
(***************************************************************************)
(* Who is the cheapest elevator for an order.                              *)
(*                                                                         *)
(* CalculateElevatorCosts adds what the elevator is doing (at most 81) and *)
(* penalties for what is wrong with it: 100 when obstructed, 1000 when     *)
(* stopped or at fault.  The first part is abstracted to any ranking of    *)
(* the elevators; the penalties decide before it.  Inactive elevators cost *)
(* the maximum, which every user of the array skips.                       *)
(***************************************************************************)
Usable(s) == s.active /\ s.health = "ok"

Penalty(s) == CASE s.health = "ok"         -> 0
                [] s.health = "obstructed" -> 1
                [] OTHER                   -> 2

Ranking == {rank \in [Nodes -> 0 .. Cardinality(Nodes) - 1] :
                \A a, b \in Nodes : rank[a] = rank[b] => a = b}

Costs(st) == {rank \in Ranking :
                \A a, b \in Nodes : Penalty(st[a]) < Penalty(st[b]) => rank[a] < rank[b]}

Cheapest(S, cost) == CHOOSE e \in S : \A d \in S : cost[e] <= cost[d]

ActiveIn(st) == {e \in Nodes : st[e].active}

-----------------------------------------------------------------------------
(***************************************************************************)
(* Peers::Step, for one hall order.                                        *)
(*                                                                         *)
(* The loops of Peers::Step treat the hall orders independently of each    *)
(* other, so one step is described by what it does to one order and its    *)
(* timer, a slot [order, timer].  w is the rest of what the step reads:    *)
(* w.node, w.states, w.due (the elevators whose watchdog timer has         *)
(* expired) and w.num (num_elevs_, counted before the watchdogs).          *)
(***************************************************************************)
Mine(w, o) == o.status = Confirmed /\ o.assigned = w.node

CandidatesUsable(w, prev) ==      \* mutant: never an elevator that is not usable
    {e \in ActiveIn(w.states) \ {prev} : Usable(w.states[e])}

(* An elevator only takes over from a usable one if it is usable itself. *)
Candidates(w, prev) ==
    {e \in ActiveIn(w.states) \ {prev} : Usable(w.states[prev]) => Usable(w.states[e])}

(* NoElev stands for the assertion on prev_assignee and for Abort. *)
NewAssignee(w, cost, prev) ==
    CASE prev \notin Nodes -> NoElev
      [] prev \in Nodes /\ w.num = 1 -> prev
      [] prev \in Nodes /\ w.num # 1 ->
            IF Candidates(w, prev) # {} THEN Cheapest(Candidates(w, prev), cost)
            ELSE IF w.states[prev].active THEN prev ELSE NoElev

ReassignHallOrder(w, cost, o) == OnReassignment(o, NewAssignee(w, cost, o.assigned))

ReassignHallOrders(w, cost, e, slot) ==
    IF slot.order.status = Confirmed /\ slot.order.assigned = e
    THEN LET o == ReassignHallOrder(w, cost, slot.order)
         IN  [order |-> o, timer |-> IF o.assigned = w.node THEN "on" ELSE slot.timer]
    ELSE slot

TimedOutStaysActive(w, e) == w    \* mutant: an expired watchdog changes no state

(* The watchdog loop has passed the elevators 0 .. e. *)
TimedOut(w, e) ==
    [w EXCEPT !.states = [d \in Nodes |->
        IF d \in w.due /\ d <= e THEN [w.states[d] EXCEPT !.active = FALSE] ELSE w.states[d]]]

WatchdogKeepsOrders(w, cost, e, slot) == slot   \* mutant: no reassignment

WatchdogTimeout(w, cost, e, slot) ==
    IF e \in w.due THEN ReassignHallOrders(TimedOut(w, e), cost, e, slot) ELSE slot

MonitorWatchdogTimers(w, cost, slot) ==
    WatchdogTimeout(w, cost, 3,
        WatchdogTimeout(w, cost, 2,
            WatchdogTimeout(w, cost, 1,
                WatchdogTimeout(w, cost, 0, slot))))

FaultOf(w, cost, e, slot) ==
    IF e \in ActiveIn(w.states) /\ w.states[e].health = "fault"
    THEN ReassignHallOrders(w, cost, e, slot)
    ELSE slot

MonitorFault(w, cost, slot) ==
    FaultOf(w, cost, 3, FaultOf(w, cost, 2, FaultOf(w, cost, 1, FaultOf(w, cost, 0, slot))))

ObserveOrder(w, slot) ==
    IF slot.order.status = Requested
    THEN [slot EXCEPT !.order = Observe(@, w.node)]
    ELSE slot

ObservedByGroup(w, o) ==          \* mutant: waits for dead elevators too
    \A e \in Nodes : ObservedBy(o, e)

ObservedByAll(w, o) == \A e \in ActiveIn(w.states) : ObservedBy(o, e)

ConfirmHallOrder(w, cost, slot) ==
    IF slot.order.status = Requested /\ ObservedByAll(w, slot.order) /\ ActiveIn(w.states) # {}
    THEN LET best == Cheapest(ActiveIn(w.states), cost)
         IN  [order |-> OnConfirm(slot.order, best),
              timer |-> IF best = w.node THEN "on" ELSE slot.timer]
    ELSE slot

ResetHallOrder(slot) == [slot EXCEPT !.order = OnReset(@)]

MonitorHallOrderTimer(w, cost, slot) ==
    CASE slot.timer # "due" -> slot
      [] slot.timer = "due" /\ slot.order.status # Confirmed -> [slot EXCEPT !.timer = "off"]
      [] slot.timer = "due" /\ slot.order.status = Confirmed ->
            LET o == ReassignHallOrder(w, cost, slot.order)
            IN  [order |-> o, timer |-> IF o.assigned = w.node THEN "on" ELSE "off"]

ControlKeepsTimer(w, slot) ==     \* mutant: the timer of an order given away runs on
    [slot EXCEPT !.timer = IF Mine(w, slot.order) /\ @ = "off" THEN "on" ELSE @]

(* Shortening the timer of an obstructed elevator leaves it running. *)
ControlHallOrderTimer(w, slot) ==
    [slot EXCEPT !.timer = CASE ~Mine(w, slot.order) -> "off"
                             [] Mine(w, slot.order) /\ @ = "off" -> "on"
                             [] Mine(w, slot.order) /\ @ # "off" -> @]

PeersStep(w, cost, slot) ==
    LET v  == TimedOut(w, kElevs - 1)
        s1 == MonitorWatchdogTimers(w, cost, slot)
        s2 == MonitorFault(v, cost, s1)
        s3 == ObserveOrder(v, s2)
        s4 == ConfirmHallOrder(v, cost, s3)
        s5 == ResetHallOrder(s4)
        s6 == MonitorHallOrderTimer(v, cost, s5)
    IN  ControlHallOrderTimer(v, s6)

-----------------------------------------------------------------------------
(* The critical sections of the three threads. *)

OwnState(n) == [active |-> TRUE, health |-> health[n]]

(* SyncPeers: the hall buttons that were pressed, and the node's own state. *)
Pressed(n, pressed, h) ==
    IF h \in pressed THEN OnRequest(orders[n][h], n) ELSE orders[n][h]

World(n) ==
    LET st == [states[n] EXCEPT ![n] = OwnState(n)]
    IN  [node   |-> n,
         states |-> st,
         due    |-> {e \in Nodes : watchdogs[n][e] = "due"},
         num    |-> Cardinality(ActiveIn(st))]

Aborts(o) == o.status = Confirmed /\ o.assigned = NoElev

(* What the step may make of the hall orders, depending on the costs. *)
StepOutcomes(n, w, pressed) ==
    {[h \in Hall |-> PeersStep(w, cost[h],
                        [order |-> Pressed(n, pressed, h), timer |-> timers[n][h]])] :
        cost \in [Hall -> Costs(w.states)]}

Step(n) ==
    /\ phase[n] \in {"starting", "idle"}
    /\ \E pressed \in SUBSET Hall :
        \E slot \in StepOutcomes(n, World(n), pressed) :
            /\ Cardinality(pressed) <= budget.press
            /\ \A h \in Hall : slot[h].order.version <= MaxVersion
            /\ phase' = [phase EXCEPT ![n] =
                    IF \E h \in Hall : Aborts(slot[h].order) THEN "aborted" ELSE "synced"]
            /\ orders' = [orders EXCEPT ![n] = [h \in Hall |-> slot[h].order]]
            /\ timers' = [timers EXCEPT ![n] = [h \in Hall |-> slot[h].timer]]
            /\ watchdogs' = [watchdogs EXCEPT ![n] =
                    [e \in Nodes |-> IF e \in World(n).due THEN "off" ELSE watchdogs[n][e]]]
            /\ states' = [states EXCEPT ![n] = TimedOut(World(n), kElevs - 1).states]
            /\ budget' = [budget EXCEPT !.press = @ - Cardinality(pressed)]
            /\ UNCHANGED <<health, net>>

(***************************************************************************)
(* The event of the step, if the elevator had one: the orders it served    *)
(* are cleared, as far as they are still this node's.  Which orders these  *)
(* are is the controller's business; here they may be any.                 *)
(***************************************************************************)
ClearAnyOrder(n, o) == OnClear(o) \* mutant: clears what was given away, too

ClearOrder(n, o) == IF o.assigned = n THEN OnClear(o) ELSE o

Serve(n, served, own) ==
    /\ phase[n] = "synced"
    /\ \A h \in served : ClearOrder(n, orders[n][h]).version <= MaxVersion
    /\ phase' = [phase EXCEPT ![n] = "idle"]
    /\ orders' = [orders EXCEPT ![n] = [h \in Hall |->
            IF h \in served THEN ClearOrder(n, @[h]) ELSE @[h]]]
    /\ timers' = [timers EXCEPT ![n] = [h \in Hall |->
            IF h \in served /\ orders[n][h].assigned = n THEN "off" ELSE @[h]]]
    /\ states' = [states EXCEPT ![n][n] = own]
    /\ UNCHANGED <<watchdogs, net, budget>>

Event(n) ==
    \E served \in SUBSET Hall :
        /\ Serve(n, served, OwnState(n))
        /\ UNCHANGED health

(* The step had no event. *)
NoEvent(n) ==
    /\ phase[n] = "synced"
    /\ phase' = [phase EXCEPT ![n] = "idle"]
    /\ UNCHANGED <<orders, timers, watchdogs, states, health, net, budget>>

(***************************************************************************)
(* TxPacketCopy and the broadcast.  Earlier packets of n may or may not    *)
(* still be on their way.                                                  *)
(***************************************************************************)
PacketOf(n) == [from |-> n, state |-> states[n][n], orders |-> orders[n]]

From(n) == {p \in net : p.from = n}

Tx(n) ==
    \E kept \in SUBSET From(n) :
        /\ Networked(n)
        /\ Cardinality(kept \cup {PacketOf(n)}) <= MaxInFlight
        /\ net' = (net \ From(n)) \cup kept \cup {PacketOf(n)}
        /\ UNCHANGED <<phase, orders, timers, watchdogs, states, health, budget>>

(***************************************************************************)
(* RxPacketProcessing.  ElevatorState::OnUpdate adopts a state of a higher *)
(* version.  The versions are not modelled: the state of an elevator that  *)
(* is not active here has version 0 and is always adopted, any other may   *)
(* be newer or not.                                                        *)
(***************************************************************************)
ReceiveFromActive(n, p) ==        \* mutant: ignores a peer it has written off
    /\ states[n][p.from].active
    /\ Networked(n)
    /\ p.from # n
    /\ watchdogs' = [watchdogs EXCEPT ![n][p.from] = "on"]
    /\ states' = [states EXCEPT ![n][p.from] = p.state]
    /\ orders' = [orders EXCEPT ![n] = [h \in Hall |-> OnUpdate(@[h], p.orders[h])]]
    /\ UNCHANGED <<phase, timers, health, net, budget>>

Receive(n, p) ==
    \E newer \in BOOLEAN :
        /\ Networked(n)
        /\ p.from # n
        /\ ~states[n][p.from].active => newer
        /\ watchdogs' = [watchdogs EXCEPT ![n][p.from] = "on"]
        /\ states' = [states EXCEPT ![n][p.from] = IF newer THEN p.state ELSE @]
        /\ orders' = [orders EXCEPT ![n] = [h \in Hall |-> OnUpdate(@[h], p.orders[h])]]
        /\ UNCHANGED <<phase, timers, health, net, budget>>

Rx(n, m) == \E p \in From(m) : Receive(n, p)

-----------------------------------------------------------------------------
(* The environment. *)

(* A hall order assigned to n is not served within kReassignOrderTimeMs. *)
OrderTimerExpires(n) ==
    \E h \in Hall :
        /\ Running(n)
        /\ timers[n][h] = "on"
        /\ timers' = [timers EXCEPT ![n][h] = "due"]
        /\ Spend("late")
        /\ UNCHANGED <<phase, orders, watchdogs, states, health, net>>

(* Nothing arrived at n from e for kWatchdogTimeMs although e is running. *)
ContactLost(n, e) ==
    /\ Running(n)
    /\ Networked(e)
    /\ watchdogs[n][e] = "on"
    /\ watchdogs' = [watchdogs EXCEPT ![n][e] = "due"]
    /\ Spend("loss")
    /\ UNCHANGED <<phase, orders, timers, states, health, net>>

(* The last packets of a dead node have reached whom they will reach. *)
LastPacketsGone(e) ==
    /\ phase[e] \in {"down", "aborted"}
    /\ net' = net \ From(e)
    /\ UNCHANGED <<phase, orders, timers, watchdogs, states, health, budget>>

(* Nothing arrived at n from e for kWatchdogTimeMs because e is dead. *)
PeerSilent(n, e) ==
    /\ Running(n)
    /\ phase[e] \in {"down", "aborted"}
    /\ From(e) = {}
    /\ watchdogs[n][e] = "on"
    /\ watchdogs' = [watchdogs EXCEPT ![n][e] = "due"]
    /\ UNCHANGED <<phase, orders, timers, states, health, net, budget>>

(* The obstruction switch, the stop button or the fault of n's elevator. *)
ChangeHealth(n) ==
    \E h \in Healths \ {health[n]} :
        /\ Running(n)
        /\ health' = [health EXCEPT ![n] = h]
        /\ Spend("change")
        /\ UNCHANGED <<phase, orders, timers, watchdogs, states, net>>

Crash(n) ==
    /\ Running(n)
    /\ phase'     = [phase     EXCEPT ![n] = "down"]
    /\ orders'    = [orders    EXCEPT ![n] = [h \in Hall |-> DefaultOrder]]
    /\ timers'    = [timers    EXCEPT ![n] = [h \in Hall |-> "off"]]
    /\ watchdogs' = [watchdogs EXCEPT ![n] = [e \in Nodes |-> "off"]]
    /\ states'    = [states    EXCEPT ![n] = [e \in Nodes |-> DefaultState]]
    /\ health'    = [health    EXCEPT ![n] = "ok"]
    /\ Spend("crash")
    /\ UNCHANGED net

(***************************************************************************)
(* A new process, and its Init.  It waits kStartupTimeMs, twice the        *)
(* watchdog time: by then nothing of its former life is on its way and     *)
(* the watchdogs of its peers have fired.  Init clears the fault.          *)
(***************************************************************************)
Restart(n) ==
    \E h \in Healths \ {"fault"} :
        /\ phase[n] = "down"
        /\ From(n) = {}
        /\ \A m \in Nodes : Running(m) => watchdogs[m][n] = "off"
        /\ phase'  = [phase  EXCEPT ![n] = "starting"]
        /\ health' = [health EXCEPT ![n] = h]
        /\ Spend("restart")
        /\ UNCHANGED <<orders, timers, watchdogs, states, net>>

-----------------------------------------------------------------------------
ColdStart ==
    /\ phase     = [n \in Nodes |-> "starting"]
    /\ orders    = [n \in Nodes |-> [h \in Hall |-> DefaultOrder]]
    /\ timers    = [n \in Nodes |-> [h \in Hall |-> "off"]]
    /\ watchdogs = [n \in Nodes |-> [e \in Nodes |-> "off"]]
    /\ states    = [n \in Nodes |-> [e \in Nodes |-> DefaultState]]
    /\ health    = [n \in Nodes |-> "ok"]
    /\ net       = {}

FullBudget == [press |-> MaxPress, crash |-> MaxCrash, restart |-> MaxRestart,
               loss |-> MaxLoss, late |-> MaxLate, change |-> MaxChange]

Init == ColdStart /\ budget = FullBudget

NodeStep(n) ==
    \/ Step(n)
    \/ Event(n)
    \/ NoEvent(n)
    \/ Tx(n)
    \/ \E m \in Nodes : Rx(n, m)

Environment(n) ==
    \/ OrderTimerExpires(n)
    \/ \E e \in Nodes : ContactLost(n, e) \/ PeerSilent(n, e)
    \/ LastPacketsGone(n)
    \/ ChangeHealth(n)
    \/ Crash(n)
    \/ Restart(n)

Next == \E n \in Nodes : NodeStep(n) \/ Environment(n)

Spec == Init /\ [][Next]_vars

(***************************************************************************)
(* Fairness.  The control and transmitter threads run periodically, a      *)
(* packet that keeps being sent keeps being received, and time passes for  *)
(* a dead node.  Nothing forces an elevator to serve, a user to press, or  *)
(* a node to be restarted.                                                 *)
(*                                                                         *)
(* The phase of a node becomes "synced" by Step only and "idle" by Event   *)
(* or NoEvent only, so fairness of the control thread is stated on the     *)
(* phase, which TLC evaluates faster than ENABLED of the whole step.       *)
(***************************************************************************)
PhaseMoves(n, from, to) == phase[n] \in from /\ phase' = [phase EXCEPT ![n] = to]

Fairness ==
    /\ \A n \in Nodes : /\ WF_phase(PhaseMoves(n, {"starting", "idle"}, "synced"))
                        /\ WF_phase(PhaseMoves(n, {"synced"}, "idle"))
                        /\ WF_vars(Tx(n))
                        /\ WF_vars(LastPacketsGone(n))
    /\ \A n, m \in Nodes : WF_vars(Rx(n, m)) /\ WF_vars(PeerSilent(n, m))

FairSpec == Spec /\ Fairness
-----------------------------------------------------------------------------
(* Safety. *)

TypeOK ==
    /\ phase     \in [Nodes -> Phase]
    /\ orders    \in [Nodes -> [Hall -> OrderRec]]
    /\ timers    \in [Nodes -> [Hall -> Timer]]
    /\ watchdogs \in [Nodes -> [Nodes -> Timer]]
    /\ states    \in [Nodes -> [Nodes -> ElevatorState]]
    /\ health    \in [Nodes -> Health]
    /\ net       \in SUBSET Packet
    /\ budget    \in Budget

(* The assertion that an order being reassigned has an assignee, and the   *)
(* Abort when nobody can take it over, are never reached: whatever was     *)
(* merged from whom, a confirmed order names an elevator of the group.     *)
NeverAborts == \A n \in Nodes : phase[n] # "aborted"

ConfirmedNamesNode ==
    /\ \A n \in Nodes, h \in Hall :
            orders[n][h].status = Confirmed => orders[n][h].assigned \in Nodes
    /\ \A p \in net, h \in Hall :
            p.orders[h].status = Confirmed => p.orders[h].assigned \in Nodes

(* A peer counts as active exactly as long as its watchdog timer guards    *)
(* it: a peer that dies is noticed, and one written off is not acted on.   *)
WatchdogGuardsActive ==
    \A n \in Nodes : Running(n) => \A e \in Nodes \ {n} :
        states[n][e].active <=> watchdogs[n][e] # "off"

(* "Reassign to self": when a node that is alone finds the timer of a      *)
(* confirmed order expired, the order it keeps is its own, although the    *)
(* order may have been reassigned behind the timer's back and although the *)
(* code keeps whatever assignee the order has.                             *)
AloneKeepsOwnOrders ==
    \A n \in Nodes, h \in Hall :
        /\ Running(n)
        /\ ActiveIn(World(n).states) = {n}
        /\ timers[n][h] # "off"
        /\ orders[n][h].status = Confirmed
        => orders[n][h].assigned = n

(* The barrier before a confirmation.  "Mark this node as having seen a    *)
(* hall order, so ObservedByAll can converge": a node that is marked on a  *)
(* request has seen that request or something later.                       *)
MarkedHaveSeen ==
    \A n, e \in Nodes, h \in Hall :
        /\ Running(n) /\ Running(e)
        /\ orders[n][h].status = Requested
        /\ ObservedBy(orders[n][h], e)
        => \/ orders[e][h].version > orders[n][h].version
           \/ /\ orders[e][h].version = orders[n][h].version
              /\ orders[e][h].status >= Requested

(* No step of any thread takes a copy of an order backwards: a stale,      *)
(* repeated or reordered packet never undoes what a node already knows.    *)
OrdersOnlyGrow ==
    [][\A n \in Nodes, h \in Hall :
            phase'[n] # "down" => Leq(orders[n][h], orders'[n][h])]_vars

-----------------------------------------------------------------------------
(* Liveness, under FairSpec. *)

(* Every request is confirmed or overtaken, or its node dies: no dead peer *)
(* blocks the barrier for good.                                            *)
RequestsConfirmed ==
    \A n \in Nodes, h \in Hall :
        orders[n][h].status = Requested ~> orders[n][h].status # Requested

(* An order confirmed for an elevator that is dead does not stay with it,  *)
(* when that is the only one to die: so it is checked, in hall_takeover,   *)
(* from its start with no further crash.  After a second death it is not   *)
(* true in general: an order that is merged when its elevator has already  *)
(* been written off is handed on by nobody (peers.cpp:319), StrandedServed *)
(* of ElevatorNode says what becomes of it.                                *)
DeadAssigneeReplaced ==
    \A n, e \in Nodes, h \in Hall :
        (/\ Running(n)
         /\ orders[n][h].status = Confirmed
         /\ orders[n][h].assigned = e
         /\ phase[e] = "down")
        ~> \/ ~Running(n)
           \/ phase[e] # "down"
           \/ ~ /\ orders[n][h].status = Confirmed
                /\ orders[n][h].assigned = e

(* When the environment has done its worst, all running nodes come to hold *)
(* the same orders for good.                                               *)
EventuallyAgree ==
    <>[](\A n, m \in Nodes, h \in Hall :
            Running(n) /\ Running(m) => SameOrder(orders[n][h], orders[m][h]))
=============================================================================

---------------------------- MODULE ElevatorNode ----------------------------
(***************************************************************************)
(* The whole: a group of elevator nodes, each of which shares the hall     *)
(* orders with the others (HallOrders) and drives its own cabin with the   *)
(* handlers of Fsm.  What HallOrders leaves open, which orders an elevator *)
(* serves and when it is at fault, is here decided by the cabins; what     *)
(* Controller leaves open, which orders come and go, by the group.         *)
(*                                                                         *)
(* Cab calls, the stop button and the obstruction switch are left to       *)
(* CabOrders and Controller.                                               *)
(***************************************************************************)
EXTENDS HallOrders, Fsm

ASSUME HallFloorsAssumption == Hall \subseteq Floor \X {"HallUp", "HallDown"}

VARIABLE cars       \* cars[n]: the cabin of n, and what n's controller knows

nodeVars == <<phase, orders, timers, watchdogs, states, health, net, budget, cars>>

Cabin == [elev         : Elevator,
          requests     : SUBSET Hall,
          prevRequests : SUBSET Hall,
          prevFloor    : Floor,
          position     : 0 .. 2 * (kFloors - 1),    \* 2 * floor, odd numbers between floors
          seen         : {"new", "sampled", "handled"},
          lit          : SUBSET Hall,               \* button_lamps_: the lamps as n has set them
          lamps        : SUBSET Hall,               \* the lamps of the panel
          stuck        : BOOLEAN]                   \* the motor has failed

(* A cabin that Elevator::Init has brought to the floor f. *)
CabinAt(f, stuck) ==
    [elev |-> [floor |-> f, motor |-> "Stop", moving |-> "Idle", door |-> FALSE,
               stopped |-> FALSE, fault |-> FALSE, obstructed |-> FALSE,
               inertia |-> "None", doorTimer |-> "off", floorTimer |-> "off"],
     requests |-> {}, prevRequests |-> {}, prevFloor |-> f,
     position |-> 2 * f, seen |-> "new", lit |-> {}, lamps |-> {}, stuck |-> stuck]

FloorSensor(c) == IF c.position % 2 = 0 THEN c.position \div 2 ELSE kBetweenFloors

(* ToBoolTable: the orders confirmed for n. *)
BoolTable(n, table) == {h \in Hall : table[h].status = Confirmed /\ table[h].assigned = n}

-----------------------------------------------------------------------------
(***************************************************************************)
(* ElevatorNode::Step.  First the inputs, the locked section of Peers and  *)
(* the lamps; the requests, which the lamps show, are read before          *)
(* Peers::Step changes the orders.                                         *)
(***************************************************************************)
LampsStayOn(c, table) ==          \* mutant: no lamp is ever turned off
    c.lamps \cup (table \ c.lit)

(* Only the lamps that have to change are set. *)
SetButtonLamps(c, table) == (c.lamps \ (c.lit \ table)) \cup (table \ c.lit)

Sampled(c, table) ==
    [c EXCEPT !.elev     = SetFloor(c.elev, FloorSensor(c)),
              !.requests = table,
              !.seen     = IF c.seen = "new" THEN "sampled" ELSE c.seen,
              !.lamps    = SetButtonLamps(c, table),
              !.lit      = table]

SyncAndStep(n) ==
    /\ Step(n)
    /\ cars' = [cars EXCEPT ![n] = Sampled(cars[n], BoolTable(n, orders[n]))]

(* The conditions of ElevatorNode::Step; the first that holds decides. *)
HitNewFloor(c)  == c.elev.floor # c.prevFloor
TableUpdated(c) == c.requests # c.prevRequests
HasEvent(c)     == \/ HitNewFloor(c) \/ TableUpdated(c)
                   \/ c.elev.doorTimer = "due" \/ c.elev.floorTimer = "due"

Dispatch(c) ==
    CASE HitNewFloor(c) -> FsmFloorArrival(c.elev, c.requests)
      [] ~HitNewFloor(c) /\ TableUpdated(c) -> FsmTableUpdate(c.elev, c.requests)
      [] ~HitNewFloor(c) /\ ~TableUpdated(c) /\ c.elev.doorTimer = "due" ->
            FsmDoorTimeout(c.elev, c.requests)
      [] OTHER -> FsmFloorTimeout(c.elev)

(* What the conditions remember. *)
Remembered(c) ==
    [c EXCEPT !.prevFloor    = c.elev.floor,
              !.prevRequests = IF HitNewFloor(c) THEN @ ELSE c.requests,
              !.seen         = IF @ = "sampled" THEN "handled" ELSE @]

Served(c) == {h \in Hall : h[1] = c.elev.floor /\ h[2] \in Dispatch(c).clear}

HealthUnreported(e) == "ok"       \* mutant: the fault does not reach the peers

HealthOf(e) == IF e.fault THEN "fault" ELSE "ok"

(* Event(handler): the orders may have changed since they were sampled. *)
HandleEvent(n) ==
    LET c == cars[n]
        h == HealthOf(Dispatch(c).elev)
    IN  /\ HasEvent(c)
        /\ Serve(n, Served(c), [active |-> TRUE, health |-> h])
        /\ health' = [health EXCEPT ![n] = h]
        /\ cars' = [cars EXCEPT ![n] =
                [Remembered(c) EXCEPT !.elev     = Dispatch(c).elev,
                                      !.requests = BoolTable(n, orders'[n])]]

HandleNothing(n) ==
    /\ ~HasEvent(cars[n])
    /\ NoEvent(n)
    /\ cars' = [cars EXCEPT ![n] = Remembered(@)]

-----------------------------------------------------------------------------
(* The cabin. *)

Turn(n, c) ==
    /\ Running(n)
    /\ cars' = [cars EXCEPT ![n] = c]
    /\ UNCHANGED <<phase, orders, timers, watchdogs, states, health, net>>

(* By half a floor; it stays at each position for longer than a step takes. *)
Move(n) ==
    \E p \in 0 .. 2 * (kFloors - 1) :
        /\ cars[n].seen = "handled"
        /\ ~cars[n].stuck
        /\ \/ cars[n].elev.motor = "Up"   /\ p = cars[n].position + 1
           \/ cars[n].elev.motor = "Down" /\ p = cars[n].position - 1
        /\ Turn(n, [cars[n] EXCEPT !.position = p, !.seen = "new"])
        /\ UNCHANGED budget

MotorFails(n) ==
    /\ ~cars[n].stuck
    /\ Turn(n, [cars[n] EXCEPT !.stuck = TRUE])
    /\ Spend("change")

DoorTimerExpires(n) ==
    /\ cars[n].elev.doorTimer = "on"
    /\ Turn(n, [cars[n] EXCEPT !.elev.doorTimer = "due"])
    /\ UNCHANGED budget

(* kFaultTimeoutMs is longer than a working cabin takes to the next floor. *)
FloorTimerExpires(n) ==
    /\ cars[n].elev.floorTimer = "on"
    /\ cars[n].stuck
    /\ Turn(n, [cars[n] EXCEPT !.elev.floorTimer = "due"])
    /\ UNCHANGED budget

(* The elevator server stops the motor when the process is gone; Init      *)
(* lets the cabin go down to the next floor.  Nobody resets the lamps.     *)
CrashWithCar(n) ==
    /\ Crash(n)
    /\ cars' = [cars EXCEPT ![n] =
            [CabinAt(@.position \div 2, @.stuck) EXCEPT !.position = cars[n].position,
                                                        !.lamps    = cars[n].lamps]]

RestartWithCar(n) ==
    /\ ~cars[n].stuck \/ cars[n].position % 2 = 0
    /\ Restart(n)
    /\ health'[n] = "ok"
    /\ cars' = [cars EXCEPT ![n] =
            [CabinAt(@.position \div 2, @.stuck) EXCEPT !.lamps = cars[n].lamps]]

-----------------------------------------------------------------------------
NodeInit ==
    /\ Init
    /\ cars \in [Nodes -> {CabinAt(f, FALSE) : f \in Floor}]

Network(n) ==
    /\ \/ Tx(n)
       \/ \E m \in Nodes : Rx(n, m)
       \/ \E m \in Nodes : ContactLost(n, m) \/ PeerSilent(n, m)
       \/ LastPacketsGone(n)
       \/ OrderTimerExpires(n)
    /\ UNCHANGED cars

NodeNext ==
    \E n \in Nodes :
        \/ SyncAndStep(n)
        \/ HandleEvent(n)
        \/ HandleNothing(n)
        \/ Network(n)
        \/ Move(n) \/ MotorFails(n)
        \/ DoorTimerExpires(n) \/ FloorTimerExpires(n)
        \/ CrashWithCar(n)
        \/ RestartWithCar(n)

NodeSpec == NodeInit /\ [][NodeNext]_nodeVars

(* That of HallOrders, and a motor that runs moves the cabin, time passes. *)
NodeFairness ==
    /\ Fairness
    /\ \A n \in Nodes : /\ WF_cars(Move(n))
                        /\ WF_cars(DoorTimerExpires(n))
                        /\ WF_cars(FloorTimerExpires(n))

FairNodeSpec == NodeSpec /\ NodeFairness

-----------------------------------------------------------------------------
(* Safety. *)

NodeTypeOK == TypeOK /\ cars \in [Nodes -> Cabin]

(* A confirmed hall order goes from a node's table only because another    *)
(* copy says so, or because that node's own cabin stands at the floor with *)
(* the door open and the order was, at that moment, its own: a             *)
(* reassignment between the snapshot and the event is respected.           *)
AnsweredAtFloor ==
    [][\A n \in Nodes, h \in Hall :
            /\ orders[n][h].status = Confirmed
            /\ orders'[n][h].status # Confirmed
            /\ phase[n] = "synced" /\ phase'[n] = "idle"
            => /\ orders[n][h].assigned = n
               /\ cars'[n].elev.door
               /\ cars[n].position = 2 * h[1]]_nodeVars

-----------------------------------------------------------------------------
(* Liveness, under FairNodeSpec. *)

Waiting(n, h)    == orders[n][h].status \in {Requested, Confirmed}
DoorOpenAt(m, f) == cars[m].elev.door /\ cars[m].position = 2 * f
Works(m)         == Running(m) /\ ~cars[m].stuck

(* Nobody knows anything later of h than n does. *)
Fresh(n, h) ==
    /\ \A m \in Nodes : Running(m) => orders[m][h].version <= orders[n][h].version
    /\ \A p \in net : p.orders[h].version <= orders[n][h].version

(* The order is for an elevator that n has already written off.  Nobody    *)
(* hands it on, orders are reassigned only when a watchdog expires; it     *)
(* takes a third node that dies while its reassignment is on the way.      *)
Stranded(n, h) ==
    /\ orders[n][h].status = Confirmed
    /\ orders[n][h].assigned # n
    /\ ~states[n][orders[n][h].assigned].active

(* The point of it all: a hall call that a running node knows of, and that *)
(* was not answered in the meantime, is answered by some elevator that     *)
(* opens its door there, although nodes die or the motor of a cabin fails  *)
(* on the way, as long as one elevator is left that works.                 *)
CallServed ==
    \A n \in Nodes, h \in Hall :
        Running(n) /\ Waiting(n, h) /\ Fresh(n, h) /\ ~Stranded(n, h)
            ~> \/ ~Running(n)
               \/ \E m \in Nodes : DoorOpenAt(m, h[1])
               \/ \A m \in Nodes : ~Works(m)

(* A stranded order waits for its elevator: when that one is restarted, it *)
(* learns of the order, which nobody offers it again, and serves it.       *)
StrandedServed ==
    \A e \in Nodes, h \in Hall :
        /\ phase[e] = "starting"
        /\ \E n \in Nodes : Running(n) /\ Stranded(n, h) /\ orders[n][h].assigned = e
        ~> ~Works(e) \/ DoorOpenAt(e, h[1])

(* The lamp that an elevator has lit for a call goes out again: the call   *)
(* was answered, or it was handed on.  A lamp that a former process of the *)
(* node has left alight is not meant: to the new one, it is out.           *)
LampGoesOut ==
    \A n \in Nodes, h \in Hall :
        h \in cars[n].lit ~> h \notin cars[n].lamps \/ ~Works(n)
=============================================================================

----------------------------- MODULE Controller -----------------------------
(***************************************************************************)
(* One elevator: class Controller of libs/control on class Elevator of     *)
(* libs/elevator, as ElevatorNode::Step drives them, and the cabin in its  *)
(* shaft, which is external.                                               *)
(*                                                                         *)
(* A step of the control thread reads the inputs (Sample) and then handles *)
(* at most one event (one action per handler).  In between the cabin       *)
(* moves and the receiver thread changes the orders.                       *)
(***************************************************************************)
EXTENDS Fsm

CONSTANTS
    Buttons,        \* the buttons there are: pairs <<floor, type>>
    ObstructAnytime, \* whether the door can be obstructed while it is or just gets closed
    MaxCall,        \* bounds on the environment: orders assigned to the elevator,
    MaxWithdraw,    \*   hall orders reassigned to another elevator,
    MaxObstruct,    \*   times the obstruction switch is set,
    MaxStop         \*   presses of the stop button

ASSUME ButtonsAssumption == Buttons \subseteq Floor \X BtnType
ASSUME EnvAssumption     == /\ ObstructAnytime \in BOOLEAN
                            /\ {MaxCall, MaxWithdraw, MaxObstruct, MaxStop} \subseteq Nat

VARIABLES
    position,       \* where the cabin is: 2 * floor, odd numbers between floors
    seen,           \* how far the control thread is with that position
    switch,         \* the obstruction switch
    elev,           \* ElevatorState, and the timers and the inertia of Controller
    orders,         \* the orders confirmed for this elevator (Peers)
    requests,       \* requests_: the orders as the controller knows them
    prevRequests,   \* prev_requests_
    prevFloor,      \* prev_floor_ of Elevator
    stopPressed,    \* stop_pressed_: a press of the stop button was sampled
    pc,             \* "sample" or "dispatch"
    budget          \* what the environment may still do

cabin == <<position, seen>>
ctrl  == <<elev, requests, prevRequests, prevFloor, stopPressed, pc>>
vars  == <<cabin, switch, ctrl, orders, budget>>

Top      == kFloors - 1
Position == 0 .. 2 * Top

FloorSensor == IF position % 2 = 0 THEN position \div 2 ELSE kBetweenFloors

-----------------------------------------------------------------------------
(* A step of the control thread. *)

Spend(what) == /\ budget[what] > 0
               /\ budget' = [budget EXCEPT ![what] = @ - 1]

(***************************************************************************)
(* Elevator::Step and SyncPeers.  StopButton::Pressed reports the rising   *)
(* edge of the button, so not in two steps in a row.                       *)
(***************************************************************************)
Sample ==
    /\ pc = "sample"
    /\ elev' = [SetFloor(elev, FloorSensor) EXCEPT !.obstructed = switch]
    /\ \/ stopPressed' = FALSE /\ UNCHANGED budget
       \/ ~stopPressed /\ stopPressed' = TRUE /\ Spend("stop")
    /\ requests' = orders
    /\ seen' = IF seen = "new" THEN "sampled" ELSE seen
    /\ pc' = "dispatch"
    /\ UNCHANGED <<position, switch, prevRequests, prevFloor, orders>>

(* ElevatorNode::Event, which every handler's result goes to. *)
Apply(result) ==
    LET left == orders \ {<<elev.floor, b>> : b \in result.clear}
    IN  /\ elev' = result.elev
        /\ orders' = left
        /\ requests' = left

StepDone ==
    /\ pc' = "sample"
    /\ seen' = IF seen = "sampled" THEN "handled" ELSE seen
    /\ UNCHANGED <<position, switch, stopPressed, budget>>

(* The conditions of ElevatorNode::Step; the first that holds decides. *)
HitNewFloor  == elev.floor # prevFloor
TableUpdated == requests # prevRequests

(* HitNewFloor and RequestTableUpdated remember what they compared. *)
NoStop    == pc = "dispatch" /\ ~stopPressed /\ prevFloor' = elev.floor
NoArrival == NoStop /\ ~HitNewFloor /\ prevRequests' = requests
NoUpdate  == NoArrival /\ ~TableUpdated

EmergencyStop ==
    /\ pc = "dispatch" /\ stopPressed /\ ~elev.stopped
    /\ Apply(FsmEmergencyStop(elev, FloorSensor))
    /\ StepDone
    /\ UNCHANGED <<prevFloor, prevRequests>>

EmergencyStopReset ==
    /\ pc = "dispatch" /\ stopPressed /\ elev.stopped
    /\ Apply(FsmEmergencyStopReset(elev, requests))
    /\ StepDone
    /\ UNCHANGED <<prevFloor, prevRequests>>

FloorArrival ==
    /\ NoStop /\ HitNewFloor
    /\ Apply(FsmFloorArrival(elev, requests))
    /\ StepDone
    /\ UNCHANGED prevRequests

TableUpdate ==
    /\ NoArrival /\ TableUpdated
    /\ Apply(FsmTableUpdate(elev, requests))
    /\ StepDone

DoorTimeout ==
    /\ NoUpdate /\ elev.doorTimer = "due"
    /\ Apply(FsmDoorTimeout(elev, requests))
    /\ StepDone

FloorTimeout ==
    /\ NoUpdate /\ elev.doorTimer # "due" /\ elev.floorTimer = "due"
    /\ Apply(FsmFloorTimeout(elev))
    /\ StepDone

NoEvent ==
    /\ NoUpdate /\ elev.doorTimer # "due" /\ elev.floorTimer # "due"
    /\ StepDone
    /\ UNCHANGED <<elev, orders, requests>>

Dispatch ==
    \/ EmergencyStop
    \/ EmergencyStopReset
    \/ FloorArrival
    \/ TableUpdate
    \/ DoorTimeout
    \/ FloorTimeout
    \/ NoEvent

-----------------------------------------------------------------------------
(* The environment. *)

(***************************************************************************)
(* The cabin moves by half a floor.  It stays at each position for longer  *)
(* than a step takes: kSampleTimeMs is 40 ms, and a floor sensor is passed *)
(* in several times that.  The shaft ends at the outermost floors.         *)
(***************************************************************************)
Move ==
    /\ seen = "handled"
    /\ \/ elev.motor = "Up"   /\ position < 2 * Top /\ position' = position + 1
       \/ elev.motor = "Down" /\ position > 0       /\ position' = position - 1
    /\ seen' = "new"
    /\ UNCHANGED <<switch, ctrl, orders, budget>>

(* A cab call here, or a hall order confirmed for this elevator. *)
Assign ==
    \E b \in Buttons \ orders :
        /\ orders' = orders \cup {b}
        /\ Spend("call")
        /\ UNCHANGED <<cabin, switch, ctrl>>

(* A hall order is reassigned to another elevator. *)
Withdraw ==
    \E b \in orders :
        /\ b[2] # "Cab"
        /\ orders' = orders \ {b}
        /\ Spend("withdraw")
        /\ UNCHANGED <<cabin, switch, ctrl>>

Obstruct ==
    /\ ~switch
    /\ ObstructAnytime \/ (elev.door /\ pc = "sample")
    /\ switch' = TRUE
    /\ Spend("obstruct")
    /\ UNCHANGED <<cabin, ctrl, orders>>

Unobstruct ==
    /\ switch
    /\ switch' = FALSE
    /\ UNCHANGED <<cabin, ctrl, orders, budget>>

DoorTimerExpires ==
    /\ elev.doorTimer = "on"
    /\ elev' = [elev EXCEPT !.doorTimer = "due"]
    /\ UNCHANGED <<cabin, switch, requests, prevRequests, prevFloor, stopPressed, pc,
                   orders, budget>>

FloorTimerExpires ==
    /\ elev.floorTimer = "on"
    /\ elev' = [elev EXCEPT !.floorTimer = "due"]
    /\ UNCHANGED <<cabin, switch, requests, prevRequests, prevFloor, stopPressed, pc,
                   orders, budget>>

-----------------------------------------------------------------------------
(* Elevator::Init has driven the cabin to a floor and read the signals:    *)
(* the stop button is not held and the door not obstructed at that moment. *)
Init ==
    /\ position \in {p \in Position : p % 2 = 0}
    /\ seen = "new"
    /\ switch = FALSE
    /\ elev = [floor |-> FloorSensor, motor |-> "Stop", moving |-> "Idle", door |-> FALSE,
               stopped |-> FALSE, fault |-> FALSE, obstructed |-> FALSE,
               inertia |-> "None", doorTimer |-> "off", floorTimer |-> "off"]
    /\ orders = {} /\ requests = {} /\ prevRequests = {}
    /\ prevFloor = FloorSensor
    /\ stopPressed = FALSE
    /\ pc = "sample"
    /\ budget = [call |-> MaxCall, withdraw |-> MaxWithdraw,
                 obstruct |-> MaxObstruct, stop |-> MaxStop]

Next ==
    \/ Sample \/ Dispatch
    \/ Move \/ Assign \/ Withdraw
    \/ Obstruct \/ Unobstruct
    \/ DoorTimerExpires \/ FloorTimerExpires

Spec == Init /\ [][Next]_vars

(* The control thread is periodic, a motor that runs moves the cabin, time *)
(* passes, and nobody obstructs the door for ever.                         *)
Fairness ==
    /\ WF_vars(Sample) /\ WF_vars(Dispatch)
    /\ WF_vars(Move)
    /\ WF_vars(DoorTimerExpires)
    /\ WF_vars(Unobstruct)

FairSpec == Spec /\ Fairness

-----------------------------------------------------------------------------
(* Safety. *)

TypeOK ==
    /\ position \in Position
    /\ seen \in {"new", "sampled", "handled"}
    /\ switch \in BOOLEAN
    /\ elev \in Elevator
    /\ orders \in SUBSET Buttons
    /\ requests \in SUBSET Buttons
    /\ prevRequests \in SUBSET Buttons
    /\ prevFloor \in Floor
    /\ stopPressed \in BOOLEAN
    /\ pc \in {"sample", "dispatch"}
    /\ budget \in [call : Nat, withdraw : Nat, obstruct : Nat, stop : Nat]

(* The motor never runs while the door is open, whatever the order of      *)
(* stop presses, resets, timeouts and table updates.                       *)
DoorOpenMeansStill == elev.door => elev.motor = "Stop"

(* The emergency stop undermines the next three, which are therefore       *)
(* claimed as long as it has not been used.                                *)
StopUnused == budget.stop = MaxStop

(* The door is open only with the cabin at a floor, and at the floor that  *)
(* the controller takes it to be at.                                       *)
DoorOpenAtFloor == StopUnused /\ elev.door => position = 2 * elev.floor

(* The motor does not pull the cabin past the end of the shaft: once a     *)
(* step has handled its being there, the motor no longer runs that way.    *)
NotDrivenIntoEnd ==
    StopUnused /\ seen = "handled" =>
        /\ position = 0       => elev.motor # "Down"
        /\ position = 2 * Top => elev.motor # "Up"

(* An order of this elevator goes only by a withdrawal or because the door *)
(* is open at its floor with the cabin there: no call is answered without  *)
(* being served.                                                           *)
ServedAtFloor ==
    [][\A b \in orders \ orders' :
            \/ ~StopUnused
            \/ budget'.withdraw < budget.withdraw
            \/ elev'.door /\ position = 2 * b[1]]_vars

(* What the guard on kBetweenFloors before OpenDoor is for: the door does  *)
(* not open between floors, the emergency stop included.                   *)
NoDoorBetweenFloors == elev.door => position % 2 = 0

-----------------------------------------------------------------------------
(* Liveness, under FairSpec. *)

(* Every order of this elevator is served or withdrawn. *)
OrdersServed == \A b \in Buttons : b \in orders ~> b \notin orders

(* "Move in new direction": an idle elevator that has an order elsewhere   *)
(* does not keep standing there.                                           *)
IdleMovesToRequest ==
    (elev.moving = "Idle" /\ ~elev.stopped /\ orders # {})
        ~> (elev.moving # "Idle" \/ elev.stopped \/ orders = {})

(* The door is never left open for good. *)
DoorCloses == elev.door ~> ~elev.door
=============================================================================

-------------------------------- MODULE Fsm ---------------------------------
(***************************************************************************)
(* The decisions of class Controller (libs/control) and what its handlers  *)
(* do to the elevator, as functions of the elevator and its requests.      *)
(* Controller runs them for one elevator, ElevatorNode for a group.        *)
(***************************************************************************)
EXTENDS Integers, FiniteSets

CONSTANT kFloors    \* number of floors

Floor   == 0 .. kFloors - 1
BtnType == {"HallUp", "HallDown", "Cab"}

ASSUME FloorsAssumption == kFloors \in Nat /\ kFloors > 1

kBetweenFloors == -1
TimerState == {"off", "on", "due"}

(* ElevatorState, and the timers and the inertia of Controller. *)
Elevator == [floor      : Floor,
             motor      : {"Up", "Stop", "Down"},
             moving     : {"Idle", "DoorOpen", "Moving"},
             door       : BOOLEAN,
             stopped    : BOOLEAN,
             fault      : BOOLEAN,
             obstructed : BOOLEAN,
             inertia    : {"Up", "Down", "None"},
             doorTimer  : TimerState,
             floorTimer : TimerState]

-----------------------------------------------------------------------------
(* RequestTable and the decisions of the controller.  R is a set of        *)
(* requests, i an inertia, f a floor.                                      *)

RequestHere(R, f)  == \E r \in R : r[1] = f
RequestAbove(R, f) == \E r \in R : r[1] > f
RequestBelow(R, f) == \E r \in R : r[1] < f

GoUp   == [motor |-> "Up",   moving |-> "Moving"]
GoDown == [motor |-> "Down", moving |-> "Moving"]
Open   == [motor |-> "Stop", moving |-> "DoorOpen"]
Rest   == [motor |-> "Stop", moving |-> "Idle"]

(* The requests that way first, then here, then the other way. *)
ChooseDirection(R, i, f) ==
    LET up   == i = "Up"   /\ RequestAbove(R, f)
        down == i = "Down" /\ RequestBelow(R, f)
    IN  CASE up   -> GoUp
          [] down -> GoDown
          [] ~up /\ ~down /\ RequestHere(R, f) -> Open
          [] ~up /\ ~down /\ ~RequestHere(R, f) ->
                IF RequestAbove(R, f) THEN GoUp
                ELSE IF RequestBelow(R, f) THEN GoDown
                ELSE Rest

ShouldStopOnCallOnly(R, i, f) ==  \* mutant: does not stop after the last request
    CASE i = "Down" -> <<f, "HallDown">> \in R \/ <<f, "Cab">> \in R
      [] i = "Up"   -> <<f, "HallUp">> \in R \/ <<f, "Cab">> \in R
      [] OTHER      -> TRUE

ShouldStop(R, i, f) ==
    CASE i = "Down" -> <<f, "HallDown">> \in R \/ <<f, "Cab">> \in R \/ ~RequestBelow(R, f)
      [] i = "Up"   -> <<f, "HallUp">> \in R \/ <<f, "Cab">> \in R \/ ~RequestAbove(R, f)
      [] OTHER      -> TRUE

ClearAlongInertia(R, i, f) ==     \* mutant: the call against the inertia is left
    {"Cab"} \cup {b \in {"HallUp"}   : i # "Down"}
            \cup {b \in {"HallDown"} : i # "Up"}

(* The button types to clear at floor f: the hall call against the inertia *)
(* only when nothing is left to do along it.                               *)
ClearCurrentFloor(R, i, f) ==
    {"Cab"}
    \cup {b \in {"HallUp"}   : i # "Down" \/ (~RequestBelow(R, f) /\ <<f, "HallDown">> \notin R)}
    \cup {b \in {"HallDown"} : i # "Up"   \/ (~RequestAbove(R, f) /\ <<f, "HallUp">> \notin R)}

-----------------------------------------------------------------------------
(* What the handlers do to the elevator e. *)

SetFloorUnchecked(e, sensor) ==   \* mutant: kBetweenFloors is taken for a floor
    [e EXCEPT !.floor = sensor]

SetFloor(e, sensor) == IF sensor = kBetweenFloors THEN e ELSE [e EXCEPT !.floor = sensor]

SetMotorDir(e, dir) == [e EXCEPT !.motor = IF e.stopped THEN "Stop" ELSE dir]
OpenDoor(e)         == [e EXCEPT !.door = TRUE, !.moving = "DoorOpen"]
CloseDoor(e)        == [e EXCEPT !.door = FALSE]
StartDoorTimer(e)   == [e EXCEPT !.doorTimer = "on"]

StopOnly(e) ==                    \* mutant: OpenDoor is forgotten
    [StartDoorTimer(SetMotorDir(e, "Stop")) EXCEPT !.floorTimer = "off"]

StopAndOpenDoor(e) ==
    [StartDoorTimer(OpenDoor(SetMotorDir(e, "Stop"))) EXCEPT !.floorTimer = "off"]

ExecuteDecision(e, d) ==
    IF e.stopped THEN e
    ELSE [SetMotorDir(e, d.motor) EXCEPT
            !.moving     = d.moving,
            !.floorTimer = IF d.moving = "Moving" THEN "on" ELSE "off",
            !.inertia    = IF d.motor = "Stop" THEN @ ELSE d.motor]

GoWithDoorOpen(e, d) ==           \* mutant: CloseDoor is forgotten
    IF e.obstructed
    THEN [e EXCEPT !.doorTimer = IF @ = "due" THEN "on" ELSE @]
    ELSE ExecuteDecision(e, d)

(* TryCloseDoor, followed by the decision when the door could be closed. *)
CloseDoorAndGo(e, d) ==
    IF e.obstructed
    THEN [e EXCEPT !.doorTimer = IF @ = "due" THEN "on" ELSE @]
    ELSE ExecuteDecision(CloseDoor(e), d)

(* A handler returns the elevator and the buttons to clear at its floor. *)
Result(e, clear) == [elev |-> e, clear |-> clear]

FsmEmergencyStop(e, sensor) ==
    LET halted == [SetMotorDir([e EXCEPT !.stopped = TRUE], "Stop") EXCEPT !.floorTimer = "off"]
        opened == IF sensor # kBetweenFloors THEN StartDoorTimer(OpenDoor(halted)) ELSE halted
    IN  Result([opened EXCEPT !.moving = "Idle"], {})

FsmEmergencyStopReset(e, R) ==
    LET ready == [e EXCEPT !.stopped = FALSE]
    IN  IF e.door
        THEN Result(StartDoorTimer([ready EXCEPT !.moving = "DoorOpen"]),
                    ClearCurrentFloor(R, e.inertia, e.floor))
        ELSE Result(ExecuteDecision(ready, CASE e.inertia = "Up"   -> GoUp
                                             [] e.inertia = "Down" -> GoDown
                                             [] e.inertia = "None" -> Rest), {})

FsmFloorArrivalClears(e, R) ==    \* mutant: clears the floor it passes
    LET arrived == [e EXCEPT !.fault = FALSE, !.floorTimer = "on"]
    IN  IF e.moving = "Moving" /\ ShouldStop(R, e.inertia, e.floor)
        THEN Result(StopAndOpenDoor(arrived), ClearCurrentFloor(R, e.inertia, e.floor))
        ELSE Result(arrived, ClearCurrentFloor(R, e.inertia, e.floor))

FsmFloorArrival(e, R) ==
    LET safe    == IF e.floor = 0 \/ e.floor = kFloors THEN SetMotorDir(e, "Stop") ELSE e
        arrived == [safe EXCEPT !.fault = FALSE, !.floorTimer = "on"]
    IN  IF e.moving = "Moving" /\ ShouldStop(R, e.inertia, e.floor)
        THEN Result(StopAndOpenDoor(arrived), ClearCurrentFloor(R, e.inertia, e.floor))
        ELSE Result(arrived, {})

(* The guard on Floor() holds whatever the sensor says: SetFloor drops     *)
(* kBetweenFloors, and Floor() stays the last floor.                       *)
IdleTableUpdate(e, R) ==
    LET d    == ChooseDirection(R, e.inertia, e.floor)
        open == IF e.floor # kBetweenFloors THEN OpenDoor(e) ELSE e
        done == ExecuteDecision(StartDoorTimer(open), d)
    IN  IF d.moving = "DoorOpen"
        THEN Result(done, ClearCurrentFloor(R, done.inertia, e.floor))
        ELSE Result(CloseDoorAndGo(e, d), {})

FsmTableUpdateMoves(e, R) ==      \* mutant: a moving elevator is treated as an idle one
    IF e.moving \in {"Idle", "Moving"} THEN IdleTableUpdate(e, R)
    ELSE Result(e, {})

FsmTableUpdate(e, R) ==
    CASE e.moving = "Idle"     -> IdleTableUpdate(e, R)
      [] e.moving = "Moving"   -> Result(e, {})
      [] e.moving = "DoorOpen" ->
            IF ShouldStop(R, e.inertia, e.floor)
            THEN Result(StartDoorTimer(e), ClearCurrentFloor(R, e.inertia, e.floor))
            ELSE Result(e, {})

FsmDoorTimeoutOnce(e, R) ==       \* mutant: an obstructed door is not tried again
    LET stopped == [e EXCEPT !.doorTimer = "off"]
        d       == ChooseDirection(R, e.inertia, e.floor)
        stay    == StartDoorTimer(ExecuteDecision(stopped, d))
    IN  CASE e.obstructed \/ e.moving # "DoorOpen" -> Result(stopped, {})
          [] ~e.obstructed /\ e.moving = "DoorOpen" ->
                IF d.moving = "DoorOpen"
                THEN Result(stay, ClearCurrentFloor(R, stay.inertia, e.floor))
                ELSE Result(CloseDoorAndGo(stopped, d), {})

FsmDoorTimeout(e, R) ==
    LET stopped == [e EXCEPT !.doorTimer = "off"]
        d       == ChooseDirection(R, e.inertia, e.floor)
        stay    == StartDoorTimer(ExecuteDecision(stopped, d))
    IN  CASE e.obstructed -> Result(StartDoorTimer(e), {})
          [] ~e.obstructed /\ e.moving # "DoorOpen" -> Result(stopped, {})
          [] ~e.obstructed /\ e.moving = "DoorOpen" ->
                IF d.moving = "DoorOpen"
                THEN Result(stay, ClearCurrentFloor(R, stay.inertia, e.floor))
                ELSE Result(CloseDoorAndGo(stopped, d), {})

FsmFloorTimeout(e) ==
    Result([e EXCEPT !.floorTimer = "off", !.fault = @ \/ e.moving = "Moving"], {})
=============================================================================

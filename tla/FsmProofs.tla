----------------------------- MODULE FsmProofs -----------------------------
(***************************************************************************)
(* What the handlers of the controller do to an elevator in any state,     *)
(* whatever the orders are: they keep its moving state in step with both   *)
(* the motor and the door (Sound), and, the stop button aside, only steer  *)
(* it in ways that can be relied upon (Steers).                            *)
(***************************************************************************)
EXTENDS Fsm, TLAPS

(* The motor runs only in the state Moving, and then the door is shut.     *)
Sound(e) ==
    /\ e \in Elevator
    /\ e.moving # "Moving" => e.motor = "Stop"
    /\ e.door => e.moving # "Moving"

Decisions == {GoUp, GoDown, Open, Rest}

-----------------------------------------------------------------------------
(* The parts the handlers are made of. *)

LEMMA ChooseDirectionDecides ==
    ASSUME NEW R, NEW i, NEW f
    PROVE  ChooseDirection(R, i, f) \in Decisions
BY DEF ChooseDirection, Decisions

LEMMA ExecuteDecisionSound ==
    ASSUME NEW e, Sound(e), NEW d \in Decisions,
           d.moving = "Moving" => ~e.door
    PROVE  Sound(ExecuteDecision(e, d))
<1> DEFINE go == [e EXCEPT !.motor      = d.motor,
                           !.moving     = d.moving,
                           !.floorTimer = IF d.moving = "Moving" THEN "on" ELSE "off",
                           !.inertia    = IF d.motor = "Stop" THEN e.inertia ELSE d.motor]
<1>1. CASE e.stopped
    BY <1>1 DEF ExecuteDecision
<1>2. CASE ~e.stopped
    <2>1. ExecuteDecision(e, d) = go
        BY <1>2 DEF ExecuteDecision, SetMotorDir, Sound, Elevator
    <2>2. /\ d.motor \in {"Up", "Stop", "Down"}
          /\ d.moving \in {"Idle", "DoorOpen", "Moving"}
          /\ d.moving # "Moving" <=> d.motor = "Stop"
        BY DEF Decisions, GoUp, GoDown, Open, Rest
    <2>3. Sound(go)
        BY <2>2 DEF Sound, Elevator, TimerState
    <2> QED BY <2>1, <2>3
<1> QED BY <1>1, <1>2

LEMMA CloseDoorAndGoSound ==
    ASSUME NEW e, Sound(e), NEW d \in Decisions
    PROVE  Sound(CloseDoorAndGo(e, d))
<1>1. CASE e.obstructed
    BY <1>1 DEF CloseDoorAndGo, Sound, Elevator, TimerState
<1>2. CASE ~e.obstructed
    <2>1. Sound(CloseDoor(e)) /\ ~CloseDoor(e).door
        BY DEF CloseDoor, Sound, Elevator
    <2> QED BY <1>2, <2>1, ExecuteDecisionSound DEF CloseDoorAndGo
<1> QED BY <1>1, <1>2

-----------------------------------------------------------------------------
(* The handlers. *)

LEMMA FsmEmergencyStopSound ==
    ASSUME NEW e, Sound(e), NEW sensor
    PROVE  Sound(FsmEmergencyStop(e, sensor).elev)
BY DEF Sound, Elevator, TimerState, FsmEmergencyStop, Result, SetMotorDir, StartDoorTimer, OpenDoor

LEMMA FsmEmergencyStopResetSound ==
    ASSUME NEW e, Sound(e), NEW R
    PROVE  Sound(FsmEmergencyStopReset(e, R).elev)
<1> DEFINE ready == [e EXCEPT !.stopped = FALSE]
           d     == CASE e.inertia = "Up"   -> GoUp
                      [] e.inertia = "Down" -> GoDown
                      [] e.inertia = "None" -> Rest
<1>1. CASE e.door
    BY <1>1 DEF FsmEmergencyStopReset, Result, Sound, Elevator, TimerState, StartDoorTimer
<1>2. CASE ~e.door
    <2>1. d \in Decisions
        BY DEF Sound, Elevator, Decisions
    <2>2. Sound(ready) /\ ~ready.door
        BY <1>2 DEF Sound, Elevator
    <2>3. FsmEmergencyStopReset(e, R).elev = ExecuteDecision(ready, d)
        BY <1>2 DEF FsmEmergencyStopReset, Result
    <2> HIDE DEF ready, d
    <2> QED BY <2>1, <2>2, <2>3, ExecuteDecisionSound
<1> QED BY <1>1, <1>2

LEMMA FsmFloorArrivalSound ==
    ASSUME NEW e, Sound(e), NEW R
    PROVE  Sound(FsmFloorArrival(e, R).elev)
<1> DEFINE safe    == IF e.floor = 0 \/ e.floor = kFloors THEN SetMotorDir(e, "Stop") ELSE e
           arrived == [safe EXCEPT !.fault = FALSE, !.floorTimer = "on"]
<1>1. Sound(safe)
    BY DEF Sound, Elevator, SetMotorDir
<1>2. Sound(arrived)
    <2> HIDE DEF safe
    <2> QED BY <1>1 DEF Sound, Elevator, TimerState
<1>3. Sound(StopAndOpenDoor(arrived))
    <2> HIDE DEF arrived
    <2> QED BY <1>2 DEF Sound, Elevator, TimerState, StopAndOpenDoor, StartDoorTimer, OpenDoor, SetMotorDir
<1>4. FsmFloorArrival(e, R).elev \in {arrived, StopAndOpenDoor(arrived)}
    BY DEF FsmFloorArrival, Result
<1> HIDE DEF arrived
<1> QED BY <1>2, <1>3, <1>4

LEMMA FsmTableUpdateSound ==
    ASSUME NEW e, Sound(e), NEW R
    PROVE  Sound(FsmTableUpdate(e, R).elev)
<1> DEFINE d    == ChooseDirection(R, e.inertia, e.floor)
           open == IF e.floor # kBetweenFloors THEN OpenDoor(e) ELSE e
<1>1. d \in Decisions
    BY ChooseDirectionDecides
<1>2. CASE e.moving = "Idle"
    <2>1. Sound(open)
        BY <1>2 DEF Sound, Elevator, OpenDoor
    <2>2. Sound(StartDoorTimer(open))
        <3> HIDE DEF open
        <3> QED BY <2>1 DEF Sound, Elevator, TimerState, StartDoorTimer
    <2>3. CASE d.moving = "DoorOpen"
        <3>1. FsmTableUpdate(e, R).elev = ExecuteDecision(StartDoorTimer(open), d)
            BY <1>2, <2>3 DEF FsmTableUpdate, IdleTableUpdate, Result
        <3> HIDE DEF open, d
        <3> QED BY <3>1, <2>2, <2>3, <1>1, ExecuteDecisionSound
    <2>4. CASE d.moving # "DoorOpen"
        <3>1. FsmTableUpdate(e, R).elev = CloseDoorAndGo(e, d)
            BY <1>2, <2>4 DEF FsmTableUpdate, IdleTableUpdate, Result
        <3> HIDE DEF d
        <3> QED BY <3>1, <1>1, CloseDoorAndGoSound
    <2> QED BY <2>3, <2>4
<1>3. CASE e.moving # "Idle"
    <2>1. FsmTableUpdate(e, R).elev \in {e, StartDoorTimer(e)}
        BY <1>3 DEF FsmTableUpdate, Result, Sound, Elevator
    <2>2. Sound(StartDoorTimer(e))
        BY DEF Sound, Elevator, TimerState, StartDoorTimer
    <2> QED BY <2>1, <2>2
<1> QED BY <1>2, <1>3

LEMMA FsmDoorTimeoutSound ==
    ASSUME NEW e, Sound(e), NEW R
    PROVE  Sound(FsmDoorTimeout(e, R).elev)
<1> DEFINE stopped == [e EXCEPT !.doorTimer = "off"]
           d       == ChooseDirection(R, e.inertia, e.floor)
           go      == ExecuteDecision(stopped, d)
<1>1. d \in Decisions
    BY ChooseDirectionDecides
<1>2. Sound(stopped)
    BY DEF Sound, Elevator, TimerState
<1>3. Sound(StartDoorTimer(e))
    BY DEF Sound, Elevator, TimerState, StartDoorTimer
<1>4. FsmDoorTimeout(e, R).elev =
        IF e.obstructed THEN StartDoorTimer(e)
        ELSE IF e.moving # "DoorOpen" THEN stopped
        ELSE IF d.moving = "DoorOpen" THEN StartDoorTimer(go)
        ELSE CloseDoorAndGo(stopped, d)
    BY DEF FsmDoorTimeout, Result, Sound, Elevator
<1>5. ASSUME d.moving = "DoorOpen" PROVE Sound(StartDoorTimer(go))
    <2>1. Sound(go)
        <3> HIDE DEF stopped, d
        <3> QED BY <1>1, <1>2, <1>5, ExecuteDecisionSound
    <2> HIDE DEF go
    <2> QED BY <2>1 DEF Sound, Elevator, TimerState, StartDoorTimer
<1>6. Sound(CloseDoorAndGo(stopped, d))
    <2> HIDE DEF stopped, d
    <2> QED BY <1>1, <1>2, CloseDoorAndGoSound
<1> HIDE DEF stopped, go
<1> QED BY <1>2, <1>3, <1>4, <1>5, <1>6

LEMMA FsmFloorTimeoutSound ==
    ASSUME NEW e, Sound(e)
    PROVE  Sound(FsmFloorTimeout(e).elev)
BY DEF Sound, Elevator, TimerState, FsmFloorTimeout, Result

-----------------------------------------------------------------------------
(* What a handler other than those of the stop button and of the arrival   *)
(* does to the elevator e with the orders R.                               *)
Steers(e, R, r) ==
    /\ r.elev.floor = e.floor
    /\ r.elev.stopped = e.stopped
    /\ e.moving = "Moving" => /\ r.elev.moving = "Moving"
                              /\ r.elev.motor = e.motor
                              /\ r.elev.inertia = e.inertia
    /\ r.elev.moving = "DoorOpen" <=> r.elev.door
    /\ r.elev.motor # "Stop" => r.elev.inertia = r.elev.motor
    /\ e.moving # "Moving" /\ r.elev.motor = "Up"   => RequestAbove(R, e.floor)
    /\ e.moving # "Moving" /\ r.elev.motor = "Down" => RequestBelow(R, e.floor)
    /\ r.clear # {} => r.elev.door

(* An elevator that such a handler may find. *)
Ready(e) ==
    /\ Sound(e)
    /\ ~e.stopped
    /\ e.moving = "DoorOpen" <=> e.door
    /\ e.motor # "Stop" => e.inertia = e.motor

LEMMA ChooseDirectionHasReason ==
    ASSUME NEW R, NEW i, NEW f
    PROVE  /\ ChooseDirection(R, i, f).motor = "Up"   => RequestAbove(R, f)
           /\ ChooseDirection(R, i, f).motor = "Down" => RequestBelow(R, f)
BY DEF ChooseDirection, GoUp, GoDown, Open, Rest

LEMMA DecisionParts ==
    ASSUME NEW d \in Decisions
    PROVE  /\ d.motor \in {"Up", "Stop", "Down"}
           /\ d.moving \in {"Idle", "DoorOpen", "Moving"}
           /\ d.moving = "Moving" <=> d.motor # "Stop"
BY DEF Decisions, GoUp, GoDown, Open, Rest

LEMMA ExecuteDecisionParts ==
    ASSUME NEW e, Sound(e), ~e.stopped, NEW d \in Decisions
    PROVE  LET g == ExecuteDecision(e, d)
           IN  /\ g.floor = e.floor /\ g.stopped = e.stopped /\ g.door = e.door
               /\ g.motor = d.motor /\ g.moving = d.moving
               /\ g.motor # "Stop" => g.inertia = g.motor
<1> DEFINE g == [e EXCEPT !.motor      = d.motor,
                          !.moving     = d.moving,
                          !.floorTimer = IF d.moving = "Moving" THEN "on" ELSE "off",
                          !.inertia    = IF d.motor = "Stop" THEN e.inertia ELSE d.motor]
<1>1. ExecuteDecision(e, d) = g
    BY DEF ExecuteDecision, SetMotorDir, Sound, Elevator
<1>2. /\ g.floor = e.floor /\ g.stopped = e.stopped /\ g.door = e.door
      /\ g.motor = d.motor /\ g.moving = d.moving
      /\ g.motor # "Stop" => g.inertia = g.motor
    BY DEF Sound, Elevator
<1> HIDE DEF g
<1> QED BY <1>1, <1>2

(* A decision taken at a standstill, with the door as the decision wants it. *)
LEMMA DecisionSteers ==
    ASSUME NEW e, Ready(e), e.moving # "Moving",
           NEW x, Sound(x), x.floor = e.floor, x.stopped = e.stopped,
           NEW R, NEW d, d = ChooseDirection(R, e.inertia, e.floor),
           x.door <=> d.moving = "DoorOpen",
           NEW clear, clear # {} => x.door
    PROVE  Steers(e, R, Result(ExecuteDecision(x, d), clear))
<1>1. d \in Decisions
    BY ChooseDirectionDecides
<1>2. /\ d.motor = "Up"   => RequestAbove(R, e.floor)
      /\ d.motor = "Down" => RequestBelow(R, e.floor)
    BY ChooseDirectionHasReason
<1> DEFINE g == ExecuteDecision(x, d)
<1>3. /\ g.floor = x.floor /\ g.stopped = x.stopped /\ g.door = x.door
      /\ g.motor = d.motor /\ g.moving = d.moving
      /\ g.motor # "Stop" => g.inertia = g.motor
    BY <1>1, ExecuteDecisionParts DEF Ready
<1> HIDE DEF g
<1>4. Steers(e, R, [elev |-> g, clear |-> clear])
    BY <1>2, <1>3 DEF Steers
<1> QED BY <1>4 DEF Result, g

LEMMA UnchangedSteers ==
    ASSUME NEW e, Ready(e), NEW R,
           NEW x, x \in {e, StartDoorTimer(e), [e EXCEPT !.doorTimer = "off"]},
           NEW clear, clear # {} => e.door
    PROVE  Steers(e, R, Result(x, clear))
<1>1. /\ x.floor = e.floor /\ x.stopped = e.stopped /\ x.door = e.door
      /\ x.motor = e.motor /\ x.moving = e.moving /\ x.inertia = e.inertia
    BY DEF Ready, Sound, Elevator, StartDoorTimer
<1> QED BY <1>1 DEF Steers, Result, Ready, Sound

LEMMA CloseDoorAndGoSteers ==
    ASSUME NEW e, Ready(e), e.moving # "Moving", ~e.obstructed,
           NEW x, x \in {e, [e EXCEPT !.doorTimer = "off"]},
           NEW R, NEW d, d = ChooseDirection(R, e.inertia, e.floor), d.moving # "DoorOpen"
    PROVE  Steers(e, R, Result(CloseDoorAndGo(x, d), {}))
<1>1. Sound(CloseDoor(x)) /\ CloseDoor(x).floor = e.floor /\ CloseDoor(x).stopped = e.stopped
      /\ ~CloseDoor(x).door
    <2>1. Sound(x) /\ x.floor = e.floor /\ x.stopped = e.stopped
        BY DEF Ready, Sound, Elevator, TimerState
    <2> QED BY <2>1 DEF Sound, Elevator, CloseDoor
<1>2. CloseDoorAndGo(x, d) = ExecuteDecision(CloseDoor(x), d)
    BY DEF CloseDoorAndGo, Ready, Sound, Elevator
<1> QED BY <1>1, <1>2, DecisionSteers

LEMMA FsmTableUpdateSteers ==
    ASSUME NEW e, Ready(e), NEW R
    PROVE  Steers(e, R, FsmTableUpdate(e, R))
<1> DEFINE d == ChooseDirection(R, e.inertia, e.floor)
<1>1. CASE e.moving = "Idle"
    <2>1. CASE d.moving = "DoorOpen"
        <3> DEFINE x == StartDoorTimer(IF e.floor # kBetweenFloors THEN OpenDoor(e) ELSE e)
                   c == ClearCurrentFloor(R, ExecuteDecision(x, d).inertia, e.floor)
        <3>1. e.floor # kBetweenFloors
            BY FloorsAssumption DEF Ready, Sound, Elevator, Floor, kBetweenFloors
        <3>2. Sound(x) /\ x.floor = e.floor /\ x.stopped = e.stopped /\ x.door
            BY <1>1, <3>1 DEF Ready, Sound, Elevator, TimerState, StartDoorTimer, OpenDoor
        <3>3. FsmTableUpdate(e, R) = Result(ExecuteDecision(x, d), c)
            BY <1>1, <2>1 DEF FsmTableUpdate, IdleTableUpdate
        <3> HIDE DEF x, c
        <3> QED BY <1>1, <2>1, <3>2, <3>3, DecisionSteers
    <2>2. CASE d.moving # "DoorOpen"
        <3>1. FsmTableUpdate(e, R) = Result(CloseDoorAndGo(e, d), {})
            BY <1>1, <2>2 DEF FsmTableUpdate, IdleTableUpdate
        <3>2. CASE e.obstructed
            <4>1. LET x == CloseDoorAndGo(e, d)
                  IN  /\ x.floor = e.floor /\ x.stopped = e.stopped /\ x.door = e.door
                      /\ x.motor = e.motor /\ x.moving = e.moving /\ x.inertia = e.inertia
                BY <3>2 DEF CloseDoorAndGo, Ready, Sound, Elevator
            <4> HIDE DEF d
            <4> QED BY <1>1, <3>1, <4>1 DEF Steers, Result, Ready, Sound
        <3>3. CASE ~e.obstructed
            BY <1>1, <2>2, <3>1, <3>3, CloseDoorAndGoSteers
        <3> QED BY <3>2, <3>3
    <2> QED BY <2>1, <2>2
<1>2. CASE e.moving = "Moving"
    <2>1. FsmTableUpdate(e, R) = Result(e, {})
        BY <1>2 DEF FsmTableUpdate
    <2> QED BY <2>1, UnchangedSteers
<1>3. CASE e.moving = "DoorOpen"
    <2>1. FsmTableUpdate(e, R) \in {Result(e, {}), Result(StartDoorTimer(e),
                                        ClearCurrentFloor(R, e.inertia, e.floor))}
        BY <1>3 DEF FsmTableUpdate
    <2> QED BY <1>3, <2>1, UnchangedSteers DEF Ready
<1> QED BY <1>1, <1>2, <1>3 DEF Ready, Sound, Elevator

LEMMA FsmDoorTimeoutSteers ==
    ASSUME NEW e, Ready(e), NEW R
    PROVE  Steers(e, R, FsmDoorTimeout(e, R))
<1> DEFINE stopped == [e EXCEPT !.doorTimer = "off"]
           d       == ChooseDirection(R, e.inertia, e.floor)
<1>1. CASE e.obstructed
    <2>1. FsmDoorTimeout(e, R) = Result(StartDoorTimer(e), {})
        BY <1>1 DEF FsmDoorTimeout
    <2> QED BY <2>1, UnchangedSteers
<1>2. CASE ~e.obstructed /\ e.moving # "DoorOpen"
    <2>1. FsmDoorTimeout(e, R) = Result(stopped, {})
        BY <1>2 DEF FsmDoorTimeout
    <2> QED BY <2>1, UnchangedSteers
<1>3. CASE ~e.obstructed /\ e.moving = "DoorOpen" /\ d.moving = "DoorOpen"
    <2> DEFINE g == ExecuteDecision(stopped, d)
               c == ClearCurrentFloor(R, StartDoorTimer(g).inertia, e.floor)
    <2>1. FsmDoorTimeout(e, R) = Result(StartDoorTimer(g), c)
        BY <1>3 DEF FsmDoorTimeout
    <2>2. Sound(stopped) /\ stopped.floor = e.floor /\ stopped.stopped = e.stopped /\ stopped.door
        BY <1>3 DEF Ready, Sound, Elevator, TimerState
    <2>3. d \in Decisions
        BY ChooseDirectionDecides
    <2>4. Sound(g)
        <3> HIDE DEF stopped, d
        <3> QED BY <1>3, <2>2, <2>3, ExecuteDecisionSound
    <2>5. Steers(e, R, Result(g, c))
        <3> HIDE DEF stopped, c
        <3> QED BY <1>3, <2>2, DecisionSteers
    <2> HIDE DEF g, c
    <2>6. LET x == StartDoorTimer(g)
          IN  /\ x.floor = g.floor /\ x.stopped = g.stopped /\ x.door = g.door
              /\ x.motor = g.motor /\ x.moving = g.moving /\ x.inertia = g.inertia
        BY <2>4 DEF Sound, Elevator, StartDoorTimer
    <2> HIDE DEF d
    <2> QED BY <2>1, <2>5, <2>6 DEF Steers, Result
<1>4. CASE ~e.obstructed /\ e.moving = "DoorOpen" /\ d.moving # "DoorOpen"
    <2>1. FsmDoorTimeout(e, R) = Result(CloseDoorAndGo(stopped, d), {})
        BY <1>4 DEF FsmDoorTimeout
    <2> HIDE DEF d
    <2> QED BY <1>4, <2>1, CloseDoorAndGoSteers DEF d
<1> QED BY <1>1, <1>2, <1>3, <1>4

LEMMA FsmFloorTimeoutSteers ==
    ASSUME NEW e, Ready(e), NEW R
    PROVE  Steers(e, R, FsmFloorTimeout(e))
<1> DEFINE x == [e EXCEPT !.floorTimer = "off", !.fault = @ \/ e.moving = "Moving"]
<1>1. /\ x.floor = e.floor /\ x.stopped = e.stopped /\ x.door = e.door
      /\ x.motor = e.motor /\ x.moving = e.moving /\ x.inertia = e.inertia
    BY DEF Ready, Sound, Elevator
<1>2. FsmFloorTimeout(e) = Result(x, {})
    BY DEF FsmFloorTimeout
<1> HIDE DEF x
<1> QED BY <1>1, <1>2 DEF Steers, Result, Ready, Sound

LEMMA ArrivalParts ==
    ASSUME NEW e, Ready(e), NEW R
    PROVE  LET r == FsmFloorArrival(e, R)
           IN  /\ r.elev.floor = e.floor
               /\ r.elev.stopped = e.stopped
               /\ r.elev.moving = "DoorOpen" <=> r.elev.door
               /\ r.elev.motor \in {e.motor, "Stop"}
               /\ r.elev.inertia = e.inertia
               /\ r.clear # {} => r.elev.door
<1> DEFINE safe    == IF e.floor = 0 \/ e.floor = kFloors THEN SetMotorDir(e, "Stop") ELSE e
           arrived == [safe EXCEPT !.fault = FALSE, !.floorTimer = "on"]
           opened  == StopAndOpenDoor(arrived)
           r       == FsmFloorArrival(e, R)
<1>1. /\ safe \in Elevator
      /\ safe.floor = e.floor /\ safe.stopped = e.stopped /\ safe.door = e.door
      /\ safe.moving = e.moving /\ safe.motor \in {e.motor, "Stop"} /\ safe.inertia = e.inertia
    BY DEF Ready, Sound, Elevator, SetMotorDir
<1>2. /\ arrived \in Elevator
      /\ arrived.floor = e.floor /\ arrived.stopped = e.stopped /\ arrived.door = e.door
      /\ arrived.moving = e.moving /\ arrived.motor \in {e.motor, "Stop"}
      /\ arrived.inertia = e.inertia
    <2> HIDE DEF safe
    <2> QED BY <1>1 DEF Elevator, TimerState
<1>3. /\ opened.floor = e.floor /\ opened.stopped = e.stopped /\ opened.door
      /\ opened.moving = "DoorOpen" /\ opened.motor = "Stop" /\ opened.inertia = e.inertia
    <2> HIDE DEF arrived
    <2> QED BY <1>2 DEF Elevator, StopAndOpenDoor, StartDoorTimer, OpenDoor, SetMotorDir
<1>4. \/ r.elev = opened
      \/ r.elev = arrived /\ r.clear = {}
    BY DEF FsmFloorArrival, Result
<1>5. e.moving = "DoorOpen" <=> e.door
    BY DEF Ready
<1> HIDE DEF arrived, opened, r
<1>6. /\ r.elev.floor = e.floor
      /\ r.elev.stopped = e.stopped
      /\ r.elev.moving = "DoorOpen" <=> r.elev.door
      /\ r.elev.motor \in {e.motor, "Stop"}
      /\ r.elev.inertia = e.inertia
      /\ r.clear # {} => r.elev.door
    BY <1>2, <1>3, <1>4, <1>5
<1> QED BY <1>6 DEF r

-----------------------------------------------------------------------------
(* An elevator whose floor timer has not run out, nor was it ever: none of *)
(* the handlers that it then meets puts it at fault.                       *)
Timely(e) == ~e.fault /\ e.floorTimer # "due"

LEMMA ExecuteDecisionTimely ==
    ASSUME NEW e, Sound(e), Timely(e), NEW d
    PROVE  Timely(ExecuteDecision(e, d))
BY DEF ExecuteDecision, SetMotorDir, Sound, Elevator, Timely

LEMMA CloseDoorAndGoTimely ==
    ASSUME NEW e, Sound(e), Timely(e), NEW d
    PROVE  Timely(CloseDoorAndGo(e, d))
<1>1. CASE e.obstructed
    BY <1>1 DEF CloseDoorAndGo, Sound, Elevator, Timely
<1>2. CASE ~e.obstructed
    <2>1. Sound(CloseDoor(e)) /\ Timely(CloseDoor(e))
        BY DEF CloseDoor, Sound, Elevator, Timely
    <2> QED BY <1>2, <2>1, ExecuteDecisionTimely DEF CloseDoorAndGo
<1> QED BY <1>1, <1>2

LEMMA FsmFloorArrivalTimely ==
    ASSUME NEW e, Sound(e), NEW R
    PROVE  Timely(FsmFloorArrival(e, R).elev)
<1> DEFINE safe    == IF e.floor = 0 \/ e.floor = kFloors THEN SetMotorDir(e, "Stop") ELSE e
           arrived == [safe EXCEPT !.fault = FALSE, !.floorTimer = "on"]
<1>1. safe \in Elevator
    BY DEF Sound, Elevator, SetMotorDir
<1>2. arrived \in Elevator /\ Timely(arrived)
    <2> HIDE DEF safe
    <2> QED BY <1>1 DEF Elevator, TimerState, Timely
<1>3. Timely(StopAndOpenDoor(arrived))
    <2> HIDE DEF arrived
    <2> QED BY <1>2 DEF Elevator, Timely, StopAndOpenDoor, StartDoorTimer, OpenDoor, SetMotorDir
<1>4. FsmFloorArrival(e, R).elev \in {arrived, StopAndOpenDoor(arrived)}
    BY DEF FsmFloorArrival, Result
<1> HIDE DEF arrived
<1> QED BY <1>2, <1>3, <1>4

LEMMA FsmTableUpdateTimely ==
    ASSUME NEW e, Sound(e), Timely(e), NEW R
    PROVE  Timely(FsmTableUpdate(e, R).elev)
<1> DEFINE d == ChooseDirection(R, e.inertia, e.floor)
           x == StartDoorTimer(IF e.floor # kBetweenFloors THEN OpenDoor(e) ELSE e)
<1>1. FsmTableUpdate(e, R).elev
        \in {e, StartDoorTimer(e), CloseDoorAndGo(e, d), ExecuteDecision(x, d)}
    BY DEF FsmTableUpdate, IdleTableUpdate, Result, Sound, Elevator
<1>2. Timely(StartDoorTimer(e))
    BY DEF StartDoorTimer, Sound, Elevator, Timely
<1>3. Timely(ExecuteDecision(x, d))
    <2>1. x \in Elevator /\ Timely(x)
        BY DEF StartDoorTimer, OpenDoor, Sound, Elevator, TimerState, Timely
    <2> HIDE DEF x, d
    <2> QED BY <2>1 DEF ExecuteDecision, SetMotorDir, Elevator, Timely
<1>4. Timely(CloseDoorAndGo(e, d))
    BY CloseDoorAndGoTimely
<1> HIDE DEF d, x
<1> QED BY <1>1, <1>2, <1>3, <1>4

LEMMA FsmDoorTimeoutTimely ==
    ASSUME NEW e, Sound(e), Timely(e), NEW R
    PROVE  Timely(FsmDoorTimeout(e, R).elev)
<1> DEFINE stopped == [e EXCEPT !.doorTimer = "off"]
           d       == ChooseDirection(R, e.inertia, e.floor)
           go      == ExecuteDecision(stopped, d)
<1>1. FsmDoorTimeout(e, R).elev
        \in {StartDoorTimer(e), stopped, StartDoorTimer(go), CloseDoorAndGo(stopped, d)}
    BY DEF FsmDoorTimeout, Result, Sound, Elevator
<1>2. Sound(stopped) /\ Timely(stopped) /\ Timely(StartDoorTimer(e))
    BY DEF StartDoorTimer, Sound, Elevator, TimerState, Timely
<1> HIDE DEF stopped, d
<1>3. Timely(go) /\ Timely(CloseDoorAndGo(stopped, d))
    BY <1>2, ExecuteDecisionTimely, CloseDoorAndGoTimely
<1>4. Timely(StartDoorTimer(go))
    BY <1>2 DEF ExecuteDecision, SetMotorDir, StartDoorTimer, Sound, Elevator, Timely
<1> HIDE DEF go
<1> QED BY <1>1, <1>2, <1>3, <1>4
=============================================================================

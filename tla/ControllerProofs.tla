-------------------------- MODULE ControllerProofs --------------------------
(***************************************************************************)
(* Proofs about Controller, for any number of floors and any buttons.      *)
(*                                                                         *)
(* First, type correctness, and that the motor is still while the door is  *)
(* open.  The second is not inductive: it rests on the moving state, which *)
(* the handlers keep in step with both the motor and the door (Sound).     *)
(* FsmProofs shows that each handler preserves Sound; the actions follow.  *)
(*                                                                         *)
(* Second, what holds as long as the stop button is not used: the          *)
(* controller knows where the cabin is (Known), and therefore opens the    *)
(* door at floors only, stops at the ends of the shaft, and clears only    *)
(* orders it serves.                                                       *)
(***************************************************************************)
EXTENDS Controller, FsmProofs

IInv == TypeOK /\ Sound(elev)

LEMMA FloorSensorRange ==
    ASSUME TypeOK
    PROVE  FloorSensor \in Floor \cup {kBetweenFloors}
<1>1. kFloors \in Nat
    BY FloorsAssumption
<1>2. position \in Int /\ 0 <= position /\ position <= 2 * (kFloors - 1)
    BY <1>1 DEF TypeOK, Position, Top
<1>3. CASE position % 2 = 0
    <2>1. position \div 2 \in 0 .. kFloors - 1
        BY <1>1, <1>2
    <2> QED BY <2>1, <1>3 DEF FloorSensor, Floor
<1>4. CASE position % 2 # 0
    BY <1>4 DEF FloorSensor
<1> QED BY <1>3, <1>4

-----------------------------------------------------------------------------
(* The actions. *)

LEMMA InitSound == Init => IInv
<1> SUFFICES ASSUME Init PROVE IInv
    OBVIOUS
<1>1. kFloors \in Nat /\ kFloors > 1
    BY FloorsAssumption
<1>2. position \in Position /\ position % 2 = 0
    BY DEF Init
<1>3. FloorSensor \in Floor
    BY <1>1, <1>2 DEF FloorSensor, Floor, Position, Top
<1>4. Sound(elev)
    BY <1>3 DEF Init, Sound, Elevator, TimerState
<1> QED BY <1>2, <1>3, <1>4, EnvAssumption DEF Init, IInv, TypeOK, Sound

LEMMA SpendBudget ==
    ASSUME TypeOK, NEW what \in {"call", "withdraw", "obstruct", "stop"}, Spend(what)
    PROVE  budget' \in [call : Nat, withdraw : Nat, obstruct : Nat, stop : Nat]
BY DEF TypeOK, Spend

LEMMA DispatchSound ==
    ASSUME IInv, Dispatch
    PROVE  IInv'
<1> USE DEF IInv
<1>1. elev.floor \in Floor
    BY DEF Sound, Elevator
<1>2. /\ prevFloor' \in Floor
      /\ prevRequests' \in SUBSET Buttons
    BY <1>1 DEF TypeOK, Dispatch, EmergencyStop, EmergencyStopReset, FloorArrival, TableUpdate,
                DoorTimeout, FloorTimeout, NoEvent, NoUpdate, NoArrival, NoStop
<1>3. Sound(elev') /\ orders' \subseteq Buttons /\ requests' \subseteq Buttons
    <2>1. ASSUME NEW r, Sound(r.elev), Apply(r)
          PROVE  Sound(elev') /\ orders' \subseteq Buttons /\ requests' \subseteq Buttons
        BY <2>1 DEF Apply, TypeOK
    <2>2. CASE EmergencyStop
        BY <2>1, <2>2, FsmEmergencyStopSound DEF EmergencyStop
    <2>3. CASE EmergencyStopReset
        BY <2>1, <2>3, FsmEmergencyStopResetSound DEF EmergencyStopReset
    <2>4. CASE FloorArrival
        BY <2>1, <2>4, FsmFloorArrivalSound DEF FloorArrival
    <2>5. CASE TableUpdate
        BY <2>1, <2>5, FsmTableUpdateSound DEF TableUpdate
    <2>6. CASE DoorTimeout
        BY <2>1, <2>6, FsmDoorTimeoutSound DEF DoorTimeout
    <2>7. CASE FloorTimeout
        BY <2>1, <2>7, FsmFloorTimeoutSound DEF FloorTimeout
    <2>8. CASE NoEvent
        BY <2>8 DEF NoEvent, TypeOK
    <2> QED BY <2>2, <2>3, <2>4, <2>5, <2>6, <2>7, <2>8 DEF Dispatch
<1>4. StepDone
    BY DEF Dispatch, EmergencyStop, EmergencyStopReset, FloorArrival, TableUpdate,
           DoorTimeout, FloorTimeout, NoEvent
<1> QED BY <1>2, <1>3, <1>4 DEF TypeOK, StepDone, Sound

LEMMA NextSound == IInv /\ [Next]_vars => IInv'
<1> SUFFICES ASSUME IInv, [Next]_vars PROVE IInv'
    OBVIOUS
<1> USE DEF IInv
<1>1. CASE Sample
    <2>1. Sound(elev')
        BY <1>1, FloorSensorRange DEF Sample, SetFloor, Sound, Elevator, TypeOK
    <2>2. budget' \in [call : Nat, withdraw : Nat, obstruct : Nat, stop : Nat]
        BY <1>1, SpendBudget DEF Sample, TypeOK
    <2> QED BY <1>1, <2>1, <2>2 DEF Sample, TypeOK, Sound
<1>2. CASE Dispatch
    BY <1>2, DispatchSound
<1>3. CASE Move
    <2>1. position' \in Position
        BY <1>3, FloorsAssumption DEF Move, TypeOK, Position, Top
    <2> QED BY <1>3, <2>1 DEF Move, ctrl, TypeOK, Sound
<1>4. CASE Assign
    BY <1>4, SpendBudget DEF Assign, cabin, ctrl, TypeOK, Sound
<1>5. CASE Withdraw
    BY <1>5, SpendBudget DEF Withdraw, cabin, ctrl, TypeOK, Sound
<1>6. CASE Obstruct
    BY <1>6, SpendBudget DEF Obstruct, cabin, ctrl, TypeOK, Sound
<1>7. CASE Unobstruct
    BY <1>7 DEF Unobstruct, cabin, ctrl, TypeOK, Sound
<1>8. CASE DoorTimerExpires
    <2>1. Sound(elev')
        BY <1>8 DEF DoorTimerExpires, Sound, Elevator, TimerState
    <2> QED BY <1>8, <2>1 DEF DoorTimerExpires, cabin, TypeOK, Sound
<1>9. CASE FloorTimerExpires
    <2>1. Sound(elev')
        BY <1>9 DEF FloorTimerExpires, Sound, Elevator, TimerState
    <2> QED BY <1>9, <2>1 DEF FloorTimerExpires, cabin, TypeOK, Sound
<1>10. CASE UNCHANGED vars
    BY <1>10 DEF vars, cabin, ctrl, TypeOK, Sound
<1> QED BY <1>1, <1>2, <1>3, <1>4, <1>5, <1>6, <1>7, <1>8, <1>9, <1>10 DEF Next

-----------------------------------------------------------------------------
(* Every variable of an elevator keeps its type: the floor in particular   *)
(* is always one of the building, although the sensor reads -1 in between. *)
THEOREM TypeCorrect == Spec => []TypeOK
<1>1. IInv => TypeOK
    BY DEF IInv
<1> QED BY InitSound, NextSound, <1>1, PTL DEF Spec

(* The motor never runs while the door is open, in any building, whatever  *)
(* orders come and go, with stops, resets, timeouts and obstructions at    *)
(* any time.                                                               *)
THEOREM NeverDrivesWithDoorOpen == Spec => []DoorOpenMeansStill
<1>1. IInv => DoorOpenMeansStill
    BY DEF IInv, Sound, DoorOpenMeansStill
<1> QED BY InitSound, NextSound, <1>1, PTL DEF Spec

-----------------------------------------------------------------------------
(***************************************************************************)
(* As long as the stop button has not been used, the controller knows      *)
(* where the cabin is.  The positions it is told lag behind, so this is    *)
(* about the cabin, what the control thread has sampled, and the motor:    *)
(* when the cabin reaches a floor, the step that samples the floor handles *)
(* the arrival, before the cabin leaves the floor again.                   *)
(***************************************************************************)
AtFloor == position = 2 * elev.floor

Known ==
    /\ elev.moving # "Moving" => AtFloor
    /\ elev.moving = "DoorOpen" <=> elev.door
    /\ elev.motor # "Stop" => elev.inertia = elev.motor
    /\ elev.floor # prevFloor => pc = "dispatch" /\ seen = "sampled" /\ AtFloor
    /\ seen # "new" /\ position % 2 = 0 => AtFloor
    /\ elev.motor = "Up"   => 2 * elev.floor <= position
    /\ elev.motor = "Down" => 2 * elev.floor >= position
    /\ seen = "new" /\ elev.moving = "Moving" => ~AtFloor
    /\ seen = "new" /\ elev.moving # "Moving" => pc = "sample"
    /\ seen = "sampled" => pc = "dispatch"
    /\ elev.motor # "Stop" /\ AtFloor /\ seen = "sampled" => elev.floor # prevFloor
    /\ elev.motor = "Down" /\ seen = "handled" => position # 0
    /\ elev.motor = "Up" /\ seen = "handled" => position # 2 * Top

Tracked ==
    /\ budget.stop <= MaxStop
    /\ StopUnused => ~stopPressed /\ ~elev.stopped /\ Known

-----------------------------------------------------------------------------
(* The invariant under the actions. *)

Inv == IInv /\ Tracked

LEMMA BudgetStop ==
    ASSUME Inv
    PROVE  budget.stop \in Nat /\ MaxStop \in Nat /\ budget.stop <= MaxStop
BY EnvAssumption DEF Inv, IInv, TypeOK, Tracked

LEMMA PositionFacts ==
    ASSUME Inv
    PROVE  /\ position \in Int /\ 0 <= position /\ position <= 2 * Top
           /\ elev.floor \in Int /\ 0 <= elev.floor /\ elev.floor <= Top
           /\ kFloors \in Int /\ Top \in Int /\ Top >= 1 /\ Top = kFloors - 1
           /\ (2 * Top) % 2 = 0
<1>1. kFloors \in Nat /\ kFloors > 1
    BY FloorsAssumption
<1>2. position \in 0 .. 2 * (kFloors - 1)
    BY DEF Inv, IInv, TypeOK, Position, Top
<1>3. elev.floor \in 0 .. kFloors - 1
    BY DEF Inv, IInv, Sound, Elevator, Floor
<1>4. (2 * (kFloors - 1)) % 2 = 0
    BY <1>1
<1> QED BY <1>1, <1>2, <1>3, <1>4 DEF Top

LEMMA RequestFloors ==
    ASSUME Inv, NEW f
    PROVE  /\ RequestAbove(requests, f) => \E g \in Floor : g > f
           /\ RequestBelow(requests, f) => \E g \in Floor : g < f
<1>1. \A r \in requests : r[1] \in Floor
    BY ButtonsAssumption DEF Inv, IInv, TypeOK
<1> QED BY <1>1 DEF RequestAbove, RequestBelow

(* A cabin under way stops at the last floor, at the bottom because of the *)
(* floor itself, at the top because no request can be above.               *)
LEMMA ArrivalAtEnd ==
    ASSUME Inv, Known, elev.moving = "Moving" \/ elev.motor # "Stop"
    PROVE  /\ elev.floor = 0   => FsmFloorArrival(elev, requests).elev.motor # "Down"
           /\ elev.floor = Top => FsmFloorArrival(elev, requests).elev.motor # "Up"
<1> DEFINE safe    == IF elev.floor = 0 \/ elev.floor = kFloors
                      THEN SetMotorDir(elev, "Stop") ELSE elev
           arrived == [safe EXCEPT !.fault = FALSE, !.floorTimer = "on"]
<1>1. safe \in Elevator /\ arrived \in Elevator /\ arrived.motor = safe.motor
    BY DEF Inv, IInv, Sound, Elevator, SetMotorDir, TimerState
<1>2. elev.floor = 0 => safe.motor = "Stop"
    BY DEF Inv, IInv, Sound, Elevator, SetMotorDir
<1>3. safe.motor \in {elev.motor, "Stop"}
    BY DEF Inv, IInv, Sound, Elevator, SetMotorDir
<1>4. elev.floor = Top /\ elev.motor = "Up"
        => elev.moving = "Moving" /\ ShouldStop(requests, elev.inertia, elev.floor)
    <2> SUFFICES ASSUME elev.floor = Top, elev.motor = "Up"
                 PROVE  elev.moving = "Moving" /\ ShouldStop(requests, elev.inertia, elev.floor)
        OBVIOUS
    <2>1. elev.moving = "Moving" /\ elev.inertia = "Up"
        BY DEF Inv, IInv, Sound, Known
    <2>2. ~ \E g \in Floor : g > elev.floor
        BY PositionFacts DEF Floor
    <2>3. ~RequestAbove(requests, elev.floor)
        BY <2>2, RequestFloors
    <2> QED BY <2>1, <2>3 DEF ShouldStop
<1>5. StopAndOpenDoor(arrived).motor = "Stop"
    <2> HIDE DEF arrived
    <2> QED BY <1>1 DEF Elevator, StopAndOpenDoor, StartDoorTimer, OpenDoor, SetMotorDir
<1>6. FsmFloorArrival(elev, requests).elev =
        IF elev.moving = "Moving" /\ ShouldStop(requests, elev.inertia, elev.floor)
        THEN StopAndOpenDoor(arrived) ELSE arrived
    BY DEF FsmFloorArrival, Result
<1> HIDE DEF safe, arrived
<1> QED BY <1>1, <1>2, <1>3, <1>4, <1>5, <1>6

LEMMA InitTracked == Init => Inv
<1> SUFFICES ASSUME Init PROVE Inv
    OBVIOUS
<1>1. IInv
    BY InitSound
<1>2. budget.stop = MaxStop /\ MaxStop \in Nat
    BY EnvAssumption DEF Init
<1>3. AtFloor
    <2>1. position \in Int /\ position % 2 = 0
        BY FloorsAssumption DEF Init, Position, Top
    <2>2. elev.floor = position \div 2
        BY DEF Init, FloorSensor
    <2> QED BY <2>1, <2>2 DEF AtFloor
<1>4. Known
    BY <1>3 DEF Init, Known
<1> QED BY <1>1, <1>2, <1>4 DEF Inv, Tracked, Init

LEMMA SampleTracks ==
    ASSUME Inv, Sample, StopUnused'
    PROVE  StopUnused /\ ~stopPressed' /\ ~elev'.stopped /\ Known'
<1>1. StopUnused /\ ~stopPressed'
    BY BudgetStop DEF Sample, StopUnused, Spend, Inv, IInv, TypeOK
<1>2. ~elev.stopped /\ Known
    BY <1>1 DEF Inv, Tracked
<1>3. elev' = [SetFloor(elev, FloorSensor) EXCEPT !.obstructed = switch]
    BY DEF Sample
<1>4. /\ elev'.moving = elev.moving /\ elev'.motor = elev.motor /\ elev'.door = elev.door
      /\ elev'.inertia = elev.inertia /\ elev'.stopped = elev.stopped
      /\ elev'.floor = IF FloorSensor = kBetweenFloors THEN elev.floor ELSE FloorSensor
    BY <1>3 DEF SetFloor, Inv, IInv, Sound, Elevator
<1>5. CASE position % 2 = 0
    <2>1. 2 * FloorSensor = position /\ FloorSensor \in Int /\ FloorSensor >= 0
        BY <1>5, PositionFacts DEF FloorSensor
    <2>2. elev'.floor = FloorSensor
        BY <1>4, <2>1 DEF kBetweenFloors
    <2>3. AtFloor'
        BY <2>1, <2>2 DEF AtFloor, Sample
    <2>4. AtFloor <=> elev.floor = FloorSensor
        BY <2>1, PositionFacts DEF AtFloor
    <2>5. pc = "sample" /\ pc' = "dispatch" /\ prevFloor' = prevFloor /\ position' = position
          /\ seen' = IF seen = "new" THEN "sampled" ELSE seen
        BY DEF Sample
    <2>6. elev.floor = prevFloor /\ seen # "sampled"
        BY <1>2, <2>5 DEF Known
    <2>7. seen \in {"new", "handled"}
        BY <2>6 DEF Inv, IInv, TypeOK
    <2>8. Known'
        <3>1. CASE seen = "new"
            <4>1. elev.motor # "Stop" => elev'.floor # prevFloor
                BY <3>1, <1>2, <2>2, <2>4, <2>6 DEF Known, Inv, IInv, Sound
            <4>2. 2 * elev'.floor = position'
                BY <2>3 DEF AtFloor
            <4> QED BY <3>1, <4>1, <4>2, <1>2, <1>4, <2>3, <2>5, <2>6, PositionFacts DEF Known
        <3>2. CASE seen = "handled"
            <4>1. AtFloor
                BY <3>2, <1>2, <1>5 DEF Known
            <4>2. elev'.floor = elev.floor
                BY <4>1, <2>2, <2>4
            <4> QED BY <3>2, <4>1, <4>2, <1>2, <1>4, <2>3, <2>5, <2>6 DEF Known, Top
        <3> QED BY <2>7, <3>1, <3>2
    <2> QED BY <1>1, <1>2, <1>4, <2>8
<1>6. CASE position % 2 # 0
    <2>1. elev'.floor = elev.floor
        BY <1>4, <1>6 DEF FloorSensor
    <2>2. ~AtFloor
        BY <1>6, PositionFacts DEF AtFloor
    <2>3. pc = "sample" /\ pc' = "dispatch" /\ prevFloor' = prevFloor /\ position' = position
          /\ seen' = IF seen = "new" THEN "sampled" ELSE seen
        BY DEF Sample
    <2>4. ~AtFloor'
        BY <2>1, <2>2, <2>3 DEF AtFloor
    <2>5. elev.floor = prevFloor
        BY <1>2, <2>3 DEF Known
    <2>6. position # 0 /\ position # 2 * Top
        BY <1>6, PositionFacts
    <2>7. Known'
        BY <1>2, <1>4, <1>6, <2>1, <2>2, <2>3, <2>4, <2>5, <2>6 DEF Known, Top
    <2> QED BY <1>1, <1>2, <1>4, <2>7
<1> QED BY <1>5, <1>6

LEMMA MoveTracks ==
    ASSUME Inv, Move, StopUnused, Known
    PROVE  Known'
<1>1. elev.motor \in {"Up", "Down"}
    BY DEF Move
<1>2. elev.moving = "Moving" /\ ~elev.door
    BY <1>1 DEF Inv, IInv, Sound
<1>3. elev.floor = prevFloor /\ seen = "handled" /\ seen' = "new"
    BY DEF Move, Known
<1>4. UNCHANGED ctrl
    BY DEF Move
<1>5. /\ elev.motor = "Up"   => 2 * elev.floor < position'
      /\ elev.motor = "Down" => 2 * elev.floor > position'
    BY PositionFacts DEF Move, Known
<1>6. ~AtFloor'
    BY <1>1, <1>4, <1>5, PositionFacts DEF AtFloor, ctrl
<1>7. position' \in Int
    BY PositionFacts DEF Move
<1> QED BY <1>1, <1>2, <1>3, <1>4, <1>5, <1>6, <1>7, PositionFacts DEF Known, ctrl

LEMMA ArrivalTracks ==
    ASSUME Inv, FloorArrival, StopUnused
    PROVE  ~elev'.stopped /\ Known'
<1> DEFINE r == FsmFloorArrival(elev, requests)
<1>1. ~elev.stopped /\ Known /\ Ready(elev)
    BY DEF Inv, IInv, Tracked, Known, Ready
<1>2. pc = "dispatch" /\ seen = "sampled" /\ AtFloor
    BY <1>1 DEF FloorArrival, HitNewFloor, Known
<1>3. elev' = r.elev /\ prevFloor' = elev.floor /\ pc' = "sample" /\ seen' = "handled"
      /\ position' = position
    BY <1>2 DEF FloorArrival, NoStop, Apply, StepDone
<1>4. /\ r.elev.floor = elev.floor
      /\ r.elev.stopped = elev.stopped
      /\ r.elev.moving = "DoorOpen" <=> r.elev.door
      /\ r.elev.motor \in {elev.motor, "Stop"}
      /\ r.elev.inertia = elev.inertia
    BY <1>1, ArrivalParts
<1>5. AtFloor'
    BY <1>2, <1>3, <1>4 DEF AtFloor
<1>6. elev'.motor # "Stop" =>
        /\ elev.floor = 0   => elev'.motor # "Down"
        /\ elev.floor = Top => elev'.motor # "Up"
    BY <1>1, <1>3, <1>4, ArrivalAtEnd
<1> HIDE DEF r
<1>7. 2 * elev'.floor = position' /\ elev'.floor = elev.floor
    BY <1>3, <1>4, <1>5 DEF AtFloor
<1>8. /\ elev'.motor = "Down" => position' # 0
      /\ elev'.motor = "Up" => position' # 2 * Top
    BY <1>6, <1>7, PositionFacts
<1>9. /\ elev'.motor = "Up"   => 2 * elev'.floor <= position'
      /\ elev'.motor = "Down" => 2 * elev'.floor >= position'
    BY <1>3, <1>7, PositionFacts
<1>10. elev'.motor # "Stop" => elev'.inertia = elev'.motor
    BY <1>1, <1>3, <1>4 DEF Known
<1> QED BY <1>1, <1>3, <1>4, <1>5, <1>7, <1>8, <1>9, <1>10 DEF Known, Top

LEMMA SteeringTracks ==
    ASSUME Inv, StopUnused, NoStop, ~HitNewFloor, StepDone,
           NEW r, Steers(elev, requests, r), elev' = r.elev
    PROVE  ~elev'.stopped /\ Known'
<1>1. ~elev.stopped /\ Known
    BY DEF Inv, Tracked
<1>2. /\ pc = "dispatch" /\ pc' = "sample" /\ prevFloor' = elev.floor /\ position' = position
      /\ seen' = IF seen = "sampled" THEN "handled" ELSE seen
      /\ elev.floor = prevFloor
    BY DEF NoStop, StepDone, HitNewFloor
<1>3. elev'.floor = elev.floor /\ elev'.stopped = elev.stopped
    BY DEF Steers
<1>4. AtFloor' <=> AtFloor
    BY <1>2, <1>3 DEF AtFloor
<1>5. /\ elev'.moving = "DoorOpen" <=> elev'.door
      /\ elev'.motor # "Stop" => elev'.inertia = elev'.motor
    BY DEF Steers
<1>6. CASE elev.moving = "Moving"
    <2>1. elev'.moving = "Moving" /\ elev'.motor = elev.motor
        BY <1>6 DEF Steers
    <2>2. seen = "sampled" /\ elev.motor # "Stop" => position # 0 /\ position # 2 * Top
        <3>1. seen = "sampled" /\ elev.motor # "Stop" => position % 2 # 0
            BY <1>1, <1>2 DEF Known
        <3>2. 0 % 2 = 0 /\ (2 * Top) % 2 = 0
            BY PositionFacts
        <3> QED BY <3>1, <3>2
    <2>3. /\ elev'.motor = "Down" /\ seen' = "handled" => position # 0
          /\ elev'.motor = "Up" /\ seen' = "handled" => position # 2 * Top
        BY <1>1, <1>2, <2>1, <2>2 DEF Known
    <2> QED BY <1>1, <1>2, <1>3, <1>4, <1>5, <1>6, <2>1, <2>3 DEF Known, Top
<1>7. CASE elev.moving # "Moving"
    <2>1. AtFloor /\ seen' = "handled"
        BY <1>1, <1>2, <1>7 DEF Known, Inv, IInv, TypeOK
    <2>2. elev'.motor = "Up" => elev.floor < Top
        BY <1>7, RequestFloors, PositionFacts DEF Steers, Floor
    <2>3. elev'.motor = "Down" => elev.floor > 0
        BY <1>7, RequestFloors, PositionFacts DEF Steers, Floor
    <2>4. /\ elev'.motor = "Down" => position' # 0 /\ 2 * elev'.floor >= position'
          /\ elev'.motor = "Up" => position' # 2 * Top /\ 2 * elev'.floor <= position'
        BY <1>2, <1>3, <2>1, <2>2, <2>3, PositionFacts DEF AtFloor
    <2>5. elev'.floor = prevFloor' /\ AtFloor' /\ seen' = "handled"
        BY <1>2, <1>3, <1>4, <2>1
    <2>6. Known'
        BY <1>5, <2>4, <2>5 DEF Known, Top
    <2> QED BY <1>1, <1>3, <2>6
<1> QED BY <1>1, <1>3, <1>6, <1>7

(* What an event does to the orders: those at the floor of the elevator,   *)
(* and only with the door open.                                            *)
ServedHere == \A b \in orders \ orders' : elev'.door /\ b[1] = elev'.floor

LEMMA ApplyServes ==
    ASSUME NEW r, Apply(r), r.elev.floor = elev.floor, r.clear # {} => r.elev.door
    PROVE  ServedHere
BY DEF Apply, ServedHere

LEMMA DispatchTracks ==
    ASSUME Inv, Dispatch, StopUnused
    PROVE  ~elev'.stopped /\ Known' /\ ServedHere
<1>1. ~stopPressed /\ ~elev.stopped /\ Known /\ Ready(elev)
    BY DEF Inv, IInv, Tracked, Known, Ready
<1>2. CASE FloorArrival
    <2>1. Apply(FsmFloorArrival(elev, requests))
        BY <1>2 DEF FloorArrival
    <2>2. ServedHere
        BY <1>1, <2>1, ArrivalParts, ApplyServes
    <2> QED BY <1>2, <2>2, ArrivalTracks
<1>3. ASSUME NEW r, Steers(elev, requests, r), Apply(r), NoStop, ~HitNewFloor, StepDone
      PROVE  ~elev'.stopped /\ Known' /\ ServedHere
    <2>1. elev' = r.elev
        BY <1>3 DEF Apply
    <2>2. ServedHere
        BY <1>3, ApplyServes DEF Steers
    <2> QED BY <1>3, <2>1, <2>2, SteeringTracks
<1>4. CASE TableUpdate
    BY <1>1, <1>3, <1>4, FsmTableUpdateSteers DEF TableUpdate, NoArrival
<1>5. CASE DoorTimeout
    BY <1>1, <1>3, <1>5, FsmDoorTimeoutSteers DEF DoorTimeout, NoUpdate, NoArrival
<1>6. CASE FloorTimeout
    BY <1>1, <1>3, <1>6, FsmFloorTimeoutSteers DEF FloorTimeout, NoUpdate, NoArrival
<1>7. CASE NoEvent
    <2> DEFINE r == Result(elev, {})
    <2>1. Steers(elev, requests, r) /\ elev' = r.elev
        <3>1. elev' = elev
            BY <1>7 DEF NoEvent
        <3> QED BY <1>1, <3>1, UnchangedSteers DEF Result
    <2>2. NoStop /\ ~HitNewFloor /\ StepDone /\ orders' = orders
        BY <1>7 DEF NoEvent, NoUpdate, NoArrival
    <2> HIDE DEF r
    <2> QED BY <2>1, <2>2, SteeringTracks DEF ServedHere
<1> QED BY <1>1, <1>2, <1>4, <1>5, <1>6, <1>7 DEF Dispatch, EmergencyStop, EmergencyStopReset

(* What a step may do to the orders, the stop button aside. *)
Serves ==
    \A b \in orders \ orders' :
        \/ ~StopUnused
        \/ budget'.withdraw < budget.withdraw
        \/ elev'.door /\ position = 2 * b[1]

LEMMA StopBudget ==
    ASSUME Inv, NEW what \in {"call", "withdraw", "obstruct"}, Spend(what)
    PROVE  budget'.stop = budget.stop
BY DEF Inv, IInv, TypeOK, Spend

LEMMA UnchangedTracks ==
    ASSUME Inv, UNCHANGED <<cabin, ctrl>>, budget'.stop = budget.stop
    PROVE  Tracked'
BY DEF Inv, Tracked, StopUnused, Known, AtFloor, Top, cabin, ctrl

LEMMA TimerTracks ==
    ASSUME Inv, UNCHANGED <<cabin, prevFloor, stopPressed, pc, budget>>,
           NEW x, elev' = x,
           x.moving = elev.moving, x.motor = elev.motor, x.door = elev.door,
           x.floor = elev.floor, x.stopped = elev.stopped, x.inertia = elev.inertia
    PROVE  Tracked'
BY DEF Inv, Tracked, StopUnused, Known, AtFloor, Top, cabin

LEMMA NextTracks == Inv /\ [Next]_vars => Inv' /\ Serves
<1> SUFFICES ASSUME Inv, [Next]_vars PROVE Inv' /\ Serves
    OBVIOUS
<1>1. IInv'
    BY NextSound DEF Inv
<1>2. CASE Sample
    <2>1. budget'.stop <= MaxStop
        BY <1>2, BudgetStop DEF Sample, Spend, Inv, IInv, TypeOK
    <2>2. Tracked'
        BY <1>2, <2>1, SampleTracks DEF Tracked
    <2>3. Serves
        BY <1>2 DEF Sample, Serves
    <2> QED BY <1>1, <2>2, <2>3 DEF Inv
<1>3. CASE Dispatch
    <2>1. StepDone
        BY <1>3 DEF Dispatch, EmergencyStop, EmergencyStopReset, FloorArrival, TableUpdate,
                    DoorTimeout, FloorTimeout, NoEvent
    <2>2. UNCHANGED <<position, stopPressed, budget>> /\ (StopUnused' <=> StopUnused)
        BY <2>1 DEF StepDone, StopUnused
    <2>3. Tracked'
        BY <1>3, <2>2, DispatchTracks DEF Tracked, Inv
    <2>4. Serves
        <3> SUFFICES ASSUME NEW b \in orders \ orders', StopUnused
                     PROVE  elev'.door /\ position = 2 * b[1]
            BY DEF Serves
        <3>1. elev'.door /\ b[1] = elev'.floor /\ Known'
            BY <1>3, DispatchTracks DEF ServedHere
        <3>2. AtFloor'
            BY <3>1 DEF Known
        <3> QED BY <2>2, <3>1, <3>2 DEF AtFloor
    <2> QED BY <1>1, <2>3, <2>4 DEF Inv
<1>4. CASE Move
    <2>1. UNCHANGED <<ctrl, orders, budget>> /\ (StopUnused' <=> StopUnused)
        BY <1>4 DEF Move, StopUnused
    <2>2. Tracked'
        BY <1>4, <2>1, MoveTracks DEF Tracked, Inv, ctrl
    <2>3. Serves
        BY <2>1 DEF Serves
    <2> QED BY <1>1, <2>2, <2>3 DEF Inv
<1>5. CASE Assign \/ Obstruct \/ Unobstruct
    <2>1. /\ UNCHANGED <<cabin, ctrl>>
          /\ budget'.stop = budget.stop
          /\ orders \subseteq orders'
        BY <1>5, StopBudget DEF Assign, Obstruct, Unobstruct
    <2>2. Serves
        BY <2>1 DEF Serves
    <2> QED BY <1>1, <2>1, <2>2, UnchangedTracks DEF Inv
<1>6. CASE Withdraw
    <2>1. UNCHANGED <<cabin, ctrl>> /\ Spend("withdraw")
        BY <1>6 DEF Withdraw
    <2>2. budget'.stop = budget.stop
        BY <2>1, StopBudget
    <2>3. budget'.withdraw < budget.withdraw
        BY <2>1 DEF Spend, Inv, IInv, TypeOK
    <2>4. Serves
        BY <2>3 DEF Serves
    <2> QED BY <1>1, <2>1, <2>2, <2>4, UnchangedTracks DEF Inv
<1>7. CASE DoorTimerExpires \/ FloorTimerExpires
    <2>1. /\ elev' \in {[elev EXCEPT !.doorTimer = "due"], [elev EXCEPT !.floorTimer = "due"]}
          /\ UNCHANGED <<cabin, prevFloor, stopPressed, pc, orders, budget>>
        BY <1>7 DEF DoorTimerExpires, FloorTimerExpires
    <2>2. /\ elev'.moving = elev.moving /\ elev'.motor = elev.motor /\ elev'.door = elev.door
          /\ elev'.floor = elev.floor /\ elev'.stopped = elev.stopped
          /\ elev'.inertia = elev.inertia
        BY <2>1 DEF Inv, IInv, Sound, Elevator
    <2>3. Tracked'
        BY <2>1, <2>2, TimerTracks
    <2>4. Serves
        BY <2>1 DEF Serves
    <2> QED BY <1>1, <2>3, <2>4 DEF Inv
<1>8. CASE UNCHANGED vars
    <2>1. UNCHANGED <<cabin, ctrl>> /\ budget' = budget /\ orders' = orders
        BY <1>8 DEF vars
    <2>2. Serves
        BY <2>1 DEF Serves
    <2> QED BY <1>1, <2>1, <2>2, UnchangedTracks DEF Inv
<1> QED BY <1>2, <1>3, <1>4, <1>5, <1>6, <1>7, <1>8 DEF Next

LEMMA Invariance == Spec => []Inv
BY InitTracked, NextTracks, PTL DEF Spec

-----------------------------------------------------------------------------
(* The door is open only with the cabin at the floor the controller takes  *)
(* it to be at, in any building, as long as the stop button is not used.   *)
THEOREM DoorOpensAtFloorOnly == Spec => []DoorOpenAtFloor
<1>1. Inv => DoorOpenAtFloor
    BY DEF Inv, IInv, Sound, Tracked, Known, AtFloor, DoorOpenAtFloor
<1> QED BY Invariance, <1>1, PTL

(* Once the arrival at an end of the shaft has been handled, the motor     *)
(* does not run that way any more, although only the bottom floor is       *)
(* guarded: at the top, the controller stops because no order is above.    *)
THEOREM NeverDrivesIntoEnd == Spec => []NotDrivenIntoEnd
<1>1. Inv => NotDrivenIntoEnd
    BY DEF Inv, Tracked, Known, NotDrivenIntoEnd
<1> QED BY Invariance, <1>1, PTL

(* An order goes only by a withdrawal or because the cabin is at its floor *)
(* with the door open.                                                     *)
THEOREM ClearedOnlyWhenServed == Spec => ServedAtFloor
<1>1. Inv /\ [Next]_vars =>
        [\A b \in orders \ orders' :
            \/ ~StopUnused
            \/ budget'.withdraw < budget.withdraw
            \/ elev'.door /\ position = 2 * b[1]]_vars
    BY NextTracks DEF Serves
<1> QED BY Invariance, <1>1, PTL DEF Spec, ServedAtFloor
=============================================================================

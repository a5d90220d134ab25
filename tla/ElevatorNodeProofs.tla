------------------------- MODULE ElevatorNodeProofs -------------------------
(***************************************************************************)
(* Proofs about ElevatorNode, for any group of elevators and any number of *)
(* floors.                                                                 *)
(*                                                                         *)
(* What HallOrdersProofs shows of the orders, whatever the elevators do,   *)
(* carries over to these elevators (SharedPreserved).  New is that a node  *)
(* knows where its cabin is (Tracked): a cabin that stands still is at the *)
(* floor the node takes it to be at, and a floor that was sampled is dealt *)
(* with before the cabin leaves it.                                        *)
(*                                                                         *)
(* The last part joins the two for a group in which nothing fails: what    *)
(* HallOrdersProofs says of calls, and that an answer is an open door.     *)
(***************************************************************************)
EXTENDS ElevatorNodeRefinement, HallOrdersProofs, FsmProofs

AtFloor(c) == c.position = 2 * c.elev.floor

(* The cabin c of a node in the phase p. *)
Tracked(c, p) ==
    /\ Ready(c.elev)
    /\ c.elev.moving # "Moving" => AtFloor(c)
    /\ HitNewFloor(c) => p = "synced" /\ c.seen = "sampled" /\ AtFloor(c)
    /\ c.seen # "new" /\ c.position % 2 = 0 => AtFloor(c)

CarsOK == \A n \in Nodes :
    /\ cars[n] \in Cabin
    /\ Sound(cars[n].elev)
    /\ Running(n) => Tracked(cars[n], phase[n])

NodeInv == IInv /\ cars \in [Nodes -> Cabin] /\ CarsOK

-----------------------------------------------------------------------------
(* A cabin. *)

LEMMA FloorsAreInt == kFloors \in Int /\ kFloors > 1
BY FloorsAssumption

(* Wherever a cabin is, the floor at or below it is one of the building. *)
LEMMA FloorBelow ==
    ASSUME NEW p \in 0 .. 2 * (kFloors - 1)
    PROVE  /\ p \div 2 \in Floor
           /\ p % 2 = 0 => p = 2 * (p \div 2)
BY FloorsAreInt DEF Floor

LEMMA PositionOfFloor ==
    ASSUME NEW f \in Floor
    PROVE  2 * f \in 0 .. 2 * (kFloors - 1) /\ (2 * f) % 2 = 0
BY FloorsAreInt DEF Floor

LEMMA CabinAtOK ==
    ASSUME NEW f \in Floor, NEW stuck \in BOOLEAN, NEW p
    PROVE  /\ CabinAt(f, stuck) \in Cabin
           /\ Sound(CabinAt(f, stuck).elev)
           /\ Tracked(CabinAt(f, stuck), p)
<1> DEFINE c == CabinAt(f, stuck)
           e == c.elev
<1>1. /\ e = [floor |-> f, motor |-> "Stop", moving |-> "Idle", door |-> FALSE,
              stopped |-> FALSE, fault |-> FALSE, obstructed |-> FALSE,
              inertia |-> "None", doorTimer |-> "off", floorTimer |-> "off"]
      /\ c = [elev |-> e, requests |-> {}, prevRequests |-> {}, prevFloor |-> f,
              position |-> 2 * f, seen |-> "new", lit |-> {}, lamps |-> {}, stuck |-> stuck]
    BY DEF CabinAt
<1> HIDE DEF c, e
<1>2. Sound(e)
    BY <1>1 DEF Sound, Elevator, TimerState
<1>3. c \in Cabin
    BY <1>1, <1>2, PositionOfFloor DEF Sound, Cabin
<1>4. Tracked(c, p)
    BY <1>1, <1>2 DEF Tracked, Ready, AtFloor, HitNewFloor
<1> QED BY <1>2, <1>3, <1>4 DEF c, e

(* What the sensor tells: the floor the cabin is at, or none. *)
LEMMA SetFloorParts ==
    ASSUME NEW c \in Cabin
    PROVE  LET e == SetFloor(c.elev, FloorSensor(c))
           IN  /\ e = [c.elev EXCEPT !.floor = e.floor]
               /\ e.floor \in Floor
               /\ c.position % 2 = 0 => c.position = 2 * e.floor
               /\ c.position % 2 # 0 => e.floor = c.elev.floor
<1> DEFINE e == SetFloor(c.elev, FloorSensor(c))
<1>1. c.elev \in Elevator /\ c.position \in 0 .. 2 * (kFloors - 1)
    BY DEF Cabin
<1>2. c.elev = [c.elev EXCEPT !.floor = c.elev.floor] /\ c.elev.floor \in Floor
    BY <1>1 DEF Elevator
<1>3. CASE c.position % 2 = 0
    <2>1. /\ c.position \div 2 \in Floor /\ c.position \div 2 # kBetweenFloors
          /\ c.position = 2 * (c.position \div 2)
        BY <1>1, <1>3, FloorBelow, FloorsAreInt DEF Floor, kBetweenFloors
    <2>2. e = [c.elev EXCEPT !.floor = c.position \div 2]
        BY <1>3, <2>1 DEF SetFloor, FloorSensor
    <2>3. e.floor = c.position \div 2
        BY <1>1, <2>2 DEF Elevator
    <2> HIDE DEF e
    <2>4. e = [c.elev EXCEPT !.floor = e.floor]
        BY <2>2, <2>3
    <2> QED BY <1>3, <2>1, <2>3, <2>4 DEF e
<1>4. CASE c.position % 2 # 0
    <2>1. e = c.elev
        BY <1>4 DEF SetFloor, FloorSensor
    <2> QED BY <1>2, <1>4, <2>1
<1> QED BY <1>3, <1>4

(* The handlers, in a state that a node may be in. *)
LEMMA DispatchParts ==
    ASSUME NEW c, Tracked(c, "synced")
    PROVE  LET r == Dispatch(c)
           IN  /\ Ready(r.elev)
               /\ r.elev.floor = c.elev.floor
               /\ r.elev.moving # "Moving" => AtFloor(c)
               /\ r.clear # {} => r.elev.door
<1> DEFINE e == c.elev
           R == c.requests
           r == Dispatch(c)
<1>1. Ready(e) /\ Sound(e)
    BY DEF Tracked, Ready
<1>2. CASE HitNewFloor(c)
    <2>1. r = FsmFloorArrival(e, R)
        BY <1>2 DEF Dispatch
    <2>2. Sound(r.elev)
        BY <1>1, <2>1, FsmFloorArrivalSound
    <2>3. /\ r.elev.floor = e.floor
          /\ r.elev.stopped = e.stopped
          /\ r.elev.moving = "DoorOpen" <=> r.elev.door
          /\ r.elev.motor \in {e.motor, "Stop"}
          /\ r.elev.inertia = e.inertia
          /\ r.clear # {} => r.elev.door
        BY <1>1, <2>1, ArrivalParts
    <2>4. AtFloor(c)
        BY <1>2 DEF Tracked
    <2> HIDE DEF r
    <2>5. Ready(r.elev)
        BY <1>1, <2>2, <2>3 DEF Ready
    <2> QED BY <2>3, <2>4, <2>5 DEF r
<1>3. CASE ~HitNewFloor(c)
    <2>1. r \in {FsmTableUpdate(e, R), FsmDoorTimeout(e, R), FsmFloorTimeout(e)}
        BY <1>3 DEF Dispatch
    <2>2. Sound(r.elev)
        BY <1>1, <2>1, FsmTableUpdateSound, FsmDoorTimeoutSound, FsmFloorTimeoutSound
    <2>3. Steers(e, R, r)
        BY <1>1, <2>1, FsmTableUpdateSteers, FsmDoorTimeoutSteers, FsmFloorTimeoutSteers
    <2> HIDE DEF r
    <2>4. Ready(r.elev) /\ r.elev.floor = e.floor /\ (r.clear # {} => r.elev.door)
        BY <1>1, <2>2, <2>3 DEF Ready, Steers
    <2>5. r.elev.moving # "Moving" => AtFloor(c)
        BY <2>3 DEF Steers, Tracked
    <2> QED BY <2>4, <2>5 DEF r
<1> QED BY <1>2, <1>3

-----------------------------------------------------------------------------
(* The actions on a cabin. *)

CarOK(c, n) == c \in Cabin /\ Sound(c.elev) /\ (Running(n)' => Tracked(c, phase'[n]))

(* An action of n on its own cabin, and possibly on its phase. *)
LEMMA OneCar ==
    ASSUME NodeInv, NEW n \in Nodes, NEW c,
           cars' = [cars EXCEPT ![n] = c], CarOK(c, n),
           \A m \in Nodes \ {n} : phase'[m] = phase[m]
    PROVE  cars' \in [Nodes -> Cabin] /\ CarsOK'
<1>1. cars \in [Nodes -> Cabin]
    BY DEF NodeInv
<1>2. cars'[n] = c /\ \A m \in Nodes \ {n} : cars'[m] = cars[m]
    BY <1>1
<1>3. cars' \in [Nodes -> Cabin]
    BY <1>1 DEF CarOK
<1>4. ASSUME NEW m \in Nodes \ {n}
      PROVE  /\ cars'[m] \in Cabin
             /\ Sound(cars'[m].elev)
             /\ Running(m)' => Tracked(cars'[m], phase'[m])
    BY <1>2, <1>4 DEF NodeInv, CarsOK, Running
<1>5. CarsOK'
    BY <1>2, <1>4 DEF CarOK, CarsOK
<1> QED BY <1>3, <1>5

(* The cabins stay, and no node starts.  A floor that was sampled and not  *)
(* yet dealt with keeps its node in the phase "synced".                    *)
LEMMA NoCar ==
    ASSUME NodeInv, UNCHANGED <<cars, phase>>
    PROVE  cars' \in [Nodes -> Cabin] /\ CarsOK'
BY DEF NodeInv, CarsOK, Running

LEMMA SyncCar ==
    ASSUME NodeInv, NEW n \in Nodes, SyncAndStep(n)
    PROVE  cars' \in [Nodes -> Cabin] /\ CarsOK'
<1> DEFINE b == cars[n]
           e == SetFloor(b.elev, FloorSensor(b))
           c == [b EXCEPT !.elev     = e,
                          !.requests = BoolTable(n, orders[n]),
                          !.seen     = IF b.seen = "new" THEN "sampled" ELSE b.seen,
                          !.lamps    = SetButtonLamps(b, BoolTable(n, orders[n])),
                          !.lit      = BoolTable(n, orders[n])]
<1>1. b \in Cabin /\ Sound(b.elev) /\ b.elev \in Elevator /\ cars \in [Nodes -> Cabin]
    BY DEF NodeInv, CarsOK, Sound
<1>2. cars' = [cars EXCEPT ![n] = c]
    BY DEF SyncAndStep, Sampled
<1>3. phase[n] \in {"starting", "idle"} /\ phase'[n] \in {"synced", "aborted"}
      /\ \A m \in Nodes \ {n} : phase'[m] = phase[m]
    BY DEF SyncAndStep, Step, NodeInv, IInv, TypeOK
<1>4. Tracked(b, phase[n])
    BY <1>3 DEF NodeInv, CarsOK, Running
<1>5. /\ e = [b.elev EXCEPT !.floor = e.floor]
      /\ e.floor \in Floor
      /\ b.position % 2 = 0 => b.position = 2 * e.floor
      /\ b.position % 2 # 0 => e.floor = b.elev.floor
    BY <1>1, SetFloorParts
<1> HIDE DEF e
<1>6. Sound(e) /\ Ready(e) /\ e.moving = b.elev.moving
    <2> DEFINE f == e.floor
    <2>1. e = [b.elev EXCEPT !.floor = f] /\ f \in Floor
        BY <1>5
    <2> HIDE DEF f
    <2> QED BY <1>1, <1>4, <2>1 DEF Tracked, Ready, Sound, Elevator
<1>7. /\ c \in Cabin
      /\ c.elev = e /\ c.position = b.position /\ c.prevFloor = b.prevFloor
      /\ c.seen = IF b.seen = "new" THEN "sampled" ELSE b.seen
    <2>1. /\ BoolTable(n, orders[n]) \in SUBSET Hall
          /\ SetButtonLamps(b, BoolTable(n, orders[n])) \in SUBSET Hall
        BY <1>1 DEF BoolTable, SetButtonLamps, Cabin
    <2> QED BY <1>1, <1>6, <2>1 DEF Cabin, Sound
<1> HIDE DEF c
<1>8. b.elev.floor = b.prevFloor
    BY <1>3, <1>4 DEF Tracked, HitNewFloor
<1>9. ASSUME phase'[n] = "synced"
      PROVE  Tracked(c, phase'[n])
    <2>1. CASE b.position % 2 = 0
        <3>1. AtFloor(c)
            BY <1>5, <1>7, <2>1 DEF AtFloor
        <3>2. b.seen = "handled" => AtFloor(b)
            BY <1>4, <2>1 DEF Tracked
        <3>3. b.seen = "handled" => e.floor = b.elev.floor
            BY <1>1, <1>5, <2>1, <3>2, FloorsAreInt DEF AtFloor, Elevator, Floor
        <3>4. HitNewFloor(c) => c.seen = "sampled"
            BY <1>1, <1>7, <1>8, <3>3 DEF HitNewFloor, Cabin
        <3> QED BY <1>6, <1>7, <1>9, <3>1, <3>4 DEF Tracked
    <2>2. CASE b.position % 2 # 0
        <3>1. ~HitNewFloor(c) /\ (AtFloor(c) <=> AtFloor(b))
            BY <1>5, <1>7, <1>8, <2>2 DEF HitNewFloor, AtFloor
        <3> QED BY <1>4, <1>6, <1>7, <2>2, <3>1 DEF Tracked
    <2> QED BY <2>1, <2>2
<1>10. CarOK(c, n)
    BY <1>3, <1>6, <1>7, <1>9 DEF CarOK, Running
<1> QED BY <1>2, <1>3, <1>10, OneCar

LEMMA HandleEventCar ==
    ASSUME NodeInv, NEW n \in Nodes, HandleEvent(n)
    PROVE  cars' \in [Nodes -> Cabin] /\ CarsOK'
<1> DEFINE b == cars[n]
           e == Dispatch(b).elev
           c == [Remembered(b) EXCEPT !.elev = e, !.requests = BoolTable(n, orders'[n])]
<1>1. b \in Cabin /\ cars \in [Nodes -> Cabin]
    BY DEF NodeInv, CarsOK
<1>2. cars' = [cars EXCEPT ![n] = c]
    BY DEF HandleEvent
<1>3. phase[n] = "synced" /\ phase'[n] = "idle" /\ \A m \in Nodes \ {n} : phase'[m] = phase[m]
    BY DEF HandleEvent, Serve, NodeInv, IInv, TypeOK
<1>4. Tracked(b, "synced")
    BY <1>3 DEF NodeInv, CarsOK, Running
<1>5. Ready(e) /\ e.floor = b.elev.floor /\ (e.moving # "Moving" => AtFloor(b))
    BY <1>4, DispatchParts
<1> HIDE DEF e
<1>6. Sound(e) /\ e \in Elevator /\ b.elev.floor \in Floor
    BY <1>1, <1>5 DEF Ready, Sound, Cabin, Elevator
<1>7. /\ c \in Cabin
      /\ c.elev = e /\ c.position = b.position /\ c.prevFloor = b.elev.floor
      /\ c.seen = "new" <=> b.seen = "new"
    <2> DEFINE r == Remembered(b)
    <2>1. /\ r \in Cabin /\ r.position = b.position /\ r.prevFloor = b.elev.floor
          /\ r.seen = "new" <=> b.seen = "new"
        BY <1>1, <1>6 DEF Remembered, Cabin
    <2> HIDE DEF r
    <2>2. c = [r EXCEPT !.elev = e, !.requests = BoolTable(n, orders'[n])]
        BY DEF r
    <2> QED BY <1>6, <2>1, <2>2 DEF Cabin, BoolTable
<1> HIDE DEF c
<1>8. AtFloor(c) <=> AtFloor(b)
    BY <1>5, <1>7 DEF AtFloor
<1>9. Tracked(c, phase'[n])
    BY <1>4, <1>5, <1>7, <1>8 DEF Tracked, HitNewFloor
<1>10. CarOK(c, n)
    BY <1>6, <1>7, <1>9 DEF CarOK
<1> QED BY <1>2, <1>3, <1>10, OneCar

LEMMA HandleNothingCar ==
    ASSUME NodeInv, NEW n \in Nodes, HandleNothing(n)
    PROVE  cars' \in [Nodes -> Cabin] /\ CarsOK'
<1> DEFINE b == cars[n]
           c == Remembered(b)
<1>1. b \in Cabin /\ cars \in [Nodes -> Cabin] /\ Sound(b.elev)
    BY DEF NodeInv, CarsOK
<1>2. cars' = [cars EXCEPT ![n] = c]
    BY DEF HandleNothing
<1>3. phase[n] = "synced" /\ phase'[n] = "idle" /\ \A m \in Nodes \ {n} : phase'[m] = phase[m]
    BY DEF HandleNothing, NoEvent, NodeInv, IInv, TypeOK
<1>4. Tracked(b, "synced") /\ ~HitNewFloor(b)
    BY <1>3 DEF NodeInv, CarsOK, Running, HandleNothing, HasEvent
<1>5. /\ c \in Cabin
      /\ c.elev = b.elev /\ c.position = b.position /\ c.prevFloor = b.elev.floor
      /\ c.seen = "new" <=> b.seen = "new"
    BY <1>1 DEF Remembered, Cabin, Elevator
<1> HIDE DEF c
<1>6. Tracked(c, phase'[n])
    BY <1>4, <1>5 DEF Tracked, HitNewFloor, AtFloor
<1>7. CarOK(c, n)
    BY <1>1, <1>5, <1>6 DEF CarOK
<1> QED BY <1>2, <1>3, <1>7, OneCar

(* What the environment does to a cabin does not disturb what its node     *)
(* knows: the timers, the motor that fails, and the cabin under way, which *)
(* leaves a floor only when the node has dealt with it.                    *)
LEMMA TurnCar ==
    ASSUME NodeInv, NEW n \in Nodes,
           \/ Move(n) \/ MotorFails(n) \/ DoorTimerExpires(n) \/ FloorTimerExpires(n)
    PROVE  cars' \in [Nodes -> Cabin] /\ CarsOK'
<1> DEFINE b == cars[n]
<1>1. b \in Cabin /\ Sound(b.elev) /\ cars \in [Nodes -> Cabin]
    BY DEF NodeInv, CarsOK
<1>2. Running(n) /\ UNCHANGED phase
    BY DEF Move, MotorFails, DoorTimerExpires, FloorTimerExpires, Turn
<1>3. Tracked(b, phase[n])
    BY <1>2 DEF NodeInv, CarsOK
<1>4. SUFFICES \E c : cars' = [cars EXCEPT ![n] = c] /\ c \in Cabin /\ Sound(c.elev)
                      /\ Tracked(c, phase[n])
    BY <1>2, OneCar DEF CarOK
<1>5. CASE Move(n)
    <2>1. PICK p \in 0 .. 2 * (kFloors - 1) :
            /\ b.seen = "handled"
            /\ \/ b.elev.motor = "Up"   /\ p = b.position + 1
               \/ b.elev.motor = "Down" /\ p = b.position - 1
            /\ cars' = [cars EXCEPT ![n] = [b EXCEPT !.position = p, !.seen = "new"]]
        BY <1>5 DEF Move, Turn
    <2> DEFINE c == [b EXCEPT !.position = p, !.seen = "new"]
    <2>2. c \in Cabin /\ c.elev = b.elev /\ c.seen = "new" /\ c.prevFloor = b.prevFloor
        BY <1>1 DEF Cabin
    <2>3. b.elev.moving = "Moving"
        BY <1>1, <2>1 DEF Sound
    <2>4. ~HitNewFloor(b)
        BY <1>3, <2>1 DEF Tracked
    <2> HIDE DEF c
    <2>5. Tracked(c, phase[n])
        BY <1>3, <2>2, <2>3, <2>4 DEF Tracked, HitNewFloor
    <2> QED BY <1>1, <2>1, <2>2, <2>5 DEF c
<1>6. CASE MotorFails(n)
    <2> DEFINE c == [b EXCEPT !.stuck = TRUE]
    <2>1. cars' = [cars EXCEPT ![n] = c]
        BY <1>6 DEF MotorFails, Turn
    <2>2. c \in Cabin /\ c.elev = b.elev /\ c.seen = b.seen /\ c.prevFloor = b.prevFloor
          /\ c.position = b.position
        BY <1>1 DEF Cabin
    <2> HIDE DEF c
    <2>3. Tracked(c, phase[n])
        BY <1>3, <2>2 DEF Tracked, HitNewFloor, AtFloor
    <2> QED BY <1>1, <2>1, <2>2, <2>3
<1>7. CASE DoorTimerExpires(n) \/ FloorTimerExpires(n)
    <2>1. PICK e \in {[b.elev EXCEPT !.doorTimer = "due"], [b.elev EXCEPT !.floorTimer = "due"]} :
            cars' = [cars EXCEPT ![n] = [b EXCEPT !.elev = e]]
        BY <1>7 DEF DoorTimerExpires, FloorTimerExpires, Turn
    <2>2. /\ e.moving = b.elev.moving /\ e.motor = b.elev.motor /\ e.door = b.elev.door
          /\ e.floor = b.elev.floor /\ e.stopped = b.elev.stopped
          /\ e.inertia = b.elev.inertia /\ e \in Elevator
        BY <1>1 DEF Sound, Elevator, TimerState
    <2> DEFINE c == [b EXCEPT !.elev = e]
    <2>3. c \in Cabin /\ c.elev = e /\ c.seen = b.seen /\ c.prevFloor = b.prevFloor
          /\ c.position = b.position
        BY <1>1, <2>2 DEF Cabin
    <2>4. Sound(e)
        BY <1>1, <2>2 DEF Sound
    <2> HIDE DEF c
    <2>5. Tracked(c, phase[n])
        BY <1>3, <2>2, <2>3, <2>4 DEF Tracked, Ready, HitNewFloor, AtFloor
    <2> QED BY <2>1, <2>3, <2>4, <2>5 DEF c
<1> QED BY <1>5, <1>6, <1>7

LEMMA CrashCar ==
    ASSUME NodeInv, NEW n \in Nodes, CrashWithCar(n)
    PROVE  cars' \in [Nodes -> Cabin] /\ CarsOK'
<1> DEFINE b == cars[n]
           d == CabinAt(b.position \div 2, b.stuck)
           c == [d EXCEPT !.position = b.position, !.lamps = b.lamps]
<1>1. /\ b \in Cabin /\ b.position \in 0 .. 2 * (kFloors - 1) /\ b.stuck \in BOOLEAN
      /\ b.lamps \in SUBSET Hall
    BY DEF NodeInv, CarsOK, Cabin
<1>2. b.position \div 2 \in Floor
    BY <1>1, FloorBelow
<1>3. d \in Cabin /\ Sound(d.elev)
    BY <1>1, <1>2, CabinAtOK
<1>4. cars' = [cars EXCEPT ![n] = c]
    BY DEF CrashWithCar
<1>5. phase'[n] = "down" /\ \A m \in Nodes \ {n} : phase'[m] = phase[m]
    BY DEF CrashWithCar, Crash, NodeInv, IInv, TypeOK
<1> HIDE DEF d
<1>6. c \in Cabin /\ c.elev = d.elev
    BY <1>1, <1>3 DEF Cabin
<1> HIDE DEF c
<1>7. CarOK(c, n)
    BY <1>3, <1>5, <1>6 DEF CarOK, Running
<1> QED BY <1>4, <1>5, <1>7, OneCar

LEMMA RestartCar ==
    ASSUME NodeInv, NEW n \in Nodes, RestartWithCar(n)
    PROVE  cars' \in [Nodes -> Cabin] /\ CarsOK'
<1> DEFINE b == cars[n]
           d == CabinAt(b.position \div 2, b.stuck)
           c == [d EXCEPT !.lamps = b.lamps]
<1>1. b.position \in 0 .. 2 * (kFloors - 1) /\ b.stuck \in BOOLEAN /\ b.lamps \in SUBSET Hall
    BY DEF NodeInv, CarsOK, Cabin
<1>2. b.position \div 2 \in Floor
    BY <1>1, FloorBelow
<1>3. cars' = [cars EXCEPT ![n] = c]
    BY DEF RestartWithCar
<1>4. \A m \in Nodes \ {n} : phase'[m] = phase[m]
    BY DEF RestartWithCar, Restart, NodeInv, IInv, TypeOK
<1>5. d \in Cabin /\ Sound(d.elev) /\ Tracked(d, phase'[n])
    BY <1>1, <1>2, CabinAtOK
<1> HIDE DEF d
<1>6. /\ c \in Cabin /\ c.elev = d.elev /\ c.position = d.position /\ c.seen = d.seen
      /\ c.prevFloor = d.prevFloor
    BY <1>1, <1>5 DEF Cabin
<1> HIDE DEF c
<1>7. Tracked(c, phase'[n])
    BY <1>5, <1>6 DEF Tracked, HitNewFloor, AtFloor
<1>8. CarOK(c, n)
    BY <1>5, <1>6, <1>7 DEF CarOK
<1> QED BY <1>3, <1>4, <1>8, OneCar

-----------------------------------------------------------------------------
(* The hall orders. *)

(* Every action is one of HallOrders as far as the orders are concerned,   *)
(* or leaves them alone.                                                   *)
LEMMA SharedPreserved ==
    ASSUME NodeInv, NEW n \in Nodes,
           \/ SyncAndStep(n) \/ HandleEvent(n) \/ HandleNothing(n)
           \/ Network(n)
           \/ Move(n) \/ MotorFails(n) \/ DoorTimerExpires(n) \/ FloorTimerExpires(n)
           \/ CrashWithCar(n) \/ RestartWithCar(n)
    PROVE  IInv' /\ Grows
<1>1. IInv
    BY DEF NodeInv
<1>2. CASE SyncAndStep(n)
    BY <1>1, <1>2, StepPreserves DEF SyncAndStep
<1>3. CASE HandleEvent(n)
    <2> DEFINE c == cars[n]
               h == HealthOf(Dispatch(c).elev)
    <2>1. h \in {"ok", "fault"}
        BY DEF HealthOf
    <2>2. /\ Serve(n, Served(c), [active |-> TRUE, health |-> h])
          /\ health' = [health EXCEPT ![n] = h]
        BY <1>3 DEF HandleEvent
    <2> HIDE DEF h
    <2>3. /\ [active |-> TRUE, health |-> h] \in ElevatorState
          /\ health' \in [Nodes -> Health]
        BY <1>1, <2>1, <2>2 DEF ElevatorState, Health, IInv, TypeOK
    <2>4. Served(c) \in SUBSET Hall /\ [active |-> TRUE, health |-> h].active
        BY DEF Served
    <2> QED BY <1>1, <2>2, <2>3, <2>4, ServePreserves
<1>4. CASE HandleNothing(n)
    BY <1>1, <1>4, NoEventPreserves DEF HandleNothing
<1>5. CASE Network(n)
    <2>1. CASE \E m \in Nodes : Rx(n, m)
        BY <1>1, <2>1, ReceivePreserves DEF Rx, From
    <2> QED BY <1>1, <1>5, <2>1, TxPreserves, TimerExpiryPreserves, OtherEventsPreserve DEF Network
<1>6. CASE Move(n) \/ MotorFails(n) \/ DoorTimerExpires(n) \/ FloorTimerExpires(n)
    <2>1. UNCHANGED <<phase, orders, timers, watchdogs, states, health, net>>
        BY <1>6 DEF Move, MotorFails, DoorTimerExpires, FloorTimerExpires, Turn
    <2>2. budget' \in Budget
        BY <1>1, <1>6, SpendType
           DEF Move, MotorFails, DoorTimerExpires, FloorTimerExpires, IInv, TypeOK
    <2>3. TypeOK' /\ NeverAborts' /\ WatchdogInv'
        BY <1>1, <2>1, <2>2 DEF IInv, TypeOK, NeverAborts, WatchdogInv, Networked
    <2>4. CopiesOK' /\ PacketsOK' /\ TimerInv'
        BY <1>1, <2>1 DEF IInv, CopiesOK, PacketsOK, TimerInv
    <2> QED BY <1>1, <2>1, <2>3, <2>4, UnchangedGrows DEF IInv
<1>7. CASE CrashWithCar(n)
    BY <1>1, <1>7, CrashPreserves DEF CrashWithCar
<1>8. CASE RestartWithCar(n)
    BY <1>1, <1>8, OtherEventsPreserve DEF RestartWithCar
<1> QED BY <1>2, <1>3, <1>4, <1>5, <1>6, <1>7, <1>8

(* The cabins during what only concerns the network. *)
LEMMA NetworkCar ==
    ASSUME NodeInv, NEW n \in Nodes, Network(n)
    PROVE  cars' \in [Nodes -> Cabin] /\ CarsOK'
<1>1. UNCHANGED <<cars, phase>>
    BY DEF Network, Tx, Rx, Receive, ContactLost, PeerSilent, LastPacketsGone, OrderTimerExpires
<1> QED BY <1>1, NoCar

-----------------------------------------------------------------------------
(* An order goes only with the door open at its floor. *)
ServedHere ==
    \A n \in Nodes, h \in Hall :
        /\ orders[n][h].status = Confirmed
        /\ orders'[n][h].status # Confirmed
        /\ phase[n] = "synced" /\ phase'[n] = "idle"
        => /\ orders[n][h].assigned = n
           /\ cars'[n].elev.door
           /\ cars[n].position = 2 * h[1]

LEMMA EventServes ==
    ASSUME NodeInv, NEW n \in Nodes, HandleEvent(n)
    PROVE  ServedHere
<1> DEFINE b == cars[n]
           r == Dispatch(b)
<1> SUFFICES ASSUME NEW m \in Nodes, NEW h \in Hall,
                    orders[m][h].status = Confirmed, orders'[m][h].status # Confirmed
             PROVE  /\ orders[m][h].assigned = m
                    /\ cars'[m].elev.door
                    /\ cars[m].position = 2 * h[1]
    BY DEF ServedHere
<1>1. /\ phase[n] = "synced"
      /\ orders' = [orders EXCEPT ![n] = [g \in Hall |->
              IF g \in Served(b) THEN ClearOrder(n, orders[n][g]) ELSE orders[n][g]]]
    BY DEF HandleEvent, Serve, NodeInv, IInv, TypeOK
<1>2. m = n /\ h \in Served(b) /\ orders[n][h].assigned = n
    BY <1>1 DEF NodeInv, IInv, TypeOK, ClearOrder
<1>3. h[1] = b.elev.floor /\ r.clear # {}
    BY <1>2 DEF Served
<1>4. Tracked(b, "synced")
    BY <1>1 DEF NodeInv, CarsOK, Running
<1>5. /\ Ready(r.elev) /\ r.elev.door
      /\ r.elev.moving # "Moving" => AtFloor(b)
    BY <1>3, <1>4, DispatchParts
<1>6. AtFloor(b)
    BY <1>5 DEF Ready, Sound
<1>7. cars'[n].elev = r.elev
    <2>1. cars[n] \in Cabin /\ cars \in [Nodes -> Cabin]
        BY DEF NodeInv
    <2>2. cars' = [cars EXCEPT ![n] = [Remembered(b) EXCEPT !.elev     = r.elev,
                                                          !.requests = BoolTable(n, orders'[n])]]
        BY DEF HandleEvent
    <2>3. Remembered(b) \in Cabin
        BY <2>1 DEF Remembered, Cabin, Elevator
    <2> HIDE DEF r
    <2> QED BY <2>1, <2>2, <2>3 DEF Cabin
<1> QED BY <1>2, <1>3, <1>5, <1>6, <1>7 DEF AtFloor

(* No other action empties an order of a node between step and event. *)
LEMMA OthersServe ==
    ASSUME NodeInv, NEW n \in Nodes,
           \/ SyncAndStep(n) \/ HandleNothing(n) \/ Network(n)
           \/ Move(n) \/ MotorFails(n) \/ DoorTimerExpires(n) \/ FloorTimerExpires(n)
           \/ CrashWithCar(n) \/ RestartWithCar(n)
    PROVE  ServedHere
<1>1. \/ UNCHANGED orders
      \/ \A m \in Nodes : phase[m] = "synced" => phase'[m] # "idle"
    <2>1. CASE SyncAndStep(n)
        BY <2>1 DEF SyncAndStep, Step, NodeInv, IInv, TypeOK
    <2>2. CASE HandleNothing(n)
        BY <2>2 DEF HandleNothing, NoEvent
    <2>3. CASE Network(n)
        BY <2>3 DEF Network, Tx, Rx, Receive, ContactLost, PeerSilent, LastPacketsGone,
                    OrderTimerExpires
    <2>4. CASE Move(n) \/ MotorFails(n) \/ DoorTimerExpires(n) \/ FloorTimerExpires(n)
        BY <2>4 DEF Move, MotorFails, DoorTimerExpires, FloorTimerExpires, Turn
    <2>5. CASE CrashWithCar(n)
        BY <2>5 DEF CrashWithCar, Crash, NodeInv, IInv, TypeOK
    <2>6. CASE RestartWithCar(n)
        BY <2>6 DEF RestartWithCar, Restart
    <2> QED BY <2>1, <2>2, <2>3, <2>4, <2>5, <2>6
<1> QED BY <1>1 DEF ServedHere

-----------------------------------------------------------------------------
(* The specification. *)

LEMMA NodeInitOK == NodeInit => NodeInv
<1> SUFFICES ASSUME NodeInit PROVE NodeInv
    OBVIOUS
<1>1. IInv
    BY InitOK DEF NodeInit
<1>2. \A n \in Nodes : \E f \in Floor : cars[n] = CabinAt(f, FALSE)
    BY DEF NodeInit
<1>3. CarsOK
    BY <1>2, CabinAtOK DEF CarsOK
<1>4. cars \in [Nodes -> Cabin]
    BY <1>3 DEF NodeInit, CarsOK
<1> QED BY <1>1, <1>3, <1>4 DEF NodeInv

LEMMA NodeNextPreserves == NodeInv /\ [NodeNext]_nodeVars => NodeInv' /\ Grows /\ ServedHere
<1> SUFFICES ASSUME NodeInv, [NodeNext]_nodeVars PROVE NodeInv' /\ Grows /\ ServedHere
    OBVIOUS
<1>1. CASE NodeNext
    <2>1. PICK n \in Nodes :
            \/ SyncAndStep(n) \/ HandleEvent(n) \/ HandleNothing(n)
            \/ Network(n)
            \/ Move(n) \/ MotorFails(n) \/ DoorTimerExpires(n) \/ FloorTimerExpires(n)
            \/ CrashWithCar(n) \/ RestartWithCar(n)
        BY <1>1 DEF NodeNext
    <2>2. IInv' /\ Grows
        BY <2>1, SharedPreserved
    <2>3. cars' \in [Nodes -> Cabin] /\ CarsOK'
        BY <2>1, SyncCar, HandleEventCar, HandleNothingCar, NetworkCar, TurnCar, CrashCar, RestartCar
    <2>4. ServedHere
        BY <2>1, EventServes, OthersServe
    <2> QED BY <2>2, <2>3, <2>4 DEF NodeInv
<1>2. CASE UNCHANGED nodeVars
    <2>1. UNCHANGED vars /\ UNCHANGED <<cars, phase, orders>>
        BY <1>2 DEF nodeVars, vars
    <2>2. IInv' /\ Grows
        BY <2>1, NextPreserves DEF NodeInv
    <2>3. cars' \in [Nodes -> Cabin] /\ CarsOK'
        BY <2>1, NoCar
    <2>4. ServedHere
        BY <2>1 DEF ServedHere
    <2> QED BY <2>2, <2>3, <2>4 DEF NodeInv
<1> QED BY <1>1, <1>2

LEMMA NodeInvariance == NodeSpec => []NodeInv
BY NodeInitOK, NodeNextPreserves, PTL DEF NodeSpec

(* Every variable of the composition keeps its type, the cabins included.  *)
THEOREM NodeTypeCorrect == NodeSpec => []NodeTypeOK
<1>1. NodeInv => NodeTypeOK
    BY DEF NodeInv, IInv, NodeTypeOK
<1> QED BY NodeInvariance, <1>1, PTL

(* With the elevators that the controller drives, too, no node ever aborts *)
(* and every confirmed order names an elevator of the group.               *)
THEOREM NodesNeverAbort == NodeSpec => [](NeverAborts /\ ConfirmedNamesNode)
<1>1. NodeInv => NeverAborts /\ ConfirmedNamesNode
    BY DEF NodeInv, IInv, CopiesOK, PacketsOK, OrderOK, ConfirmedNamesNode
<1> QED BY NodeInvariance, <1>1, PTL

(* So do the other invariants of the shared orders: a node acts on no peer *)
(* that it has written off, and one that is alone keeps but its own orders.*)
THEOREM NodesGuardPeers == NodeSpec => [](WatchdogGuardsActive /\ AloneKeepsOwnOrders)
<1>1. NodeInv => WatchdogGuardsActive
    BY DEF NodeInv, IInv, WatchdogInv, WatchdogGuardsActive
<1>2. NodeInv => AloneKeepsOwnOrders
    BY LoneTimerIsOwn DEF NodeInv
<1> QED BY NodeInvariance, <1>1, <1>2, PTL

(* And no thread of a node, whatever its cabin does, takes a copy of an    *)
(* order backwards.                                                        *)
THEOREM NodesCopiesGrow == NodeSpec => OrdersOnlyGrow
<1>1. NodeInv /\ [NodeNext]_nodeVars =>
        [\A n \in Nodes, h \in Hall :
            phase'[n] # "down" => Leq(orders[n][h], orders'[n][h])]_vars
    BY NodeNextPreserves DEF Grows
<1> QED BY NodeInvariance, <1>1, PTL DEF NodeSpec, OrdersOnlyGrow

(* In every cabin of the group the door is open only at a standstill, and  *)
(* only at the floor the node takes its cabin to be at.                    *)
THEOREM DoorsOpenAtFloors ==
    NodeSpec => [](\A n \in Nodes : Running(n) /\ cars[n].elev.door =>
                        /\ cars[n].elev.motor = "Stop"
                        /\ cars[n].position = 2 * cars[n].elev.floor)
<1>1. NodeInv => \A n \in Nodes : Running(n) /\ cars[n].elev.door =>
                        /\ cars[n].elev.motor = "Stop"
                        /\ cars[n].position = 2 * cars[n].elev.floor
    BY DEF NodeInv, CarsOK, Tracked, Sound, AtFloor
<1> QED BY NodeInvariance, <1>1, PTL

(* No hall call is lost on the way from the table to the door: a confirmed *)
(* order is cleared by a node only if it is its own and its cabin has the  *)
(* door open at that floor, for any group, building and course of events.  *)
THEOREM ClearedWhenAnswered == NodeSpec => AnsweredAtFloor
<1>1. NodeInv /\ [NodeNext]_nodeVars =>
        [\A n \in Nodes, h \in Hall :
            /\ orders[n][h].status = Confirmed
            /\ orders'[n][h].status # Confirmed
            /\ phase[n] = "synced" /\ phase'[n] = "idle"
            => /\ orders[n][h].assigned = n
               /\ cars'[n].elev.door
               /\ cars[n].position = 2 * h[1]]_nodeVars
    BY NodeNextPreserves DEF ServedHere
<1> QED BY NodeInvariance, <1>1, PTL DEF NodeSpec, AnsweredAtFloor

-----------------------------------------------------------------------------
(***************************************************************************)
(* A group in which nothing fails.  With motors that work no floor timer   *)
(* comes due and no elevator is ever at fault (TimelyCars), so that every  *)
(* step of a node with its cabin is one of HallOrders (StepIsShared).      *)
(***************************************************************************)
TimelyCars == \A n \in Nodes : ~cars[n].stuck /\ Timely(cars[n].elev) /\ health[n] = "ok"

QuietNodeInv == NodeInv /\ QuietIInv /\ TimelyCars /\ budget.change = 0

(* An action of n on its own cabin.                                        *)
LEMMA OneTimelyCar ==
    ASSUME QuietNodeInv, NEW n \in Nodes, NEW c,
           cars' = [cars EXCEPT ![n] = c], ~c.stuck, Timely(c.elev), UNCHANGED health
    PROVE  TimelyCars'
BY DEF QuietNodeInv, NodeInv, TimelyCars

LEMMA StepIsShared ==
    ASSUME QuietNodeInv, NEW n \in Nodes, SyncAndStep(n)
    PROVE  NodeStep(n) /\ TimelyCars' /\ budget'.change = 0
<1> DEFINE b == cars[n]
           c == Sampled(b, BoolTable(n, orders[n]))
<1>1. b \in Cabin /\ ~b.stuck /\ Timely(b.elev)
    BY DEF QuietNodeInv, NodeInv, CarsOK, TimelyCars
<1>2. cars' = [cars EXCEPT ![n] = c] /\ UNCHANGED health
    BY DEF SyncAndStep, Step
<1>3. ~c.stuck /\ Timely(c.elev)
    <2>1. c.stuck = b.stuck /\ c.elev = SetFloor(b.elev, FloorSensor(b))
        BY <1>1 DEF Sampled, Cabin
    <2>2. Timely(SetFloor(b.elev, FloorSensor(b)))
        BY <1>1 DEF SetFloor, Timely, Cabin, Elevator
    <2> QED BY <1>1, <2>1, <2>2
<1>4. budget'.change = 0
    BY DEF SyncAndStep, Step, QuietNodeInv, NodeInv, IInv, TypeOK, Budget
<1> QED BY <1>2, <1>3, <1>4, OneTimelyCar DEF SyncAndStep, NodeStep

LEMMA DispatchTimely ==
    ASSUME NEW c, HasEvent(c), Sound(c.elev), Timely(c.elev)
    PROVE  Timely(Dispatch(c).elev)
<1>1. Dispatch(c) \in {FsmFloorArrival(c.elev, c.requests), FsmTableUpdate(c.elev, c.requests),
                       FsmDoorTimeout(c.elev, c.requests)}
    BY DEF Dispatch, HasEvent, Timely
<1> QED BY <1>1, FsmFloorArrivalTimely, FsmTableUpdateTimely, FsmDoorTimeoutTimely

LEMMA EventIsShared ==
    ASSUME QuietNodeInv, NEW n \in Nodes, HandleEvent(n)
    PROVE  NodeStep(n) /\ TimelyCars' /\ budget'.change = 0
<1> DEFINE b == cars[n]
           e == Dispatch(b).elev
           c == [Remembered(b) EXCEPT !.elev = e, !.requests = BoolTable(n, orders'[n])]
<1>1. b \in Cabin /\ ~b.stuck /\ Timely(b.elev) /\ Sound(b.elev) /\ health[n] = "ok"
    BY DEF QuietNodeInv, NodeInv, CarsOK, TimelyCars
<1>2. Timely(e)
    BY <1>1, DispatchTimely DEF HandleEvent
<1>3. HealthOf(e) = "ok"
    BY <1>2 DEF HealthOf, Timely
<1>4. /\ Serve(n, Served(b), OwnState(n))
      /\ health' = [health EXCEPT ![n] = "ok"]
      /\ cars' = [cars EXCEPT ![n] = c]
    BY <1>1, <1>3 DEF HandleEvent, OwnState
<1>5. UNCHANGED <<health, budget>>
    BY <1>1, <1>4 DEF Serve, QuietNodeInv, NodeInv, IInv, TypeOK
<1>6. Served(b) \in SUBSET Hall
    BY DEF Served
<1>7. ~c.stuck /\ c.elev = e
    <2> HIDE DEF e
    <2> QED BY <1>1 DEF Remembered, Cabin
<1> HIDE DEF c
<1>8. TimelyCars'
    BY <1>2, <1>4, <1>5, <1>7, OneTimelyCar
<1> QED BY <1>4, <1>5, <1>6, <1>8 DEF NodeStep, Event, QuietNodeInv

LEMMA NoEventIsShared ==
    ASSUME QuietNodeInv, NEW n \in Nodes, HandleNothing(n)
    PROVE  NodeStep(n) /\ TimelyCars' /\ budget'.change = 0
<1>1. cars[n] \in Cabin /\ ~cars[n].stuck /\ Timely(cars[n].elev)
    BY DEF QuietNodeInv, NodeInv, CarsOK, TimelyCars
<1>2. ~Remembered(cars[n]).stuck /\ Remembered(cars[n]).elev = cars[n].elev
    BY <1>1 DEF Remembered, Cabin
<1> QED BY <1>1, <1>2, OneTimelyCar DEF HandleNothing, NoEvent, NodeStep, QuietNodeInv

LEMMA NetworkIsShared ==
    ASSUME QuietNodeInv, NEW n \in Nodes, Network(n)
    PROVE  (NodeStep(n) \/ Environment(n)) /\ TimelyCars' /\ budget'.change = 0
<1>1. UNCHANGED <<cars, health>>
    BY DEF Network, Tx, Rx, Receive, ContactLost, PeerSilent, LastPacketsGone, OrderTimerExpires
<1>2. budget'.change = 0
    BY DEF Network, Tx, Rx, Receive, ContactLost, PeerSilent, LastPacketsGone, OrderTimerExpires,
           Spend, QuietNodeInv, NodeInv, IInv, TypeOK, Budget
<1> QED BY <1>1, <1>2 DEF Network, NodeStep, Environment, QuietNodeInv, TimelyCars

LEMMA CabinIsAlone ==
    ASSUME QuietNodeInv, NEW n \in Nodes,
           \/ Move(n) \/ MotorFails(n) \/ DoorTimerExpires(n) \/ FloorTimerExpires(n)
           \/ CrashWithCar(n) \/ RestartWithCar(n)
    PROVE  UNCHANGED vars /\ TimelyCars' /\ budget'.change = 0
<1> DEFINE b == cars[n]
<1>1. b \in Cabin /\ ~b.stuck /\ Timely(b.elev)
    BY DEF QuietNodeInv, NodeInv, CarsOK, TimelyCars
<1>2. budget.change = 0 /\ budget.crash = 0 /\ phase[n] # "down"
    BY DEF QuietNodeInv, QuietIInv, QuietInv
<1>3. Move(n) \/ DoorTimerExpires(n)
    BY <1>1, <1>2 DEF MotorFails, FloorTimerExpires, CrashWithCar, Crash, RestartWithCar, Restart,
                      Spend
<1>4. UNCHANGED vars
    BY <1>3 DEF Move, DoorTimerExpires, Turn, vars
<1>5. \E c : cars' = [cars EXCEPT ![n] = c] /\ ~c.stuck /\ Timely(c.elev)
    <2>1. CASE Move(n)
        <3>1. PICK p : cars' = [cars EXCEPT ![n] = [b EXCEPT !.position = p, !.seen = "new"]]
            BY <2>1 DEF Move, Turn
        <3> DEFINE c == [b EXCEPT !.position = p, !.seen = "new"]
        <3>2. ~c.stuck /\ Timely(c.elev)
            BY <1>1 DEF Cabin
        <3> QED BY <3>1, <3>2
    <2>2. CASE DoorTimerExpires(n)
        <3> DEFINE c == [b EXCEPT !.elev.doorTimer = "due"]
        <3>1. cars' = [cars EXCEPT ![n] = c]
            BY <2>2 DEF DoorTimerExpires, Turn
        <3>2. ~c.stuck /\ Timely(c.elev)
            BY <1>1 DEF Cabin, Elevator, Timely
        <3> QED BY <3>1, <3>2
    <2> QED BY <1>3, <2>1, <2>2
<1> QED BY <1>2, <1>4, <1>5, OneTimelyCar DEF vars

LEMMA QuietNodeInitOK ==
    ASSUME QuietNodeInit, NothingFails
    PROVE  QuietNodeInv /\ Abstract!Init
<1>1. QuietIInv /\ Abstract!Init
    BY QuietInitOK, QuietInitCalls DEF QuietNodeInit, NothingFails, QuietIInv
<1>2. \A n \in Nodes : \E f \in Floor : cars[n] = CabinAt(f, FALSE)
    BY DEF QuietNodeInit
<1>3. CarsOK
    BY <1>2, CabinAtOK DEF CarsOK
<1>4. cars \in [Nodes -> Cabin]
    BY <1>3 DEF QuietNodeInit, CarsOK
<1>5. TimelyCars
    <2>1. \A f : ~CabinAt(f, FALSE).stuck /\ Timely(CabinAt(f, FALSE).elev)
        BY DEF CabinAt, Timely
    <2>2. \A n \in Nodes : health[n] = "ok"
        BY DEF QuietNodeInit, QuietInit, Group
    <2> QED BY <1>2, <2>1, <2>2 DEF TimelyCars
<1>6. budget.change = 0
    BY DEF QuietNodeInit, QuietInit, Group, FullBudget, NothingFails
<1> QED BY <1>1, <1>3, <1>4, <1>5, <1>6 DEF QuietNodeInv, NodeInv, QuietIInv

LEMMA QuietNodeNext ==
    ASSUME NothingFails, QuietNodeInv, [NodeNext]_nodeVars
    PROVE  QuietNodeInv' /\ Abstract!Next /\ AnsweredByEvent /\ ServedHere
<1>1. NodeInv' /\ ServedHere
    BY NodeNextPreserves DEF QuietNodeInv
<1>2. [Next]_vars /\ TimelyCars' /\ budget'.change = 0
    <2>1. CASE NodeNext
        <3>1. PICK n \in Nodes :
                \/ SyncAndStep(n) \/ HandleEvent(n) \/ HandleNothing(n)
                \/ Network(n)
                \/ Move(n) \/ MotorFails(n) \/ DoorTimerExpires(n) \/ FloorTimerExpires(n)
                \/ CrashWithCar(n) \/ RestartWithCar(n)
            BY <2>1 DEF NodeNext
        <3>2. /\ NodeStep(n) \/ Environment(n) \/ UNCHANGED vars
              /\ TimelyCars' /\ budget'.change = 0
            BY <3>1, StepIsShared, EventIsShared, NoEventIsShared, NetworkIsShared, CabinIsAlone
        <3> QED BY <3>2 DEF Next
    <2>2. CASE UNCHANGED nodeVars
        BY <2>2 DEF nodeVars, vars, TimelyCars, QuietNodeInv
    <2> QED BY <2>1, <2>2
<1>3. QuietIInv' /\ Abstract!Next /\ AnsweredByEvent
    BY <1>2, QuietNext DEF QuietNodeInv, NothingFails
<1> QED BY <1>1, <1>2, <1>3 DEF QuietNodeInv

(* The whole implements the abstract call: with the cabins, too, the       *)
(* copies of every hall order in a group that works behave as one call     *)
(* that is noted, accepted and answered in turn.                           *)
THEOREM NodesKeepCalls == NothingFails => (QuietNodeSpec => ImplementsHallCall)
<1> SUFFICES ASSUME NothingFails PROVE QuietNodeSpec => ImplementsHallCall
    OBVIOUS
<1>1. QuietNodeInit => QuietNodeInv /\ Abstract!Init
    BY QuietNodeInitOK
<1>2. QuietNodeInv /\ [NodeNext]_nodeVars => QuietNodeInv' /\ Abstract!Next
    BY QuietNodeNext
<1> QED BY <1>1, <1>2, PTL DEF QuietNodeSpec, ImplementsHallCall, Abstract!Spec

(* And an accepted call is over for the group only when one of its cabins  *)
(* stands at the floor with its door open: in any building, with any       *)
(* packets lost, late or repeated.                                         *)
THEOREM CallsEndAtDoors == NothingFails => (QuietNodeSpec => CallEndsAtDoor)
<1> SUFFICES ASSUME NothingFails PROVE QuietNodeSpec => CallEndsAtDoor
    OBVIOUS
<1>1. QuietNodeInit => QuietNodeInv
    BY QuietNodeInitOK
<1>2. QuietNodeInv /\ [NodeNext]_nodeVars =>
        /\ QuietNodeInv'
        /\ [\A h \in Hall :
                CallOf(h) = "accepted" /\ CallOf(h)' = "idle" =>
                    \E n \in Nodes : cars'[n].elev.door /\ cars[n].position = 2 * h[1]]_nodeVars
    <2> SUFFICES ASSUME QuietNodeInv, [NodeNext]_nodeVars, NEW h \in Hall, Answered(h)
                 PROVE  \E n \in Nodes : cars'[n].elev.door /\ cars[n].position = 2 * h[1]
        BY QuietNodeNext DEF Answered
    <2>1. AnsweredByEvent /\ ServedHere
        BY QuietNodeNext
    <2>2. PICK n \in Nodes : /\ phase[n] = "synced" /\ phase'[n] = "idle"
                             /\ orders[n][h].status = Confirmed
                             /\ orders'[n][h].status = Clear
        BY <2>1 DEF AnsweredByEvent
    <2> QED BY <2>1, <2>2 DEF ServedHere, Confirmed, Clear
<1> QED BY <1>1, <1>2, PTL DEF QuietNodeSpec, CallEndsAtDoor
=============================================================================

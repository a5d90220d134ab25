\* The elevator under every sequence of few orders, withdrawals, obstructions
\* and stop presses.
SPECIFICATION Spec
CONSTANTS
    kFloors = 3
    Buttons <- ThreeFloors
    ObstructAnytime = TRUE
    MaxCall = 2
    MaxWithdraw = 1
    MaxObstruct = 1
    MaxStop = 2
INVARIANTS
    TypeOK
    DoorOpenMeansStill
    DoorOpenAtFloor
    NotDrivenIntoEnd
PROPERTY
    ServedAtFloor

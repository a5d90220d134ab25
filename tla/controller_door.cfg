\* The emergency stop lets the door be opened between floors.
SPECIFICATION Spec
CONSTANTS
    kFloors = 3
    Buttons <- ThreeFloors
    ObstructAnytime = FALSE
    MaxCall = 2
    MaxWithdraw = 1
    MaxObstruct = 0
    MaxStop = 1
INVARIANT
    NoDoorBetweenFloors

\* The same with the door obstructed at any time: an idle elevator may forget
\* the order it has.
SPECIFICATION FairSpec
CONSTANTS
    kFloors = 3
    Buttons <- ThreeFloors
    ObstructAnytime = TRUE
    MaxCall = 1
    MaxWithdraw = 0
    MaxObstruct = 1
    MaxStop = 0
PROPERTY
    IdleMovesToRequest

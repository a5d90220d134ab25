\* Every order is served when nobody touches the stop button and the door is
\* obstructed only while it stands open.
SPECIFICATION FairSpec
CONSTANTS
    kFloors = 3
    Buttons <- ThreeFloors
    ObstructAnytime = FALSE
    MaxCall = 3
    MaxWithdraw = 0
    MaxObstruct = 1
    MaxStop = 0
PROPERTIES
    OrdersServed
    DoorCloses

\* Two elevators without failures and late orders: a call is kept until a door opens.
SPECIFICATION QuietNodeSpec
CONSTANTS
    kFloors = 2
    Nodes <- TwoNodes
    Hall <- DownFromOne
    Healths <- JustOk
    MaxInFlight = 1
    MaxVersion = 9
    MaxPress = 2
    MaxCrash = 0
    MaxRestart = 0
    MaxLoss = 0
    MaxLate = 0
    MaxChange = 0
PROPERTIES
    ImplementsHallCall
    CallEndsAtDoor

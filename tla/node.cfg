\* Two elevators and a call, until it is answered.
SPECIFICATION GroupSpec
CONSTANTS
    kFloors = 2
    Nodes <- TwoNodes
    Hall <- DownFromOne
    Healths <- JustHealth
    MaxInFlight = 1
    MaxVersion = 7
    MaxPress = 1
    MaxCrash = 1
    MaxRestart = 1
    MaxLoss = 0
    MaxLate = 1
    MaxChange = 1
INVARIANT
    NodeTypeOK
PROPERTIES
    AnsweredAtFloor
    CallServed
    StrandedServed
    RequestsConfirmed
    EventuallyAgree
    LampGoesOut

\* Two nodes: a call while a node crashes, restarts, loses contact or is at fault.
SPECIFICATION TroubledSpec
CONSTANTS
    up1 = up1
    Nodes <- TwoNodes
    Hall <- OneButton
    Healths <- MayFail
    MaxInFlight = 1
    MaxVersion = 6
    MaxPress = 1
    MaxCrash = 1
    MaxRestart = 1
    MaxLoss = 1
    MaxLate = 1
    MaxChange = 1
INVARIANTS
    TypeOK
    WatchdogGuardsActive
    NeverAborts
    ConfirmedNamesNode
PROPERTIES
    OrdersOnlyGrow

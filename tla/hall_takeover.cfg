\* Three elevators: the one an order was handed to has just died.
SPECIFICATION TakenOverFairSpec
CONSTANTS
    up1 = up1
    Nodes <- ThreeNodes
    Hall <- OneButton
    Healths <- Healthy
    MaxInFlight = 1
    MaxVersion = 12
    MaxPress = 0
    MaxCrash = 0
    MaxRestart = 0
    MaxLoss = 1
    MaxLate = 1
    MaxChange = 0
INVARIANTS
    AloneKeepsOwnOrders
PROPERTIES
    DeadAssigneeReplaced

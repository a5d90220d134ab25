\* Two nodes without failures: a node is marked on a request it has not seen.
SPECIFICATION QuietSpec
CONSTANTS
    up1 = up1
    Nodes <- TwoNodes
    Hall <- OneButton
    Healths <- Healthy
    MaxInFlight = 1
    MaxVersion = 12
    MaxPress = 2
    MaxCrash = 0
    MaxRestart = 0
    MaxLoss = 0
    MaxLate = 0
    MaxChange = 0
INVARIANTS
    MarkedHaveSeen

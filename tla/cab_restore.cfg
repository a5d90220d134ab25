\* The cab order is the owner's, returns after a crash, and is backed up in the end.
SPECIFICATION FairSpec
CONSTANTS
    Nodes <- ThreeNodes
    Owner = 3
    MaxInFlight = 2
    MaxVersion = 6
    MaxPress = 2
    MaxCrash = 1
    MaxPeerCrash = 1
    MaxRestart = 1
INVARIANT
    TypeOK
PROPERTIES
    OwnerDecides
    CallReturns
    BackupsCatchUp

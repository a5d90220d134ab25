\* A call made right after a restart is overwritten by an old backup.  The
\* former life has two calls, so that the order does not look like one that
\* was just served.
SPECIFICATION Spec
CONSTANTS
    Nodes <- ThreeNodes
    Owner = 3
    MaxInFlight = 1
    MaxVersion = 8
    MaxPress = 3
    MaxCrash = 1
    MaxPeerCrash = 0
    MaxRestart = 1
PROPERTY
    CallPreserved

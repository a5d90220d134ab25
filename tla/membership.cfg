\* A node that crashes twice, seen by another one.
SPECIFICATION Spec
CONSTANTS
    kWatchdogTime = 6
    SampleTime = 1
    TxTime = 1
    Delay = 2
    MaxVersion = 5
    MaxLoss = 2
    MaxCrash = 2
INVARIANTS
    TypeOK
    ForgottenBeforeReturn
    NeverShadowed
    SeenWhenRunning

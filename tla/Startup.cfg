SPECIFICATION Spec
CONSTANTS
    PingTimeout = 2
    SleepFloor = 2
    MountWait = 1
    MaxToken = 2
    MaxTime = 6
INVARIANTS
    TypeOK
    TokenWired
    FailedMountNotAnnounced
    OrderlyExit
PROPERTIES
    SignalEndsProgram
CHECK_DEADLOCK FALSE

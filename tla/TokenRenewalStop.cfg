SPECIFICATION Spec
CONSTANTS
    main = main
    Controllers <- MCOne
    Reauth = TRUE
    Lease = 4
    Grants = {1, 4}
    MinSleep = 1
    HttpTimeout = 1
    MaxStarts = 2
    MaxTime = 7
INVARIANTS
    StoppedLoopsDoNotSleep
CHECK_DEADLOCK FALSE

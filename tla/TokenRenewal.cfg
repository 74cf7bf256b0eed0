SPECIFICATION FairSpec
CONSTANTS
    main = main
    Controllers <- MCOne
    Reauth = TRUE
    Lease = 4
    Grants = {1, 4}
    MinSleep = 1
    HttpTimeout = 1
    MaxStarts = 2
    MaxTime = 7
INVARIANTS
    TypeOK
    StopReachesSleepers
    AtMostOneLateRenewal
    NeverExpires
PROPERTIES
    StopEndsLoop
CHECK_DEADLOCK FALSE

SPECIFICATION FairSpec
CONSTANTS
    main = main
    t1 = t1
    t2 = t2
    NoThread = NoThread
    Main = main
    Threads <- MCThreads
    Files <- MCFiles
    Sources <- MCSources
    Absent <- MCAbsent
    Broken <- MCBroken
    MaxVersion = 4
    MaxReloads = 2
INVARIANTS
    TypeOK
    DecisionsNotOlder
    ReloadTakesEffect
    OnlyCompiledPolicies
    FallbackOnlyIfChanged
PROPERTIES
    CallsReturn
CHECK_DEADLOCK FALSE

SPECIFICATION LoginFairSpec
CONSTANTS
    f1 = f1
    f2 = f2
    c1 = c1
    c2 = c2
    c3 = c3
    NoFlow = NoFlow
    Flows <- MCFlows
    Callbacks <- MCCallbacks
INVARIANTS
    LoginTypeOK
    ResultsOfOwnServer
    SuccessLostOnlyToRace
PROPERTIES
    FlowsEnd
CHECK_DEADLOCK FALSE

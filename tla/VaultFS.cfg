SPECIFICATION Spec
CONSTANTS
    p1 = p1
    p2 = p2
    secret = secret
    plain = plain
    injected = injected
    Procs <- MCOne
    VaultPaths <- MCSecret
    FilePaths <- MCPlain
    InjectedPaths <- MCInjected
    Injections <- MCInjections
    InText <- MCInText
    FieldCount <- MCShrinks
    FileLength = 4
    Buffer = 3
    Placeholder = 5
    MaxVersion = 2
    MaxDecisions = 3
INVARIANTS
    TypeOK
    RevocationTakesEffect
    OneRecordPerAnswer
    WholeReads

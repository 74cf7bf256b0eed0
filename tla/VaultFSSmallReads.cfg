SPECIFICATION Spec
CONSTANTS
    p1 = p1
    p2 = p2
    secret = secret
    plain = plain
    injected = injected
    Procs <- MCOne
    VaultPaths <- MCSecret
    FilePaths <- MCNone
    InjectedPaths <- MCNone
    Injections <- MCNoInjections
    InText <- MCInTextOfOne
    FieldCount <- MCThreeFields
    FileLength = 4
    Buffer = 1
    Placeholder = 5
    MaxVersion = 1
    MaxDecisions = 0
INVARIANTS
    SecretReadsWhole

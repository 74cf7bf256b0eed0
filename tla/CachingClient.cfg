SPECIFICATION Spec
CONSTANTS
    p1 = p1
    p2 = p2
    a = a
    b = b
    mounts = mounts
    Callers <- MCCallers
    Paths <- MCPaths
    MountTable = mounts
    Requests <- MCTwoKeys
    Tombstones <- MCTombstones
    TTL = 1
    CallTimeout = 1
    MaxVersion = 2
    MaxTime = 3
SYMMETRY MCSymmetry
INVARIANTS
    TypeOK
PROPERTIES
    ServedNotTooOld
    ContractSpec
    NoRegressionPastBegin

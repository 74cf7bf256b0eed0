SPECIFICATION Spec
CONSTANTS
    p1 = p1
    p2 = p2
    kv = kv
    x = x
    y = y
    Root = Root
    Nowhere = Nowhere
    Callers <- MCCallers
    Mounts <- MCMounts
    Paths <- MCPaths
    Requests <- MCRequests
    MaxChanges = 2
SYMMETRY MCSymmetry
INVARIANTS
    TypeOK
    PathExistsSound
    RootIsASnapshot

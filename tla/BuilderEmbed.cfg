SPECIFICATION Spec
CONSTANTS
    b1 = b1
    b2 = b2
    shared = shared
    other = other
    v100 = v100
    v101 = v101
    acme = acme
    custom = custom
    None = None
    Local = Local
    Builds <- MCOneBuild
    Configs <- MCConfigs
    Dirs <- MCDirs
    DefaultOut = shared
    Series <- MCSeries
INVARIANTS
    EmbeddedPolicyIsThere
CHECK_DEADLOCK FALSE

SPECIFICATION Spec
CONSTANTS
    Paths <- MCPaths
    Configs <- MCConfigs
    RealPaths <- MCRealPaths
    LinkPlaces <- MCLinkPlaces
    Mounts <- MCMounts
    Secrets <- MCSecrets
INVARIANTS
    TypeOK
    ListedNamesAreFound
    FoundNamesAreListed
    MappingsAreReachable
    AllMappingsOrNone

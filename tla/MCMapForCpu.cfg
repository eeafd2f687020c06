CONSTANTS
    a53 = a53
    a72 = a72
    unlisted = unlisted
    Cpus = {0, 1}
    FirstCpu = 0
    Ids <- MCIds
    NoId = NoId
    NumRows = 3
    Matching <- MCMatching
    NoMap = NoMap

SPECIFICATION Spec

INVARIANT TypeOK
INVARIANT SearchCacheSound
PROPERTY ImplementsLookup

CONSTANTS
    Dash = Dash
    Comma = Comma
    Newline = Newline
    NoText = NoText
    NoMap = NoMap
    NoId = NoId
    a53 = a53
    a72 = a72
    BufLen = 3
    ChunkLen = 2
    GrowBy = 2
    Limit = 30
    Cpus <- MCCpus
    Decimal <- MCDecimal
    OnlineRuns <- MCOnlineRuns
    Midr <- MCMidr
    Asked <- MCAsked
    MaxPlugs = 2
    MaxFaults = 1

SPECIFICATION Spec

INVARIANT TypeOK
INVARIANT NothingLost
INVARIANT MapIsOnlineList
INVARIANT IdentityFound
INVARIANT OnlyIdKept

CHECK_DEADLOCK FALSE

CONSTANTS
    Backslash = 92
    Upper = 66
    Lower = 97
    MaxGroups = 4
    Names <- MCNames
    GroupSets <- MCGroupSets

SPECIFICATION FairGroupSpec

INVARIANT FoundUnlessExtended
INVARIANT StaysInInterval
PROPERTY SearchEnds

CHECK_DEADLOCK FALSE

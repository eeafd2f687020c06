CONSTANTS
    W = 4
    event_ = event_
    umask = umask
    inv = inv
    Keys = {event_, umask, inv}
    Period = period
    Types = {6, 7}
    NotANumber = NotANumber
    Malformed = Malformed
    Absent = Absent
    MaxTerms = 3
    MaxPlugs = 2
    MaxRanges = 3
    Lists <- MCLists
    Formats <- MCFormats
    Events <- MCEvents
    Attrs <- MCAttrs

SPECIFICATION EitherSpec

INVARIANT AttrMatchesPrefix
INVARIANT DriverReadsBack
INVARIANT ZeroIffResolvable
INVARIANT HeapBalanced
INVARIANT OutsideUntouched
INVARIANT LastRangeDecides
INVARIANT ValueReadsBack

CHECK_DEADLOCK FALSE

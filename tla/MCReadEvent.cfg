CONSTANTS
    cpu = cpu
    unc0 = unc0
    unc1 = unc1
    cycles = cycles
    clockticks = clockticks
    filtered = filtered
    unknown = unknown
    Devices = {cpu, unc0, unc1}
    Entries <- MCEntries
    Names = {cycles, clockticks, filtered, unknown}
    Types = {4, 9, 10}
    Absent = Absent
    NoEvent = NoEvent
    MaxPlugs = 2
    MaxFailures = 1

SPECIFICATION FairSpec

INVARIANT CountersAsAsked
INVARIANT ReleasedOnExit
PROPERTY StopsAfterSigterm

CHECK_DEADLOCK FALSE

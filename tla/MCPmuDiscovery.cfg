CONSTANTS
    NoFile = NoFile
    Devices <- MCDevices
    Table <- MCTable
    DefaultCore <- Core
    CpuDevice <- Cpu
    Numerals <- MCNumerals
    FileSets <- MCFileSets
    Onlines <- MCOnlines
    MapFound = {TRUE, FALSE}
    MaxPlugs = 1
    MaxFailures = 1

SPECIFICATION FairSpec

INVARIANT StableDevicesFound
INVARIANT InstancesAreGenuine
INVARIANT CpusAsPublished
INVARIANT HeapIsReachable
PROPERTY CallReturns

CHECK_DEADLOCK FALSE

CONSTANTS
    NoFile = NoFile
    Devices <- MCDevices
    Table <- MCTable
    DefaultCore <- Core
    CpuDevice <- Cpu
    Numerals <- MCNumerals
    FileSets <- MCFileSets
    Onlines <- MCOnlines
    MapFound = {TRUE, FALSE}
    MaxPlugs = 0
    MaxFailures = 0

SPECIFICATION Spec

INVARIANT CpuStandsAlone

CHECK_DEADLOCK FALSE

SPECIFICATION FairSpec
CONSTANTS
    HalfBytes = 1
    ImemBase = 32
    BootEnd = 64
    SramBase = 512
    SramEnd = 520
    Depth = 3
    PrintTime = 2
    Files <- MCFiles
    MaxAttempts = 2
    MaxFaults = 1
PROPERTIES ProbeNondestructive
CHECK_DEADLOCK FALSE

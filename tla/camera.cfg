CONSTANTS
    Width = 3
    Regions <- MCRegions
    Streams = {"dvs", "aps", "imu"}
    HotLists <- MCHotLists
    SaturatedSets <- MCSaturated
    Slots = 2
    QueueSize = 1
    FlushTime = 2
    MaxFaults = 1
    MayLose = TRUE
SPECIFICATION FairSpec
INVARIANTS
    TypeOK
    FilterExact
    StreamsAsAsked
PROPERTIES
    FramesRepaired
    FlushReturns

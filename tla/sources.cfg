CONSTANTS
    TextBlock = 2
    TextChunk = 2
    MaxBytes = 6
    H5Block = 2
    H5Chunk = 4
    MaxEvents = 9
    MaxFaults = 2
SPECIFICATION FairSpec
INVARIANTS
    TypeOK
PROPERTIES
    TextIsSource
    HDF5IsSource
    ReadReturns

CONSTANTS
    FileLen = 3
    Rois <- MCRois
    Transforms = {identity, scaled}
    Identity = identity
    Block = 2
    MinCapacity = 2
    Asks = {3}
    Levels = {1, 3}
    MaxReadFaults = 0
    StartMayFail = FALSE
SPECIFICATION FairSpec
INVARIANTS
    InOrder
    NothingLost
PROPERTIES
    StreamSpec
    CallsReturn
    PrefetchFills

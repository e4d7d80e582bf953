CONSTANTS
    FileLen = 3
    Rois <- OneRoi
    Transforms = {identity}
    Identity = identity
    Block = 2
    MinCapacity = 2
    Asks = {1, 2}
    Levels = {0, 2}
    MaxReadFaults = 1
    StartMayFail = FALSE
SPECIFICATION Spec
INVARIANTS
    InOrder

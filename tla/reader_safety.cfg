CONSTANTS
    FileLen = 5
    Rois <- OneRoi
    Transforms = {identity}
    Identity = identity
    Block = 2
    MinCapacity = 2
    Asks = {0, 3}
    Levels = {0, 1, 3}
    MaxReadFaults = 1
    StartMayFail = TRUE
SPECIFICATION Spec
INVARIANTS
    TypeOK
    SingleProducer
    PushFits
    FinishedMeansAll
PROPERTIES
    EventsDelivers
    LevelBound

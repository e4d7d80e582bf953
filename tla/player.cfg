CONSTANTS
    EventTimes <- MCEvents
    FrameTimes <- MCFrames
    SampleTimes <- MCSamples
    Speeds = {1, 2}
    Levels = {0, 1, 3}
    Batch = 2
    MaxGap = 2
    MaxLoops = 2
SPECIFICATION FairSpec
INVARIANTS
    TypeOK
    EventsUpToPlayhead
    SensorsUpToPlayhead
    StartsAtFirstEvent
PROPERTIES
    NextReturns

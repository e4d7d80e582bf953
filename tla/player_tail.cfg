CONSTANTS
    EventTimes <- MCEvents
    FrameTimes <- MCFrames
    SampleTimes <- MCSamples
    Speeds = {1}
    Levels = {0, 3}
    Batch = 2
    MaxGap = 2
    MaxLoops = 2
SPECIFICATION Spec
PROPERTIES
    PassDeliversSamples

CONSTANTS
    FrameBytes = 2
    ChunkBytes = 2
    RingCapacity = 3
    QueueCapacity = 2
    PipeCapacity = 4
    MaxSamples = 6
    MaxRuns = 1
    SilenceMs = 40
SPECIFICATION FairSpec
INVARIANTS
    NoOverflow
    FramesAreWholeSamples
    SegmentationCorrect
    AnsweredInOrder
PROPERTIES
    ShutdownTerminates
    ChildDeathStops
    UtterancesAnswered
    CallsSpec
CHECK_DEADLOCK FALSE

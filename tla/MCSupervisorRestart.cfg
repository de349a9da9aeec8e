CONSTANTS
    FrameBytes = 2
    ChunkBytes = 6
    RingCapacity = 6
    QueueCapacity = 1
    PipeCapacity = 8
    MaxSamples = 6
    MaxRuns = 3
    SilenceMs = 20
SPECIFICATION Spec
INVARIANTS
    TypeOK
    PostedIsUtterance
    NoLeftover
    LeftoversBounded
    InOrderOrDropped
CHECK_DEADLOCK FALSE

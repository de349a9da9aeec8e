CONSTANTS
    FrameBytes = 2
    ChunkBytes = 2
    RingCapacity = 3
    QueueCapacity = 2
    PipeCapacity = 4
    MaxSamples = 2
    MaxRuns = 1
    SilenceMs = 20
SPECIFICATION Spec
INVARIANTS
    TemporaryArtifacts
CHECK_DEADLOCK FALSE

CONSTANTS
    Pids = {1, 2}
    PipeCapacity = 2
    MaxPolls = 2
    MaxSignals = 1
    FcntlFails = TRUE
    MaxPlayPolls = 2
SPECIFICATION FairPlaySpec
INVARIANTS
    HandleIsOwnChild
    InactiveHoldsNothing
    PlayTypeOK
    NoAplayLeft
    TimeoutSignalsAplay
    OkMeansPlayed
PROPERTIES
    StopReturns
    PlayReturns
    CaptureSpec

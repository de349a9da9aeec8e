CONSTANTS
    Pids = {1, 2}
    PipeCapacity = 2
    MaxPolls = 2
    MaxSignals = 1
    FcntlFails = FALSE
SPECIFICATION Spec
INVARIANT NoZombie

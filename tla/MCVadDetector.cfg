CONSTANTS
    SilenceMs = 50
    Durations <- MCDurations
    MaxFrames = 6
SPECIFICATION Spec
INVARIANTS
    TypeOK
    EventsMatchReference

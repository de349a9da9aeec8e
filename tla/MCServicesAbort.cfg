CONSTANTS
    ValueMax = 10
    ModeMax = 6
    Pieces <- MCPieces
    Files <- MCFiles
    PromptMax = 2
    FirstCapacity = 2
    TranscriptMax = 3
    ResponseMax = 4
    SttTimeout = 2
    LlmTimeout = 2
    MayWire = FALSE
    MaxBody = 5
SPECIFICATION FairSpec
INVARIANTS
    AbortsPromptly
CHECK_DEADLOCK FALSE

CONSTANTS
    ValueMax = 10
    ModeMax = 6
    Pieces <- MCPieces
    Files <- MCFiles
    PromptMax = 2
    FirstCapacity = 2
    TranscriptMax = 3
    ResponseMax = 4
    SttTimeout = 2
    LlmTimeout = 2
    MayWire = TRUE
    MaxBody = 5
SPECIFICATION FairSpec
INVARIANTS
    TypeOK
    StringsFit
    NothingLeaks
    RequestsAreReady
    StopDelayed
    PlainFilesAreRead
PROPERTIES
    CallsSpec
CHECK_DEADLOCK FALSE

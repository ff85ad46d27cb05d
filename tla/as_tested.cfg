SPECIFICATION SafetySpec
CHECK_DEADLOCK FALSE
CONSTANTS
    QueueRoom = 2
    AudioMayFail = TRUE
    Languages <- MCLanguages
    LateAnswers = FALSE
    EmptyResults = TRUE
    English = "en"
    Supported <- MCLanguages
    FirstLanguage = "ta"
    MaxSessions = 2
    ChunkSize = 0
    Driver = "tests"
    HostNavigates = FALSE
    PromptQueue = FALSE
INVARIANTS
    EndedIsClean
    SessionIsBounded

SPECIFICATION SafetySpec
CHECK_DEADLOCK FALSE
CONSTANTS
    QueueRoom = 2
    AudioMayFail = FALSE
    Languages <- MCLanguages
    LateAnswers = FALSE
    EmptyResults = FALSE
    English = "en"
    Supported <- MCLanguages
    FirstLanguage = "en"
    MaxSessions = 2
    ChunkSize = 0
    Driver = "app"
    HostNavigates = FALSE
    PromptQueue = FALSE
INVARIANT NoStreamOutsideSession

SPECIFICATION SafetySpec
CHECK_DEADLOCK FALSE
CONSTANTS
    QueueRoom = 2
    AudioMayFail = TRUE
    Languages <- MCLanguages
    LateAnswers = FALSE
    EmptyResults = FALSE
    English = "en"
    Supported <- MCLanguages
    FirstLanguage = "ta"
    MaxSessions = 3
    ChunkSize = 1
    Driver = "app"
    HostNavigates = FALSE
    PromptQueue = TRUE
INVARIANTS
    TypeOK
    DeliversLiveTranscript
    DeliversOwnAudio
    NoStreamOutsideSession
    StreamUsesSelectedLanguage

SPECIFICATION SafetySpec
CHECK_DEADLOCK FALSE
CONSTANTS
    QueueRoom = 2
    AudioMayFail = TRUE
    Languages <- MCLanguages
    LateAnswers = TRUE
    EmptyResults = FALSE
    English = "en"
    Supported <- MCLanguages
    FirstLanguage = "ta"
    MaxSessions = 2
    ChunkSize = 1
    Driver = "app"
    HostNavigates = TRUE
    PromptQueue = FALSE
INVARIANTS
    IInv
    MicrophoneOnlyInSession
    SessionIsBounded
    DeliveredAtMostOnce
    CancelIsFinal
    SilenceFollowsSpeech
    OneOpenStream
PROPERTIES
    LanguageFixedInSession

SPECIFICATION Spec
CONSTANTS
    QueueRoom = 2
    AudioMayFail = FALSE
    Languages <- MCLanguages
    LateAnswers = TRUE
    EmptyResults = FALSE
    English = "en"
    Supported <- MCLanguages
    FirstLanguage = "ta"
    MaxSessions = 2
    ChunkSize = 1
    Driver = "app"
    HostNavigates = FALSE
    PromptQueue = FALSE
INVARIANTS
    EndedIsClean
    LabelShowsTranscript
    DeliversOnlyWhileListening
PROPERTIES
    KeepsContract

SPECIFICATION Spec
CHECK_DEADLOCK FALSE
CONSTANTS
    MaxRecordings = 2
    MaxSetups = 2
    Screens = {"root", "result"}
    MaxSessions = 3
    AudioMayFail = TRUE
INVARIANTS
    AssistantTypeOK
    OnlyFirstUnitTraps
    MicrophoneFollowsSession
    StreamBelongsToSession
    TouchesReachLatest
    RecordingsAreSessions
    LoggedIsStored
PROPERTIES
    EverySessionEnds

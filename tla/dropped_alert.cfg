SPECIFICATION SafetySpec
CHECK_DEADLOCK FALSE
CONSTANTS
    MaxRecordings = 2
    MaxSetups = 1
    Screens = {"root"}
    MaxSessions = 2
    AudioMayFail = FALSE
INVARIANTS
    EveryUploadIsAnnounced

SPECIFICATION SafetySpec
CHECK_DEADLOCK FALSE
CONSTANTS
    MaxRecordings = 1
    MaxSetups = 1
    Screens = {"root"}
    MaxSessions = 1
    AudioMayFail = FALSE
INVARIANTS
    SuccessMeansStored

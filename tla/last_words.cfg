SPECIFICATION SafetySpec
CHECK_DEADLOCK FALSE
CONSTANTS
    MaxAnswers = 1
    MaxWrites = 3
    CallMayFail = FALSE
    BadAnswers = FALSE
INVARIANTS
    AudioPrecedesClose

SPECIFICATION Spec
CHECK_DEADLOCK FALSE
CONSTANTS
    MaxAnswers = 2
    MaxWrites = 3
    CallMayFail = TRUE
    BadAnswers = TRUE
INVARIANTS
    StreamTypeOK
    NoBatchRefused
    SentInOrder
    NothingFollowsClose
    SuspendedOnce
    PauseIsPaidBack
    OneResponseInFlight
    SuccessIsComplete
PROPERTIES
    ErrorOvertakes
    WritesFlow
    StopIsSent
    EndIsTold
    RefinesService

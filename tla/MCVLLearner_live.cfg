CONSTANTS
    Parties = {p1, p2}
    MaxRound = 1
    MaxFaults = 0
    Unreliable = {}
    Errors = FALSE
    Lags = FALSE
    LateStart = FALSE
SPECIFICATION FairSpec
PROPERTY TrainingSucceeds
CHECK_DEADLOCK FALSE

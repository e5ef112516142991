CONSTANTS
    Parties = {p1, p2}
    MaxRound = 1
    MaxFaults = 1
    Unreliable <- Delayed
    Errors = TRUE
    Lags = TRUE
    LateStart = FALSE
SPECIFICATION Spec
SYMMETRY Perms
INVARIANTS
    InputsPresent
    DataOfRound
    ModelsAgree
CHECK_DEADLOCK FALSE

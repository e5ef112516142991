CONSTANTS
    Den = 2
    KeyN = 1000003
    PosClass = "yes"
    NegClass = "non"
    Threshold = 2
    FoldNumbers = {2, 3}
    MaxDepth = 4
    Prime = 7
    Order = 7
    BlockSize = 2
    PerDay = 4
    HealthDays = 2
    MaxClock = 15
    MaxRequests = 1
    MaxBreaks = 2
SPECIFICATION AlgorithmSpec
INVARIANT ReadRestores
CHECK_DEADLOCK FALSE

CONSTANTS
    Executors = {p1, p2}
    TagPart = p1
    K = 2
    MaxFailures = 2
    Tag = 1
    Twice <- MCTwice
    MaxFaults = 1
    SendTimes = 3
    MaxPredictFaults = 1
SPECIFICATION ProtocolSpec
INVARIANTS
    EvaluationSound SharesSound OkMeansDelivered
PROPERTY TasksAnswered
CHECK_DEADLOCK FALSE

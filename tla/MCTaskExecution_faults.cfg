CONSTANTS
    e1 = e1
    e2 = e2
    t1 = t1
    t2 = t2
    Tasks = {t1, t2}
    Executors = {e1, e2}
    DataIds = {d1}
    Results = {fileId}
    Failures = {failed}
    Empty = Empty
    MaxDataSets = 2
    PredictTasks = {t2}
    ModelTask <- T2PredictsWithT1
    LabelHolder = e1
    TrainTaskLimit = 1
    PredictTaskLimit = 1
    MaxStarts = 2
    MaxCrashes = 1
    MaxTroubles = 1
    MaxChainErrors = 0
SPECIFICATION FaultSpec
INVARIANTS
    ConsentBeforeUse
    FinishedIsBacked
    ProcessingIsWatched
CHECK_DEADLOCK FALSE

CONSTANTS
    e1 = e1
    e2 = e2
    t1 = t1
    t2 = t2
    Tasks = {t1}
    Executors = {e1, e2}
    DataIds = {d1}
    Results = {fileId}
    Failures = {failed}
    Empty = Empty
    MaxDataSets = 2
    PredictTasks = {}
    ModelTask <- NoPrediction
    LabelHolder = e1
    TrainTaskLimit = 1
    PredictTaskLimit = 1
    MaxStarts = 2
    MaxCrashes = 1
    MaxTroubles = 1
    MaxChainErrors = 1
SPECIFICATION LiveSpec
PROPERTIES
    ProcessingEnds
    PoolIsReleased
CHECK_DEADLOCK FALSE

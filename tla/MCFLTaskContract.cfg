CONSTANTS
    Tasks = {t1, t2}
    Executors = {e1, e2}
    DataIds = {d1, d2}
    Results = {fileId}
    Failures = {timeout}
    Empty = Empty
    MaxDataSets = 2
SYMMETRY Perms
SPECIFICATION Spec
INVARIANTS
    TypeOK
    StatusAgreesWithAnswers
    TimesAgreeWithStatus
PROPERTY AnswersAreFinal
CHECK_DEADLOCK FALSE

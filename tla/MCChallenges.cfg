CONSTANTS
    n1 = n1
    n2 = n2
    n3 = n3
    Nodes <- MCNodes
    Slices <- MCSlices
    Placed <- MCPlaced
    Joining = {n2}
    Expiry = 1
    NewExpiry = {2}
    Retain = 1
    MaxIndexNum = 2
    PerDay = 1
    HealthDays = 1
    MaxTime = 3
    MaxChallenges = 2
    MaxMoves = 1
    MaxFaults = 1
SPECIFICATION Spec
INVARIANTS MaterialLasts HonestNotRed
PROPERTIES ImplementsStorageProof CoveredStays AnswerableIsJudged
CHECK_DEADLOCK FALSE

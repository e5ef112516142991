CONSTANTS
    t1 = t1
    t2 = t2
    f1 = f1
    f2 = f2
    Files = {f1, f2}
    Names = {name}
    Name = name
    Namespaces = {ns1}
    Ns = ns1
    Nodes = {n1, n2}
    Slices = {1, 2}
    Retain = 1
    MaxReplica = 1
    MaxTime = 3
    Tasks = {t1, t2}
    TaskFile <- MCTaskFile
    Expiries = {1, 3}
    MaxAuths = 2
    MaxMoves = 1
    MaxFaults = 1
SPECIFICATION Spec
INVARIANTS
    OneFilePerName
    AuthorizationsSound
    NewestInForce
PROPERTIES
    FailureExplained
CHECK_DEADLOCK FALSE

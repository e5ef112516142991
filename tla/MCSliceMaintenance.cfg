CONSTANTS
    Files = {f}
    F = f
    Names = {name}
    Name = name
    Namespaces = {ns1}
    Ns = ns1
    Nodes = {n1, n2, n3}
    Slices = {1, 2}
    Retain = 1
    MaxReplica = 2
    MaxTime = 2
    InitReplica = 1
    Expiry = 1
    NewExpiry = {2}
    MaxEvents = 1
SYMMETRY Perms
SPECIFICATION Spec
INVARIANTS
    ListedIsStored
    SlicesWellIndexed
    ReplicasKept
    HealthReportTrue
CHECK_DEADLOCK FALSE

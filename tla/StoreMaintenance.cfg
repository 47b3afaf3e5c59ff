SPECIFICATION Spec
CONSTANTS
    reference = reference
    review = review
    p1 = p1
    p2 = p2
    Stores <- BothStores
    Pruned = review
    Processes <- MCProcesses
    Nobody = Nobody
    Latest = 1
    KeepCount = 1
    MaxTime = 2
    MaxFiles = 1
SYMMETRY Symmetric
INVARIANTS
    TypeOK
    Recoverable
    BackupsServe
PROPERTIES
    RecentAreKept
    RefusedForAReason

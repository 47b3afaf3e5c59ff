SPECIFICATION Spec
CONSTANTS
    ann = ann
    bob = bob
    s1 = s1
    s2 = s2
    r1 = r1
    r2 = r2
    reviewer = reviewer
    review_admin = review_admin
    Actors = {ann}
    NoActor = NoActor
    Roles = {reviewer}
    NoRole = NoRole
    Sessions = {s1, s2}
    NoSession = NoSession
    Requests = {r1, r2}
    TicksPerSecond = 2
    TtlSeconds = 1
    RetentionSeconds = {0, 1}
    MaxTime = 3
    MaxEdits = 1
SYMMETRY Symmetric
INVARIANTS
    TypeOK
    FreshAuthority
    RotationLocksOut
PROPERTIES
    PrunedAreOver

SPECIFICATION FairSpec
CONSTANTS
    sha1 = sha1
    sha2 = sha2
    op1 = op1
    Digests = {sha1, sha2}
    NoDigest = NoDigest
    Operators = {op1}
    Job = Job
    Nobody = Nobody
    RetentionDays = 1
    TicksPerDay = 2
    MaxTime = 2
    MaxFailures = 1
INVARIANTS
    TypeOK
    ObjectsFollowEntries
    EvidenceKept
PROPERTIES
    EntriesOnlyDecided
    ExpiredAreDecided

SPECIFICATION FairSpec
CONSTANTS
    sha1 = sha1
    sha2 = sha2
    op1 = op1
    Digests = {sha1}
    NoDigest = NoDigest
    Operators = {op1}
    Job = Job
    Nobody = Nobody
    RetentionDays = 1
    TicksPerDay = 1
    MaxTime = 0
    MaxFailures = 1
PROPERTIES
    TombstoneBytesGo

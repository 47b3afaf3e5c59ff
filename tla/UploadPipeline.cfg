SPECIFICATION FairSpec
CONSTANTS
    Severity = {"low", "high"}
    Requests = {r1, r2}
    Commands = {tess}
    Tess = tess
    Environments <- MCEnvironments
    NoCommand = NoCommand
    DefaultCommand = tesseract
    Nobody = Nobody
    Workers = 2
    ImageBudget = 2
    MaxImage = 2
    MaxPages = 2
    MaxFindings = 2
    MaxCancels = 1
INVARIANT TypeOK
PROPERTY EveryRequestEnds
INVARIANT FailsClosed
INVARIANT ScansAccounted
INVARIANT ResourcesRestored
INVARIANT ResultGrounded

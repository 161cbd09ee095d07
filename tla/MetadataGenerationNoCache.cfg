CONSTANTS
    u = u
    d = d
    Table = {u, d}
    Upstream <- MCUpstream
    Enriched = {u}
    Version <- MCVersion
    Reply <- MCReply
    Attempts = 2
    NTarget = 2
    NObsolete = 1
    MaxVariants = 2
    MaxInvalid = 2
    MaxRuns = 3
    None = None
    Careful = FALSE
SPECIFICATION Spec
CHECK_DEADLOCK FALSE
PROPERTIES RejectedNotReused

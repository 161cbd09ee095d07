CONSTANTS
    u = u
    d = d
    Table = {u, d}
    Upstream <- MCUpstream
    Enriched = {u}
    Version <- MCVersion
    Reply <- MCReply
    Attempts = 2
    NTarget = 2
    NObsolete = 1
    MaxVariants = 2
    MaxInvalid = 2
    MaxRuns = 2
    None = None
    Careful = TRUE
SPECIFICATION Spec
CHECK_DEADLOCK FALSE
INVARIANTS AnswersForContext PublishedIsWhole
PROPERTIES NothingPaidTwice RejectedNotReused ImplementsStore

CONSTANTS
    a = a
    b = b
    c = c
    ta = ta
    tb = tb
    tc = tc
    Job = {a, b, c}
    Table = {ta, tb, tc}
    Slice = {1, 2, 3}
    Unknown <- MCUnknown
    Empty = Empty
    Base = Base
    Plans <- MCPlans
    Parallel = 2
    BatchSize = 1
    Instant = {0, 1, 2, 3, 4}
    Day = {0, 2, 4}
    Month <- MCMonth
    None = None
    Jobs <- Twice
    Parts = {"scopes"}
SPECIFICATION MCSpec
CHECK_DEADLOCK FALSE
INVARIANTS RowsAtHand

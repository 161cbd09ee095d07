CONSTANTS
    p1 = p1
    p2 = p2
    Proc = {p1, p2}
    NoProc = NoProc
    Job = {1, 2, 3, 4}
    Upstream <- MCUpstream
    Producers <- MCProducers
    JobLists <- MCJobLists
    Gapless = TRUE
    Parallel = 2
    Dates = 2
    Patient = TRUE
    c1 = c1
    c2 = c2
    Cmd = {c1, c2}
    Facts <- MCFacts
    Written <- MCWritten
    NoFile = NoFile
    Careful = TRUE
    Parts = {"runs", "file"}
    Changes = 2
SPECIFICATION MCSpec
SYMMETRY Alike
CHECK_DEADLOCK FALSE
INVARIANTS OneWriter InputsOfSameDate
PROPERTIES OrdersKept ReadersOrdered

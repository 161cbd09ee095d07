CONSTANTS
    j1 = j1
    j2 = j2
    j3 = j3
    j4 = j4
    Job = {j1, j2, j3, j4}
    Graphs <- MCGraphs
    Rank <- MCRank
    Parallel = 2
    Months <- MCMonths
    Monday = 3
    WeekStart = 3
    Hours = 2
    Jobs <- MCJobs
    Commands <- MCCommands
    Days = {10, 16}
    None = None
    Nothing = Nothing
    Asset = {"a", "b", "c"}
    Process = {"p", "q"}
    Column = {"x", "y"}
    Task <- MCTasks
    TaskScripts <- MCScripts
    i1 = i1
    i2 = i2
    Import = {i1, i2}
    SnapshotId = {1, 2}
    LineageGraphs <- MCLineageGraphs
    EditedFiles <- MCEditedFiles
    BatchSize = 3
    Nobody = Nobody
    Internal = "internal"
    Home = "shop"
    NoDatabase = ""
    Parts = {"graphs", "dates", "lineage", "store"}
SPECIFICATION MCSpec
CHECK_DEADLOCK FALSE
INVARIANTS AsAsked LineageTellsAll SnapshotIsWhole OneActive
PROPERTIES Terminates ImplementsJobRun

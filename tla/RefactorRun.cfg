CONSTANTS
    equivalent = equivalent
    changed = changed
    Cmd = {c1, c2, c3}
    Table = {t1}
    Mode = {equivalent, changed}
    Version = {1, 2}
    History <- MCHistory
    None = None
    Separate = TRUE
    Quiet = TRUE
    File = {1, 2, 3}
    Dataset = {"t", "p", "q", "f"}
    Column = {"x", "y"}
    Script <- MCScript
    Worlds <- MCWorlds
    Absent = Absent
    Torn = Torn
    Parts = {"commands", "cache", "issues"}
    Edits = 2
    Failures = 1
    TableName = {"o", "c", "d", "s", "a", "n", "tmp", "work"}
    ColumnName = {"key", "Key", "cust", "Cust", "amt", "amount", "x", "day", "nothing"}
    DwsNamed = {"s"}
    TempNamed = {"tmp"}
    EventNamed = {"key", "Key"}
    SameColumn <- MCSame
    Unset = Unset
    NewNames = {"n"}
    Baselines <- MCBase
    DdlVersions <- MCDdl
    ModelVersions <- MCModel
    TaskVersions <- MCTask
    NamingVersions <- MCNaming
    SemanticsVersions <- MCSemantics
    SettingsVersions <- MCSettings
    MaxEdits = 2
SPECIFICATION MCSpec
SYMMETRY Commands
INVARIANTS FreshPlanIsCurrent VerdictSound CacheTransparent Converges DiffTellsAll
PROPERTIES DeclarationsKept

CONSTANTS
    Table = {1, 2, 3, 4}
    Asset <- MCAsset
    Form <- MCForm
    Identity <- MCIdentity
    Reads <- MCReads
    Job = {1, 2, 3, 4, 5}
    Writes <- MCWrites
    Namesake <- MCNamesake
    Time = {1, 2, 3, 4}
    Slices <- MCSlices
    Schedule <- MCSchedule
    Name = {1, 2, 3}
    Id = {1, 2}
    Layout = {1, 2}
    Columns = {1, 2}
    Reuse = FALSE
    Parts = {"analyze", "schema"}
    Scenes <- MCScenes
    None = None
SPECIFICATION Spec
CHECK_DEADLOCK FALSE
INVARIANTS DeclarationsApply AutomaticIsGrounded NothingEscapes TrustedOrderKept WindowsClosed PassedIsProven UsedAsDeclared OrderlyChangeAccepted

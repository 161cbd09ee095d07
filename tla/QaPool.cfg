CONSTANTS
    d1 = d1
    d2 = d2
    e1 = e1
    e2 = e2
    Exec = {e1, e2}
    Cleaner = {c1, c2}
    Table = {t1}
    Pool <- MCPool
    NoMarker = NoMarker
    Blank = Blank
    Legacy = Legacy
    Leftovers = {d1}
    Solo = TRUE
    Forced = TRUE
    Patient = TRUE
SPECIFICATION Spec
CHECK_DEADLOCK FALSE
INVARIANTS SlotExclusive VerdictOnOwnRows 
PROPERTIES NoNewOrphans OwnerKeptUntilReleased ClaimEnds ImplementsLease

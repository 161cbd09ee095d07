CONSTANTS
    d1 = d1
    d2 = d2
    e1 = e1
    e2 = e2
    Exec = {e1, e2}
    Cleaner = {c1}
    Table = {t1}
    Pool <- MCPool
    NoMarker = NoMarker
    Blank = Blank
    Legacy = Legacy
    Leftovers = {}
    Solo = TRUE
    Forced = FALSE
    Patient = FALSE
SPECIFICATION Spec
CHECK_DEADLOCK FALSE
INVARIANT SlotExclusive

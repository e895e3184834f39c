\* Two calls at a time, an edit form, failures and deletions.
SPECIFICATION SerialSpec
CONSTANTS
    Staff = {s1}
    Seeded = {}
    Tasks = {t1, t2}
    Editors = {e1}
    RecIds = {1, 2}
    DayLen = 2
    MaxTime = 2
    MayFail = TRUE
    MayDelete = TRUE
    NoRec = NoRec
    NoCall = NoCall
    NoDoc = NoDoc
    NoCounters = NoCounters
    NoTime = NoTime
    NoDraft = NoDraft
SYMMETRY Symmetric
CHECK_DEADLOCK TRUE
INVARIANTS ClosedOnItsOwnDay ShiftsBackedByCloses CountersMatchRecords
PROPERTIES HistoryFrozen ImplementsLedger

\* Two records, which may be of one key, and two overlapping synchronisations.
SPECIFICATION ConvergeSpec
CONSTANTS
    Docs = {1, 2}
    Keys = {k1}
    Times <- Seconds
    NoTime = NoTime
    NoDoc = NoDoc
    Statuses = {"checked_in", "completed"}
    LegacyRecords <- Copies
    Rows <- Pasted
    Callers = {c1, c2}
    Ops = {"sync", "fail"}
SYMMETRY Symmetric
INVARIANTS RepeatIsStable
PROPERTIES RunsConverge

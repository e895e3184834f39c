\* One record, every operation, two calls that may overlap.
SPECIFICATION SerialSpec
CONSTANTS
    Docs = {1}
    Keys = {k1}
    Times <- Seconds
    NoTime = NoTime
    NoDoc = NoDoc
    Statuses = {"checked_in", "completed"}
    LegacyRecords <- Copies
    Rows <- Pasted
    Callers = {c1, c2}
    Ops = {"sync", "punch", "correct", "import", "fail"}
SYMMETRY Symmetric
CONSTRAINT Narrow
INVARIANTS DurationFollowsTimes
PROPERTIES SyncIsConservative AuditMatchesRecord

\* A request edited by two callers at once while it is decided; four days with
\* both clock changes among them.
SPECIFICATION Spec
CONSTANTS
    ShortDay = 0
    LongDay = 1
    Staff = {s1}
    Managers = {m1}
    Editors = {e1, e2}
    Ids = {i1}
    Days = {0, 1, 2, 3}
    NoDoc = NoDoc
    Unset = Unset
    Nobody = Nobody
    NoEdit = NoEdit
SYMMETRY Symmetric
CONSTRAINT Narrow
CHECK_DEADLOCK TRUE
INVARIANTS ProperRanges DecisionsAreSigned NeverMissesConflict NeverOvercountsDays ExactBetweenChanges

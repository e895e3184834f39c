\* Deactivate, then reactivate.
SPECIFICATION MCSpec
CONSTANTS
    Ids = {d1}
    Numbers = {n1}
    Pins = {p1}
    Callers = {c1}
    Ops = {"reset", "toggle"}
    MaxHashes = 3
    None = None
CHECK_DEADLOCK FALSE
SYMMETRY Symmetric
PROPERTY ReactivationRestoresAccess

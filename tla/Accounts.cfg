\* Two calls that may overlap, every operation.
SPECIFICATION MCSpec
CONSTANTS
    Ids = {d1, d2}
    Numbers = {n1, n2}
    Pins = {p1, p2}
    Callers = {c1, c2}
    Ops = {"setup", "create", "change", "signIn", "reset", "default", "edit", "add", "delete", "toggle", "profile"}
    MaxHashes = 2
    None = None
SYMMETRY Symmetric
CONSTRAINT Narrow
INVARIANTS NeverMissesSettled PinsCanBeTyped
PROPERTIES NoSecondAccount MigrationKeepsPin

\* Two staff, two roles, two screens, PINs of two digits.
SPECIFICATION FairSpec
CONSTANTS
    Staff = {s1, s2}
    Roles = {staff, manager}
    StaffRole = staff
    None = None
    Screens = {x1, x2}
    PinLength = 2
    MaxOpened = 2
    MaxChanges = 1
CHECK_DEADLOCK FALSE
INVARIANTS SessionOfLogin
PROPERTIES SubmittedOnce KeypadRecovers

\* Logins and logouts of two staff; two calls that may overlap; three streams.
SPECIFICATION Spec
CONSTANTS
    Staff = {s1, s2}
    FirstStaff = s1
    Kept = {"staff", "today", "current"}
    Tasks = {t1, t2}
    MaxSubs = 7
    Nobody = Nobody
    NoSub = NoSub
SYMMETRY Symmetric
CHECK_DEADLOCK FALSE
INVARIANTS FollowsSession NeverDeaf LogoutRecovers

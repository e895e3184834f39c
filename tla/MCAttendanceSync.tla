---------------------------- MODULE MCAttendanceSync ----------------------------
(* Attendance records and their legacy copies on small sets: legacy records   *)
(* with other times, another duration, another status, or an open shift.      *)
EXTENDS AttendanceSync, TLC

Seconds == {0, 120, 300}

LegacyOf(k, ci, co, dur, s) == [key |-> k, checkIn |-> ci, checkOut |-> co, duration |-> dur, status |-> s]

Copies == {LegacyOf(k, ci, co, dur, "completed") :
              k \in Keys, ci \in {0, 120}, co \in {120, 300}, dur \in {0, 3, 5}}
            \cup {LegacyOf(k, 120, NoTime, 0, "checked_in") : k \in Keys}

\* Rows edited by hand: a duration that does not fit, a check-out before the
\* check-in, a shift opened again.
Pasted == {LegacyOf(k, 0, 120, 5, "completed") : k \in Keys}
            \cup {LegacyOf(k, 300, 120, -3, "completed") : k \in Keys}
            \cup {LegacyOf(k, 120, NoTime, 0, "checked_in") : k \in Keys}

\* Synchronisations alone, as the convergence theorem assumes (Ops).
ConvergeNext == \E c \in Callers : SyncStep(c)
ConvergeSpec == Init /\ [][ConvergeNext]_vars

Symmetric == Permutations(Callers)
=============================================================================

--------------------------- MODULE AttendanceSerial ---------------------------
(***************************************************************************)
(* The attendance core with the counters of a staff document compared with *)
(* its records.  Two history variables: disturbed tells whether a call has *)
(* failed, an edit form was opened or a staff document was deleted, and    *)
(* overlapped whether two calls were ever in flight at a time.             *)
(***************************************************************************)
EXTENDS MCAttendance, FiniteSetsExt

VARIABLES disturbed, overlapped

Disturbs ==
    \/ \E t \in Tasks : CallFails(t)
    \/ \E e \in Editors, s \in Staff : OpenForm(e, s)
    \/ \E s \in Staff : DeleteStaff(s)

SerialInit == Init /\ disturbed = FALSE /\ overlapped = FALSE
SerialNext ==
    /\ Next
    /\ disturbed' = (disturbed \/ Disturbs)
    /\ overlapped' = (overlapped \/ Cardinality(InFlight') > 1)
SerialSpec == SerialInit /\ [][SerialNext]_<<vars, disturbed, overlapped>>

-----------------------------------------------------------------------------

Closed(s)    == {r \in Stored : records[r].staff = s /\ ~Open(r)}
Durations    == [r \in Stored |-> records[r].duration]
HoursOf(s)   == SumFunctionOnSet(Durations, Closed(s))
Quiet        == InFlight = {}

\* As long as nothing disturbs them, calls that do not overlap keep the two
\* counters equal to what the closed records add up to, whenever no call is in
\* flight ("Update total hours worked", staff_service.dart:148).  Two check-outs
\* that read the document before either wrote it break this.
CountersMatchRecords ==
    ~disturbed /\ ~overlapped /\ Quiet => \A s \in Staff : staffDoc[s] \in Counters =>
        /\ staffDoc[s].shifts = Cardinality(Closed(s))
        /\ staffDoc[s].hours = HoursOf(s)
=============================================================================

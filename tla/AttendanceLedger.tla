--------------------------- MODULE AttendanceLedger ---------------------------
(***************************************************************************)
(* What the attendance of the app promises, with no services, queries,     *)
(* counters or calls in flight: a time sheet.  A staff member's entry is   *)
(* opened at an instant and closed at an instant of the same day; closing  *)
(* it again (two devices racing) may move its end, nothing else.           *)
(***************************************************************************)
EXTENDS Integers

CONSTANTS Staff, RecIds, Times, DayLen, Absent, NoTime

VARIABLE entry

DayOf(t) == t \div DayLen

Init == entry = [r \in RecIds |-> Absent]

PunchIn(r, s, t) ==
    /\ entry[r] = Absent
    /\ entry' = [entry EXCEPT ![r] = [staff |-> s, from |-> t, to |-> NoTime]]

PunchOut(r, t) ==
    /\ entry[r] # Absent
    /\ DayOf(t) = DayOf(entry[r].from)
    /\ entry' = [entry EXCEPT ![r].to = t]

Next ==
    \E r \in RecIds, t \in Times :
        \/ \E s \in Staff : PunchIn(r, s, t)
        \/ PunchOut(r, t)

Spec == Init /\ [][Next]_entry
=============================================================================

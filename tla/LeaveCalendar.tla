----------------------------- MODULE LeaveCalendar -----------------------------
(***************************************************************************)
(* The date arithmetic of leave requests.  The pickers return local        *)
(* midnights, and the code subtracts and shifts them by Durations, that is *)
(* by hours: on the day the clocks go forward midnight comes after 23      *)
(* hours, on the day they go back after 25.                                *)
(*                                                                         *)
(*   lib/models/leave_request.dart            totalDays                    *)
(*   lib/services/leave_request_service.dart  hasLeaveConflict             *)
(***************************************************************************)
EXTENDS Integers

CONSTANTS
    ShortDay,   \* the day that lasts 23 hours, or a day nobody asks about
    LongDay     \* the day that lasts 25 hours, or a day nobody asks about

ASSUME ClockAssumption == ShortDay \in Int /\ LongDay \in Int

\* The hour at which day d begins.
MidnightOf(d) ==
    24 * d - (IF d > ShortDay THEN 1 ELSE 0) + (IF d > LongDay THEN 1 ELSE 0)

\* Mutant: the inclusive count is taken twice.
MutantTotalDays(half, from, to) ==
    IF half THEN 1 ELSE (MidnightOf(to) - MidnightOf(from)) \div 24 + 2

\* endDate.difference(startDate).inDays + 1
TotalDays(half, from, to) ==
    IF half THEN 1 ELSE (MidnightOf(to) - MidnightOf(from)) \div 24 + 1

\* Mutant: the day the other leave begins is not part of it.
MutantOverlapTest(from, to, first, last) ==
    MidnightOf(from) < MidnightOf(last) + 24 /\ MidnightOf(to) > MidnightOf(first)

\* Mutant: the day after the other leave is a conflict.
MutantTouching(from, to, first, last) ==
    /\ MidnightOf(from) <= MidnightOf(last) + 24
    /\ MidnightOf(to) > MidnightOf(first) - 24

\* startDate.isBefore(leave.endDate + 1 day) && endDate.isAfter(leave.startDate - 1 day)
OverlapTest(from, to, first, last) ==
    /\ MidnightOf(from) < MidnightOf(last) + 24
    /\ MidnightOf(to) > MidnightOf(first) - 24

\* What a calendar says.
Steady(first, last)                == ShortDay \notin first..last /\ LongDay \notin first..last
CalendarDays(from, to)             == to - from + 1
ShareADay(from, to, first, last)   == from <= last /\ first <= to
=============================================================================

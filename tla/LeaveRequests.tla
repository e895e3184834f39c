----------------------------- MODULE LeaveRequests -----------------------------
(***************************************************************************)
(* Leave requests: the form a staff member fills in, the documents of the  *)
(* collection leaveRequests, and the service that decides and edits them.  *)
(*                                                                         *)
(*   lib/screens/staff/request_leave_screen.dart   the form                *)
(*   lib/services/leave_request_service.dart       LeaveRequestService     *)
(*   lib/models/leave_request.dart                 LeaveRequest            *)
(*                                                                         *)
(* approve, reject and cancel are single unconditional updates of a few    *)
(* fields; updateLeaveRequest reads, awaits, and then writes every field.  *)
(***************************************************************************)
EXTENDS LeaveCalendar, FiniteSets

CONSTANTS
    Staff,      \* who asks for leave, each on a device of its own
    Managers,   \* who decides
    Editors,    \* callers of updateLeaveRequest
    Ids,        \* document ids of leaveRequests
    Days,       \* the days the pickers offer
    NoDoc, Unset, Nobody, NoEdit

ASSUME LeaveAssumption ==
    /\ Days \subseteq Int
    /\ Unset \notin Int \cup [from : Days, to : Days]
    /\ Nobody \notin Managers \cup Ids

VARIABLES
    request,    \* the document behind each id, or NoDoc
    form,       \* the state of each staff member's RequestLeaveScreen
    edit        \* the updateLeaveRequest each editor is executing, or NoEdit

vars == <<request, form, edit>>

Statuses == {"pending", "approved", "rejected", "cancelled"}

Request == [staff : Staff, from : Days, to : Days, half : BOOLEAN, status : Statuses,
            approvedBy : Managers \cup {Nobody}, explained : BOOLEAN]

Form  == [from : Days \cup {Unset}, to : Days \cup {Unset}, busy : BOOLEAN,
          sent : [from : Days, to : Days] \cup {Unset}]
Blank == [from |-> Unset, to |-> Unset, busy |-> FALSE, sent |-> Unset]

Edit == [id : Ids, draft : Request, at : {"check", "write"}]

ASSUME LeaveNullsAssumption == NoDoc \notin Request /\ NoEdit \notin Edit

Stored == {i \in Ids : request[i] # NoDoc}

TypeOK ==
    /\ request \in [Ids -> Request \cup {NoDoc}]
    /\ form \in [Staff -> Form]
    /\ edit \in [Editors -> Edit \cup {NoEdit}]

Init ==
    /\ request = [i \in Ids |-> NoDoc]
    /\ form = [s \in Staff |-> Blank]
    /\ edit = [e \in Editors |-> NoEdit]

-----------------------------------------------------------------------------
(* The form *)

\* Mutant: choosing a later start keeps the end.
MutantSelectStart(s, d) ==
    /\ form' = [form EXCEPT ![s].from = d]
    /\ UNCHANGED <<request, edit>>

\* A start after the chosen end clears the end.
SelectStart(s, d) ==
    /\ d # form[s].from
    /\ form' = [form EXCEPT ![s].from = d,
                            ![s].to = IF @ # Unset /\ @ < d THEN Unset ELSE @]
    /\ UNCHANGED <<request, edit>>

\* The picker offers no day before the chosen start.
SelectEnd(s, d) ==
    /\ d # form[s].to
    /\ form[s].from # Unset => d >= form[s].from
    /\ form' = [form EXCEPT ![s].to = d]
    /\ UNCHANGED <<request, edit>>

\* The button is disabled while a submission is under way; the request is
\* built when it is pressed.
SubmitLeaveRequest(s) ==
    /\ ~form[s].busy
    /\ form[s].from # Unset /\ form[s].to # Unset
    /\ form' = [form EXCEPT ![s].busy = TRUE,
                            ![s].sent = [from |-> form[s].from, to |-> form[s].to]]
    /\ UNCHANGED <<request, edit>>

\* The document is added and the screen is popped.
AddLands(s) ==
    /\ form[s].busy
    /\ \E i \in Ids \ Stored :
          request' = [request EXCEPT ![i] =
             [staff |-> s, from |-> form[s].sent.from, to |-> form[s].sent.to,
              half |-> FALSE, status |-> "pending", approvedBy |-> Nobody,
              explained |-> FALSE]]
    /\ form' = [form EXCEPT ![s] = Blank]
    /\ UNCHANGED edit

\* The add throws: the form stays as it is, the button is enabled again.
SubmitFails(s) ==
    /\ form[s].busy
    /\ form' = [form EXCEPT ![s].busy = FALSE, ![s].sent = Unset]
    /\ UNCHANGED <<request, edit>>

-----------------------------------------------------------------------------
(* Decisions: single updates, whatever the status *)

ApproveLeaveRequest(i, m) ==
    /\ i \in Stored
    /\ request' = [request EXCEPT ![i].status = "approved", ![i].approvedBy = m]
    /\ UNCHANGED <<form, edit>>

\* Mutant: the decision is not signed.
MutantRejectUnsigned(i, m) ==
    /\ i \in Stored
    /\ request' = [request EXCEPT ![i].status = "rejected", ![i].explained = TRUE]
    /\ UNCHANGED <<form, edit>>

RejectLeaveRequest(i, m) ==
    /\ i \in Stored
    /\ request' = [request EXCEPT ![i].status = "rejected", ![i].approvedBy = m,
                                  ![i].explained = TRUE]
    /\ UNCHANGED <<form, edit>>

CancelLeaveRequest(i) ==
    /\ i \in Stored
    /\ request' = [request EXCEPT ![i].status = "cancelled"]
    /\ UNCHANGED <<form, edit>>

-----------------------------------------------------------------------------
(* updateLeaveRequest *)

\* The caller passes a copy of the request it shows, with other dates
\* (a proper range, as its form makes it) or made a half day.
UpdateLeaveRequest(e, i) ==
    /\ edit[e] = NoEdit
    /\ i \in Stored
    /\ \E f \in Days, t \in Days, h \in BOOLEAN :
          /\ f <= t
          /\ edit' = [edit EXCEPT ![e] =
                [id |-> i, at |-> "check",
                 draft |-> [request[i] EXCEPT !.from = f, !.to = t, !.half = h]]]
    /\ UNCHANGED <<request, form>>

CheckPending(e) ==
    /\ edit[e] # NoEdit /\ edit[e].at = "check"
    /\ edit' = IF request[edit[e].id].status = "pending"
                 THEN [edit EXCEPT ![e].at = "write"]
                 ELSE [edit EXCEPT ![e] = NoEdit]
    /\ UNCHANGED <<request, form>>

\* update(updatedData.toMap()): every field, status and decision included.
WriteEdit(e) ==
    /\ edit[e] # NoEdit /\ edit[e].at = "write"
    /\ request' = [request EXCEPT ![edit[e].id] = edit[e].draft]
    /\ edit' = [edit EXCEPT ![e] = NoEdit]
    /\ UNCHANGED form

EditFails(e) ==
    /\ edit[e] # NoEdit
    /\ edit' = [edit EXCEPT ![e] = NoEdit]
    /\ UNCHANGED <<request, form>>

-----------------------------------------------------------------------------

FormStep(s) ==
    \/ \E d \in Days : SelectStart(s, d) \/ SelectEnd(s, d)
    \/ SubmitLeaveRequest(s)
    \/ AddLands(s)
    \/ SubmitFails(s)

Decide(i) ==
    \/ \E m \in Managers : ApproveLeaveRequest(i, m) \/ RejectLeaveRequest(i, m)
    \/ CancelLeaveRequest(i)

EditStep(e) ==
    \/ \E i \in Ids : UpdateLeaveRequest(e, i)
    \/ CheckPending(e)
    \/ WriteEdit(e)
    \/ EditFails(e)

Next ==
    \/ \E s \in Staff : FormStep(s)
    \/ \E i \in Ids : Decide(i)
    \/ \E e \in Editors : EditStep(e)

Spec == Init /\ [][Next]_vars

-----------------------------------------------------------------------------
(* hasLeaveConflict *)

ApprovedOf(s) ==
    {i \in Stored : request[i].staff = s /\ request[i].status = "approved"}

\* exclude is the id of a request to leave out, or anything that is no id.
HasLeaveConflict(s, from, to, exclude) ==
    \E i \in ApprovedOf(s) \ {exclude} :
        OverlapTest(from, to, request[i].from, request[i].to)

-----------------------------------------------------------------------------
(* Safety *)

\* No request ever ends before it begins, in whatever order the two dates are
\* picked and changed, while a submission is under way or after it failed; and
\* the end picker never opens on a day it does not offer.
ProperRanges ==
    /\ \A i \in Stored : request[i].from <= request[i].to
    /\ \A s \in Staff : form[s].from # Unset /\ form[s].to # Unset
                           => form[s].from <= form[s].to

\* A status and its signature never come apart, although decisions write some
\* fields and racing edits write all of them: what is pending carries no
\* decision, what is decided says by whom, what is rejected says why.
Signed(r) ==
    /\ r.status = "pending" => r.approvedBy = Nobody /\ ~r.explained
    /\ r.status \in {"approved", "rejected"} => r.approvedBy # Nobody
    /\ r.status = "rejected" => r.explained

DecisionsAreSigned == \A i \in Stored : Signed(request[i])

\* hasLeaveConflict never misses a day shared with an approved leave, on
\* whichever side of a clock change the two lie.
NeverMissesConflict ==
    \A i \in Stored : request[i].status = "approved" =>
        \A f \in Days, t \in Days :
            f <= t /\ ShareADay(f, t, request[i].from, request[i].to)
                => HasLeaveConflict(request[i].staff, f, t, Nobody)

\* totalDays never claims a day the calendar does not have.
NeverOvercountsDays ==
    \A i \in Stored :
        TotalDays(request[i].half, request[i].from, request[i].to)
            <= CalendarDays(request[i].from, request[i].to)

\* Where the clocks do not change, the arithmetic in hours is exact: a conflict
\* is a shared day ("Check for date overlap", leave_request_service.dart:209)
\* and totalDays counts the calendar's days ("Calculate total leave days",
\* leave_request.dart:152).
ExactBetweenChanges ==
    \A i \in Stored : request[i].status = "approved" =>
        \A f \in Days, t \in Days :
            LET r     == request[i]
                first == IF f < r.from THEN f ELSE r.from
                last  == IF t > r.to THEN t ELSE r.to
            IN  f <= t /\ Steady(first, last) =>
                  /\ OverlapTest(f, t, r.from, r.to) <=> ShareADay(f, t, r.from, r.to)
                  /\ ~r.half => TotalDays(FALSE, r.from, r.to) = CalendarDays(r.from, r.to)
=============================================================================

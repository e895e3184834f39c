------------------------------ MODULE LeaveProofs ------------------------------
(***************************************************************************)
(* What TLAPS proves of leave requests, for any staff, managers, editors,  *)
(* documents and days, wherever the clock changes lie.                     *)
(***************************************************************************)
EXTENDS LeaveRequests, TLAPS

-----------------------------------------------------------------------------
(* The calendar *)

LEMMA MidnightsAdvance ==
    ASSUME NEW d \in Int, NEW e \in Int, d <= e
    PROVE  /\ MidnightOf(d) \in Int /\ MidnightOf(e) \in Int
           /\ MidnightOf(d) <= MidnightOf(e)
           /\ MidnightOf(e) - MidnightOf(d) <= 24 * (e - d) + 1
BY ClockAssumption DEF MidnightOf

\* Two leaves that share a day pass the overlap test, whatever the clocks do.
THEOREM OverlapTestIsComplete ==
    ASSUME NEW from \in Int, NEW to \in Int, NEW first \in Int, NEW last \in Int,
           ShareADay(from, to, first, last)
    PROVE  OverlapTest(from, to, first, last)
<1>1. from <= last /\ first <= to
  BY DEF ShareADay
<1>2. /\ MidnightOf(from) <= MidnightOf(last)
      /\ MidnightOf(first) <= MidnightOf(to)
      /\ MidnightOf(from) \in Int /\ MidnightOf(to) \in Int
      /\ MidnightOf(first) \in Int /\ MidnightOf(last) \in Int
  BY <1>1, MidnightsAdvance
<1>. QED
  BY <1>2 DEF OverlapTest

\* totalDays is never more than the days of the calendar.
THEOREM TotalDaysIsBounded ==
    ASSUME NEW half \in BOOLEAN, NEW from \in Int, NEW to \in Int, from <= to
    PROVE  TotalDays(half, from, to) <= CalendarDays(from, to)
<1>1. MidnightOf(to) - MidnightOf(from) <= 24 * (to - from) + 1
  BY MidnightsAdvance
<1>2. MidnightOf(to) - MidnightOf(from) \in Int
  BY MidnightsAdvance
<1>3. (MidnightOf(to) - MidnightOf(from)) \div 24 <= to - from
  BY <1>1, <1>2
<1>4. (MidnightOf(to) - MidnightOf(from)) \div 24 \in Int
  BY <1>2
<1>. QED
  BY <1>3, <1>4 DEF TotalDays, CalendarDays

-----------------------------------------------------------------------------
(* The inductive invariant: what is on its way to a document - a submission,  *)
(* an edit - is as sound as what is in one.                                   *)

ProperDrafts ==
    \A e \in Editors : edit[e] # NoEdit =>
        edit[e].draft.from <= edit[e].draft.to /\ Signed(edit[e].draft)

ProperSubmissions ==
    \A s \in Staff : form[s].busy =>
        form[s].sent # Unset /\ form[s].sent.from <= form[s].sent.to

LeaveInv ==
    /\ TypeOK
    /\ ProperRanges
    /\ DecisionsAreSigned
    /\ ProperDrafts
    /\ ProperSubmissions

LEMMA InitLeaveInv == Init => LeaveInv
BY LeaveAssumption
   DEF Init, LeaveInv, TypeOK, ProperRanges, DecisionsAreSigned, ProperDrafts,
       ProperSubmissions, Form, Blank, Stored

\* A step that leaves documents and edits alone and keeps one form in order.
LEMMA FormOnly ==
    ASSUME LeaveInv, NEW s \in Staff, NEW f \in Form,
           form' = [form EXCEPT ![s] = f], UNCHANGED <<request, edit>>,
           f.from # Unset /\ f.to # Unset => f.from <= f.to,
           f.busy => f.sent # Unset /\ f.sent.from <= f.sent.to
    PROVE  LeaveInv'
<1>1. TypeOK'
  BY DEF LeaveInv, TypeOK
<1>2. \A u \in Staff : form'[u] = IF u = s THEN f ELSE form[u]
  BY DEF LeaveInv, TypeOK
<1>3. ProperRanges' /\ ProperSubmissions'
  BY <1>2 DEF LeaveInv, ProperRanges, ProperSubmissions, Stored
<1>4. DecisionsAreSigned' /\ ProperDrafts'
  BY DEF LeaveInv, DecisionsAreSigned, ProperDrafts, Stored
<1>. QED
  BY <1>1, <1>3, <1>4 DEF LeaveInv

\* A step that writes one document in order.
LEMMA DocumentOnly ==
    ASSUME LeaveInv, NEW i \in Ids, NEW r \in Request,
           request' = [request EXCEPT ![i] = r], UNCHANGED form,
           edit' \in [Editors -> Edit \cup {NoEdit}],
           \A e \in Editors : edit'[e] # NoEdit => edit'[e] = edit[e],
           r.from <= r.to, Signed(r)
    PROVE  LeaveInv'
<1>1. TypeOK'
  BY DEF LeaveInv, TypeOK
<1>2. \A j \in Ids : request'[j] = IF j = i THEN r ELSE request[j]
  BY DEF LeaveInv, TypeOK
<1>3. ProperRanges' /\ DecisionsAreSigned'
  BY <1>2 DEF LeaveInv, ProperRanges, DecisionsAreSigned, Stored
<1>4. ProperDrafts' /\ ProperSubmissions'
  BY DEF LeaveInv, ProperDrafts, ProperSubmissions
<1>. QED
  BY <1>1, <1>3, <1>4 DEF LeaveInv

LEMMA FormStepKeeps ==
    ASSUME LeaveInv, NEW s \in Staff, FormStep(s)
    PROVE  LeaveInv'
<1>. USE DEF LeaveInv
<1>0. form[s] \in Form
  BY DEF TypeOK
<1>1. ASSUME NEW d \in Days, SelectStart(s, d) PROVE LeaveInv'
  <2>. DEFINE f == [form[s] EXCEPT !.from = d,
                                   !.to = IF @ # Unset /\ @ < d THEN Unset ELSE @]
  <2>1. form' = [form EXCEPT ![s] = f]
    BY <1>0, <1>1 DEF SelectStart, TypeOK, Form
  <2>2. f \in Form
    BY <1>0 DEF Form
  <2>3. f.from # Unset /\ f.to # Unset => f.from <= f.to
    BY <1>0, LeaveAssumption DEF Form
  <2>4. f.busy => f.sent # Unset /\ f.sent.from <= f.sent.to
    BY <1>0 DEF Form, ProperSubmissions
  <2>. HIDE DEF f
  <2>. QED
    BY <1>1, <2>1, <2>2, <2>3, <2>4, FormOnly DEF SelectStart
<1>2. ASSUME NEW d \in Days, SelectEnd(s, d) PROVE LeaveInv'
  <2>. DEFINE f == [form[s] EXCEPT !.to = d]
  <2>1. form' = [form EXCEPT ![s] = f]
    BY <1>0, <1>2 DEF SelectEnd, TypeOK, Form
  <2>2. f \in Form
    BY <1>0 DEF Form
  <2>3. f.from # Unset /\ f.to # Unset => f.from <= f.to
    BY <1>0, <1>2, LeaveAssumption DEF Form, SelectEnd
  <2>4. f.busy => f.sent # Unset /\ f.sent.from <= f.sent.to
    BY <1>0 DEF Form, ProperSubmissions
  <2>. HIDE DEF f
  <2>. QED
    BY <1>2, <2>1, <2>2, <2>3, <2>4, FormOnly DEF SelectEnd
<1>3. CASE SubmitLeaveRequest(s)
  <2>. DEFINE f == [form[s] EXCEPT !.busy = TRUE,
                                   !.sent = [from |-> form[s].from, to |-> form[s].to]]
  <2>1. form' = [form EXCEPT ![s] = f]
    BY <1>0, <1>3 DEF SubmitLeaveRequest, TypeOK, Form
  <2>2. f \in Form
    BY <1>0, <1>3 DEF Form, SubmitLeaveRequest
  <2>3. f.from # Unset /\ f.to # Unset => f.from <= f.to
    BY <1>0 DEF Form, ProperRanges
  <2>4. f.sent # Unset /\ f.sent.from <= f.sent.to
    <3>1. f.sent \in [from : Days, to : Days]
      BY <1>0, <1>3 DEF Form, SubmitLeaveRequest
    <3>2. f.sent.from <= f.sent.to
      BY <1>0, <1>3 DEF Form, SubmitLeaveRequest, ProperRanges
    <3>. QED
      BY <3>1, <3>2, LeaveAssumption
  <2>. HIDE DEF f
  <2>. QED
    BY <1>3, <2>1, <2>2, <2>3, <2>4, FormOnly DEF SubmitLeaveRequest
<1>4. CASE AddLands(s)
  <2>1. form[s].sent \in [from : Days, to : Days] /\ form[s].sent.from <= form[s].sent.to
    BY <1>0, <1>4 DEF AddLands, Form, ProperSubmissions
  <2>. DEFINE r == [staff |-> s, from |-> form[s].sent.from, to |-> form[s].sent.to,
                    half |-> FALSE, status |-> "pending", approvedBy |-> Nobody,
                    explained |-> FALSE]
  <2>2. PICK i \in Ids \ Stored : request' = [request EXCEPT ![i] = r]
    BY <1>4 DEF AddLands
  <2>3. r \in Request /\ r.from <= r.to /\ Signed(r)
    BY <2>1 DEF Request, Signed, Statuses
  <2>. HIDE DEF r
  <2>4. TypeOK'
    BY <1>4, <2>2, <2>3, LeaveAssumption DEF AddLands, TypeOK, Blank, Form
  <2>5. \A j \in Ids : request'[j] = IF j = i THEN r ELSE request[j]
    BY <2>2 DEF TypeOK
  <2>6. \A u \in Staff : form'[u] = IF u = s THEN Blank ELSE form[u]
    BY <1>4 DEF AddLands, TypeOK
  <2>7. ProperRanges' /\ DecisionsAreSigned'
    BY <2>3, <2>5, <2>6 DEF ProperRanges, DecisionsAreSigned, Stored, Blank
  <2>8. ProperDrafts' /\ ProperSubmissions'
    BY <1>4, <2>6 DEF AddLands, ProperDrafts, ProperSubmissions, Blank
  <2>. QED
    BY <2>4, <2>7, <2>8
<1>5. CASE SubmitFails(s)
  <2>. DEFINE f == [form[s] EXCEPT !.busy = FALSE, !.sent = Unset]
  <2>1. form' = [form EXCEPT ![s] = f]
    BY <1>0, <1>5 DEF SubmitFails, TypeOK, Form
  <2>2. f \in Form /\ ~f.busy
    BY <1>0 DEF Form
  <2>3. f.from # Unset /\ f.to # Unset => f.from <= f.to
    BY <1>0 DEF Form, ProperRanges
  <2>. HIDE DEF f
  <2>. QED
    BY <1>5, <2>1, <2>2, <2>3, FormOnly DEF SubmitFails
<1>. QED
  BY <1>1, <1>2, <1>3, <1>4, <1>5 DEF FormStep

LEMMA DecideKeeps ==
    ASSUME LeaveInv, NEW i \in Ids, Decide(i)
    PROVE  LeaveInv'
<1>. USE DEF LeaveInv
<1>1. i \in Stored /\ request[i] \in Request
  BY DEF Decide, ApproveLeaveRequest, RejectLeaveRequest, CancelLeaveRequest, Stored, TypeOK
<1>2. request[i].from <= request[i].to /\ Signed(request[i])
  BY <1>1 DEF ProperRanges, DecisionsAreSigned
<1>3. \A e \in Editors : edit[e] # NoEdit => edit[e] = edit[e]
  OBVIOUS
<1>4. ASSUME NEW m \in Managers, ApproveLeaveRequest(i, m) PROVE LeaveInv'
  <2>. DEFINE r == [request[i] EXCEPT !.status = "approved", !.approvedBy = m]
  <2>1. request' = [request EXCEPT ![i] = r]
    BY <1>1, <1>4 DEF ApproveLeaveRequest, TypeOK, Request
  <2>2. r \in Request
    BY <1>1 DEF Request, Statuses
  <2>3. r.from <= r.to /\ Signed(r)
    BY <1>1, <1>2, LeaveAssumption DEF Request, Signed
  <2>. HIDE DEF r
  <2>. QED
    BY <1>4, <2>1, <2>2, <2>3, DocumentOnly DEF ApproveLeaveRequest, TypeOK
<1>5. ASSUME NEW m \in Managers, RejectLeaveRequest(i, m) PROVE LeaveInv'
  <2>. DEFINE r == [request[i] EXCEPT !.status = "rejected", !.approvedBy = m,
                                      !.explained = TRUE]
  <2>1. request' = [request EXCEPT ![i] = r]
    BY <1>1, <1>5 DEF RejectLeaveRequest, TypeOK, Request
  <2>2. r \in Request
    BY <1>1 DEF Request, Statuses
  <2>3. r.from <= r.to /\ Signed(r)
    BY <1>1, <1>2, LeaveAssumption DEF Request, Signed
  <2>. HIDE DEF r
  <2>. QED
    BY <1>5, <2>1, <2>2, <2>3, DocumentOnly DEF RejectLeaveRequest, TypeOK
<1>6. CASE CancelLeaveRequest(i)
  <2>. DEFINE r == [request[i] EXCEPT !.status = "cancelled"]
  <2>1. request' = [request EXCEPT ![i] = r]
    BY <1>1, <1>6 DEF CancelLeaveRequest, TypeOK, Request
  <2>2. r \in Request
    BY <1>1 DEF Request, Statuses
  <2>3. r.from <= r.to /\ Signed(r)
    BY <1>1, <1>2 DEF Request, Signed
  <2>. HIDE DEF r
  <2>. QED
    BY <1>6, <2>1, <2>2, <2>3, DocumentOnly DEF CancelLeaveRequest, TypeOK
<1>. QED
  BY <1>4, <1>5, <1>6 DEF Decide

LEMMA EditStepKeeps ==
    ASSUME LeaveInv, NEW e \in Editors, EditStep(e)
    PROVE  LeaveInv'
<1>. USE DEF LeaveInv
<1>1. ASSUME NEW i \in Ids, UpdateLeaveRequest(e, i) PROVE LeaveInv'
  <2>1. i \in Stored /\ request[i] \in Request /\ Signed(request[i])
    BY <1>1 DEF UpdateLeaveRequest, Stored, TypeOK, DecisionsAreSigned
  <2>2. PICK f \in Days, t \in Days, h \in BOOLEAN :
          /\ f <= t
          /\ edit' = [edit EXCEPT ![e] =
                [id |-> i, at |-> "check",
                 draft |-> [request[i] EXCEPT !.from = f, !.to = t, !.half = h]]]
    BY <1>1 DEF UpdateLeaveRequest
  <2>. DEFINE d == [request[i] EXCEPT !.from = f, !.to = t, !.half = h]
  <2>3. d \in Request /\ d.from <= d.to /\ Signed(d)
    BY <2>1, <2>2 DEF Request, Signed
  <2>. HIDE DEF d
  <2>4. edit' = [edit EXCEPT ![e] = [id |-> i, at |-> "check", draft |-> d]]
    BY <2>2 DEF d
  <2>5. TypeOK'
    BY <1>1, <2>3, <2>4 DEF UpdateLeaveRequest, TypeOK, Edit
  <2>6. ProperDrafts'
    BY <2>3, <2>4 DEF ProperDrafts, TypeOK
  <2>7. ProperRanges' /\ DecisionsAreSigned' /\ ProperSubmissions'
    BY <1>1 DEF UpdateLeaveRequest, ProperRanges, DecisionsAreSigned, ProperSubmissions, Stored
  <2>. QED
    BY <2>5, <2>6, <2>7
<1>2. ASSUME edit' \in [Editors -> Edit \cup {NoEdit}], UNCHANGED <<request, form>>,
             \A x \in Editors : edit'[x] # NoEdit =>
                edit[x] # NoEdit /\ edit'[x].draft = edit[x].draft
      PROVE  LeaveInv'
  <2>1. TypeOK'
    BY <1>2 DEF TypeOK
  <2>2. ProperDrafts'
    BY <1>2 DEF ProperDrafts
  <2>3. ProperRanges' /\ DecisionsAreSigned' /\ ProperSubmissions'
    BY <1>2 DEF ProperRanges, DecisionsAreSigned, ProperSubmissions, Stored
  <2>. QED
    BY <2>1, <2>2, <2>3
<1>3. CASE CheckPending(e)
  <2>1. edit[e] \in Edit
    BY <1>3 DEF CheckPending, TypeOK
  <2>2. edit' \in [Editors -> Edit \cup {NoEdit}]
    BY <1>3, <2>1 DEF CheckPending, TypeOK, Edit
  <2>3. \A x \in Editors : edit'[x] # NoEdit =>
           edit[x] # NoEdit /\ edit'[x].draft = edit[x].draft
    BY <1>3, <2>1 DEF CheckPending, TypeOK, Edit
  <2>. QED
    BY <1>2, <1>3, <2>2, <2>3 DEF CheckPending
<1>4. CASE WriteEdit(e)
  <2>1. edit[e] \in Edit /\ edit[e] # NoEdit
    BY <1>4 DEF WriteEdit, TypeOK
  <2>. DEFINE r == edit[e].draft  i == edit[e].id
  <2>2. r \in Request /\ i \in Ids /\ r.from <= r.to /\ Signed(r)
    BY <2>1 DEF Edit, ProperDrafts
  <2>3. request' = [request EXCEPT ![i] = r] /\ UNCHANGED form
    BY <1>4 DEF WriteEdit
  <2>4. /\ edit' \in [Editors -> Edit \cup {NoEdit}]
        /\ \A x \in Editors : edit'[x] # NoEdit => edit'[x] = edit[x]
    BY <1>4 DEF WriteEdit, TypeOK
  <2>. HIDE DEF r, i
  <2>. QED
    BY <2>2, <2>3, <2>4, DocumentOnly
<1>5. CASE EditFails(e)
  <2>1. /\ edit' \in [Editors -> Edit \cup {NoEdit}]
        /\ \A x \in Editors : edit'[x] # NoEdit => edit'[x] = edit[x]
    BY <1>5 DEF EditFails, TypeOK
  <2>. QED
    BY <1>2, <1>5, <2>1 DEF EditFails
<1>. QED
  BY <1>1, <1>3, <1>4, <1>5 DEF EditStep

\* The inductive invariant holds: whatever a form, an edit or a manager does next.
THEOREM LeaveInvariant == Spec => []LeaveInv
<1>1. LeaveInv /\ [Next]_vars => LeaveInv'
  <2>. SUFFICES ASSUME LeaveInv, [Next]_vars PROVE LeaveInv'
    OBVIOUS
  <2>1. CASE UNCHANGED vars
    BY <2>1 DEF vars, LeaveInv, TypeOK, ProperRanges, DecisionsAreSigned, ProperDrafts,
           ProperSubmissions, Stored
  <2>. QED
    BY <2>1, FormStepKeeps, DecideKeeps, EditStepKeeps DEF Next
<1>. QED
  BY <1>1, InitLeaveInv, PTL DEF Spec

\* Requests, forms and edits keep their types (leave_request.dart).
THEOREM LeaveTypeCorrect == Spec => []TypeOK
<1>1. LeaveInv => TypeOK
  BY DEF LeaveInv
<1>. QED
  BY <1>1, LeaveInvariant, PTL

\* No request and no form ever holds an end before its start, in whatever order
\* the dates are picked (request_leave_screen.dart).
THEOREM RangesAreProper == Spec => []ProperRanges
<1>1. LeaveInv => ProperRanges
  BY DEF LeaveInv
<1>. QED
  BY <1>1, LeaveInvariant, PTL

\* A status and its signature never come apart.
THEOREM SignaturesHold == Spec => []DecisionsAreSigned
<1>1. LeaveInv => DecisionsAreSigned
  BY DEF LeaveInv
<1>. QED
  BY <1>1, LeaveInvariant, PTL

\* hasLeaveConflict finds every approved leave that shares a day.
THEOREM ConflictsAreFound == Spec => []NeverMissesConflict
<1>1. LeaveInv => NeverMissesConflict
  <2>. SUFFICES ASSUME LeaveInv, NEW i \in Stored, request[i].status = "approved",
                       NEW f \in Days, NEW t \in Days,
                       ShareADay(f, t, request[i].from, request[i].to)
                PROVE  HasLeaveConflict(request[i].staff, f, t, Nobody)
    BY DEF NeverMissesConflict
  <2>1. request[i] \in Request /\ i # Nobody
    BY LeaveAssumption DEF LeaveInv, TypeOK, Stored
  <2>2. OverlapTest(f, t, request[i].from, request[i].to)
    BY <2>1, LeaveAssumption, OverlapTestIsComplete DEF Request
  <2>. QED
    BY <2>1, <2>2 DEF HasLeaveConflict, ApprovedOf
<1>. QED
  BY <1>1, LeaveInvariant, PTL

\* totalDays of a stored request is never more than the calendar has.
THEOREM DaysAreNotOvercounted == Spec => []NeverOvercountsDays
<1>1. LeaveInv => NeverOvercountsDays
  <2>. SUFFICES ASSUME LeaveInv, NEW i \in Stored
                PROVE  TotalDays(request[i].half, request[i].from, request[i].to)
                         <= CalendarDays(request[i].from, request[i].to)
    BY DEF NeverOvercountsDays
  <2>1. request[i] \in Request /\ request[i].from <= request[i].to
    BY DEF LeaveInv, TypeOK, Stored, ProperRanges
  <2>2. request[i].half \in BOOLEAN /\ request[i].from \in Int /\ request[i].to \in Int
    BY <2>1, LeaveAssumption DEF Request
  <2>. QED
    BY <2>1, <2>2, TotalDaysIsBounded
<1>. QED
  BY <1>1, LeaveInvariant, PTL

\* Away from the clock changes the tests in hours are those of the calendar.
LEMMA SteadyDays ==
    ASSUME NEW first \in Int, NEW last \in Int, Steady(first, last),
           NEW d \in first..last
    PROVE  MidnightOf(d) - MidnightOf(first) = 24 * (d - first)
BY ClockAssumption DEF Steady, MidnightOf

LEMMA OverlapIsShared ==
    ASSUME NEW f \in Int, NEW t \in Int, NEW from \in Int, NEW to \in Int,
           NEW first \in Int, NEW last \in Int, Steady(first, last),
           first <= f, f <= t, t <= last, first <= from, from <= to, to <= last
    PROVE  OverlapTest(f, t, from, to) <=> ShareADay(f, t, from, to)
<1>1. /\ MidnightOf(f) - MidnightOf(first) = 24 * (f - first)
      /\ MidnightOf(t) - MidnightOf(first) = 24 * (t - first)
      /\ MidnightOf(from) - MidnightOf(first) = 24 * (from - first)
      /\ MidnightOf(to) - MidnightOf(first) = 24 * (to - first)
  BY SteadyDays
<1>2. \A d \in {f, t, from, to, first} : MidnightOf(d) \in Int
  BY MidnightsAdvance
<1>. QED
  BY <1>1, <1>2 DEF OverlapTest, ShareADay

LEMMA DaysAreCounted ==
    ASSUME NEW from \in Int, NEW to \in Int, NEW first \in Int, NEW last \in Int,
           Steady(first, last), first <= from, from <= to, to <= last
    PROVE  TotalDays(FALSE, from, to) = CalendarDays(from, to)
<1>1. /\ MidnightOf(from) - MidnightOf(first) = 24 * (from - first)
      /\ MidnightOf(to) - MidnightOf(first) = 24 * (to - first)
  BY SteadyDays
<1>2. MidnightOf(from) \in Int /\ MidnightOf(to) \in Int /\ MidnightOf(first) \in Int
  BY MidnightsAdvance
<1>3. MidnightOf(to) - MidnightOf(from) = 24 * (to - from)
  BY <1>1, <1>2
<1>4. (24 * (to - from)) \div 24 = to - from
  OBVIOUS
<1>. QED
  BY <1>3, <1>4 DEF TotalDays, CalendarDays

\* Conflicts and day counts are those of the calendar wherever the clocks do
\* not change between the days concerned.
THEOREM ExactnessHolds == Spec => []ExactBetweenChanges
<1>1. LeaveInv => ExactBetweenChanges
  <2>. SUFFICES ASSUME LeaveInv, NEW i \in Stored, NEW f \in Days, NEW t \in Days,
                       NEW first, NEW last,
                       first = (IF f < request[i].from THEN f ELSE request[i].from),
                       last = (IF t > request[i].to THEN t ELSE request[i].to),
                       f <= t, Steady(first, last)
                PROVE  /\ OverlapTest(f, t, request[i].from, request[i].to)
                             <=> ShareADay(f, t, request[i].from, request[i].to)
                       /\ ~request[i].half =>
                             TotalDays(FALSE, request[i].from, request[i].to)
                               = CalendarDays(request[i].from, request[i].to)
    BY DEF ExactBetweenChanges
  <2>1. request[i] \in Request /\ request[i].from <= request[i].to
    BY DEF LeaveInv, TypeOK, Stored, ProperRanges
  <2>2. /\ request[i].from \in Int /\ request[i].to \in Int
        /\ f \in Int /\ t \in Int
    BY <2>1, LeaveAssumption DEF Request
  <2>3. /\ first \in Int /\ last \in Int
        /\ first <= f /\ t <= last
        /\ first <= request[i].from /\ request[i].to <= last
    BY <2>2
  <2>4. OverlapTest(f, t, request[i].from, request[i].to)
          <=> ShareADay(f, t, request[i].from, request[i].to)
    BY <2>1, <2>2, <2>3, OverlapIsShared
  <2>5. TotalDays(FALSE, request[i].from, request[i].to)
          = CalendarDays(request[i].from, request[i].to)
    BY <2>1, <2>2, <2>3, DaysAreCounted
  <2>. QED
    BY <2>4, <2>5
<1>. QED
  BY <1>1, LeaveInvariant, PTL
=============================================================================

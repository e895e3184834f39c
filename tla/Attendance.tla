------------------------------ MODULE Attendance ------------------------------
(***************************************************************************)
(* The attendance core: the Firestore documents of staff and               *)
(* staff_attendance, and the calls that write them.                        *)
(*                                                                         *)
(*   lib/services/staff_service.dart       StaffService.checkIn/checkOut,  *)
(*                                         updateStaff, deleteStaff        *)
(*   lib/services/attendance_service.dart  AttendanceService.checkIn and   *)
(*                                         checkOut                        *)
(*                                                                         *)
(* Nothing here is a transaction.  Every "await" of the code is a step of  *)
(* its own, so calls of several devices (and of one device, when its       *)
(* buttons allow it) interleave between any two of them; DateTime.now()    *)
(* is read once, when the call begins, and used until it ends.             *)
(***************************************************************************)
EXTENDS Integers, FiniteSets

CONSTANTS
    Staff,        \* ids of the documents in the collection staff
    Seeded,       \* the staff whose document was created without counters
    Tasks,        \* slots for calls in flight, on whichever device they run
    Editors,      \* open edit forms (edit_staff_screen, update_profile_screen)
    RecIds,       \* document ids of staff_attendance, ordered as Firestore does
    DayLen,       \* instants in a day
    MaxTime,      \* bound: the last instant of the model
    MayFail,      \* may an awaited request throw, or the app be killed?
    MayDelete,    \* may an administrator delete staff documents?
    NoRec, NoCall, NoDoc, NoCounters, NoTime, NoDraft

ASSUME ConstantsAssumption ==
    /\ Seeded \subseteq Staff
    /\ IsFiniteSet(Tasks)
    /\ RecIds \subseteq Nat
    /\ DayLen \in Nat \ {0}
    /\ MaxTime \in Nat
    /\ MayFail \in BOOLEAN /\ MayDelete \in BOOLEAN
    /\ NoTime \notin Int /\ NoRec \notin RecIds

VARIABLES
    now,        \* the time every device agrees on
    staffDoc,   \* staff: the counters of each document, or NoDoc
    records,    \* staff_attendance: the document behind each id, or NoRec
    call,       \* the call each slot is executing, or NoCall
    answer,     \* what the last call of each slot told its caller
    draft,      \* the Staff object each open edit form was built from
    closes      \* history: how many times a check-out of each staff wrote a record

vars == <<now, staffDoc, records, call, answer, draft, closes>>

-----------------------------------------------------------------------------
(* Data *)

Day(t) == t \div DayLen

\* DateTime(now.year, now.month, now.day) stored as a Timestamp, and the
\* string "YYYY-MM-DD" of _getDateKey.  Firestore never finds a Timestamp
\* equal to a string.
Midnight(d) == [as |-> "timestamp", day |-> d]
DateKey(d)  == [as |-> "string", day |-> d]
DateValue   == [as : {"timestamp", "string"}, day : Int]

Counters == [hours : Int, shifts : Nat]
Zero     == [hours |-> 0, shifts |-> 0]
Doc      == Counters \cup {NoCounters}

Record == [staff : Staff, date : DateValue, checkIn : 0..MaxTime,
           checkOut : 0..MaxTime \cup {NoTime}, duration : Int,
           status : {"checked_in", "completed"}]

NewRecord(s, t) ==
    [staff |-> s, date |-> Midnight(Day(t)), checkIn |-> t,
     checkOut |-> NoTime, duration |-> 0, status |-> "checked_in"]

Stored  == {r \in RecIds : records[r] # NoRec}
Open(r) == records[r].checkOut = NoTime

\* docs.first of a query without orderBy: the smallest document id.
IsFirst(r, S) == r \in S /\ \A q \in S : r <= q

\* A call: kind says which function runs, at what it awaits next.
Kinds  == {"staff_in", "staff_out", "attendance_in", "attendance_out"}
Points == {"touch", "guard", "add", "find", "update", "read", "write"}
Call   == [kind : Kinds, at : Points, staff : Staff, time : 0..MaxTime,
           rec : RecIds \cup {NoRec}, dur : Int, seen : Counters]

\* The null values are none of the things they stand in for.
ASSUME NullsAssumption ==
    /\ NoRec \notin Record
    /\ NoRec \notin [staff : Staff, from : 0..MaxTime, to : 0..MaxTime \cup {NoTime}]
    /\ NoCall \notin Call
    /\ NoDoc \notin Doc /\ NoCounters \notin Counters
    /\ NoDraft \notin [staff : Staff, counters : Counters]

Answers == {"none", "ok", "already_checked_in", "no_checkin_found", "error"}

InFlight   == {t \in Tasks : call[t] # NoCall}
At(t, p)   == call[t] # NoCall /\ call[t].at = p
Crediting(s) == {t \in InFlight : call[t].at \in {"read", "write"}
                                  /\ call[t].staff = s}

TypeOK ==
    /\ now \in 0..MaxTime
    /\ staffDoc \in [Staff -> Doc \cup {NoDoc}]
    /\ records \in [RecIds -> Record \cup {NoRec}]
    /\ call \in [Tasks -> Call \cup {NoCall}]
    /\ answer \in [Tasks -> Answers]
    /\ draft \in [Editors -> [staff : Staff, counters : Counters] \cup {NoDraft}]
    /\ closes \in [Staff -> Nat]

Init ==
    /\ now = 0
    /\ staffDoc = [s \in Staff |-> IF s \in Seeded THEN NoCounters ELSE Zero]
    /\ records = [r \in RecIds |-> NoRec]
    /\ call = [t \in Tasks |-> NoCall]
    /\ answer = [t \in Tasks |-> "none"]
    /\ draft = [e \in Editors |-> NoDraft]
    /\ closes = [s \in Staff |-> 0]

-----------------------------------------------------------------------------
(* How a call begins, moves to its next await, and ends *)

Begin(t, k, p, s) ==
    /\ call[t] = NoCall
    /\ call' = [call EXCEPT ![t] = [kind |-> k, at |-> p, staff |-> s, time |-> now,
                                    rec |-> NoRec, dur |-> 0, seen |-> Zero]]
    /\ answer' = [answer EXCEPT ![t] = "none"]
    /\ UNCHANGED <<now, staffDoc, records, draft, closes>>

Advance(t, p) ==
    /\ call' = [call EXCEPT ![t].at = p]
    /\ UNCHANGED answer

Return(t, a) ==
    /\ call' = [call EXCEPT ![t] = NoCall]
    /\ answer' = [answer EXCEPT ![t] = a]

\* Bound: a check-in begins only while a document id is left for it.
IdLeft ==
    Cardinality({t \in InFlight : call[t].kind \in {"staff_in", "attendance_in"}})
        < Cardinality(RecIds \ Stored)

StaffCheckIn(t, s)       == IdLeft /\ Begin(t, "staff_in", "touch", s)
StaffCheckOut(t, s)      == Begin(t, "staff_out", "touch", s)
AttendanceCheckIn(t, s)  == IdLeft /\ Begin(t, "attendance_in", "guard", s)
AttendanceCheckOut(t, s) == Begin(t, "attendance_out", "find", s)

-----------------------------------------------------------------------------
(* The awaits of StaffService.checkIn/checkOut and of AttendanceService *)

\* doc(staffId).update({lastCheckIn | lastCheckOut}): throws without a document.
\* (The two times themselves are only displayed.)
TouchStaff(t) ==
    /\ At(t, "touch")
    /\ IF staffDoc[call[t].staff] = NoDoc
         THEN Return(t, "error")
         ELSE Advance(t, IF call[t].kind = "staff_in" THEN "add" ELSE "find")
    /\ UNCHANGED <<now, staffDoc, records, draft, closes>>

\* AttendanceService.checkIn: where('date' == dateKey), then the first record.
KeyedToday(t) ==
    {r \in Stored : /\ records[r].staff = call[t].staff
                    /\ records[r].date = DateKey(Day(call[t].time))}

RefusesCheckIn(t) == \E r \in KeyedToday(t) : IsFirst(r, KeyedToday(t)) /\ Open(r)

GuardCheckIn(t) ==
    /\ At(t, "guard")
    /\ IF RefusesCheckIn(t) THEN Return(t, "already_checked_in") ELSE Advance(t, "add")
    /\ UNCHANGED <<now, staffDoc, records, draft, closes>>

\* Mutant: the record goes to a document that may already exist.
MutantAddAnywhere(t) ==
    /\ At(t, "add")
    /\ \E r \in RecIds :
          records' = [records EXCEPT ![r] = NewRecord(call[t].staff, call[t].time)]
    /\ Return(t, "ok")
    /\ UNCHANGED <<now, staffDoc, draft, closes>>

\* collection.add(...): Firestore draws an id nobody uses.
AddRecord(t) ==
    /\ At(t, "add")
    /\ \E r \in RecIds \ Stored :
          records' = [records EXCEPT ![r] = NewRecord(call[t].staff, call[t].time)]
    /\ Return(t, "ok")
    /\ UNCHANGED <<now, staffDoc, draft, closes>>

\* Mutant: the query forgets the date.
MutantOpenAnyDay(t) ==
    {r \in Stored : records[r].staff = call[t].staff /\ Open(r)}

\* The open records a check-out looks for: StaffService asks for today's
\* Timestamp, AttendanceService compares the date with today's key.
OpenToday(t) ==
    LET today == Day(call[t].time)
        date  == IF call[t].kind = "staff_out" THEN Midnight(today) ELSE DateKey(today)
    IN  {r \in Stored : /\ records[r].staff = call[t].staff
                        /\ records[r].date = date
                        /\ Open(r)}

\* Mutants: the counters are credited even when nothing was found; the two
\* times are subtracted the wrong way round.
MutantCreditAnyway(t) ==
    /\ At(t, "find")
    /\ \/ OpenToday(t) = {} /\ Advance(t, "read")
       \/ \E r \in OpenToday(t) :
             /\ IsFirst(r, OpenToday(t))
             /\ call' = [call EXCEPT ![t].at = "update", ![t].rec = r]
             /\ UNCHANGED answer
    /\ UNCHANGED <<now, staffDoc, records, draft, closes>>

FindOpen(t) ==
    /\ At(t, "find")
    /\ \/ /\ OpenToday(t) = {}
          /\ Return(t, IF call[t].kind = "staff_out" THEN "ok" ELSE "no_checkin_found")
       \/ \E r \in OpenToday(t) :
             /\ IsFirst(r, OpenToday(t))
             /\ call' = [call EXCEPT ![t].at  = "update",
                                     ![t].rec = r,
                                     ![t].dur = call[t].time - records[r].checkIn]
             /\ UNCHANGED answer
    /\ UNCHANGED <<now, staffDoc, records, draft, closes>>

\* doc.reference.update({checkOutTime, duration, status}): whatever the
\* record has become since the query.
UpdateRecord(t) ==
    /\ At(t, "update")
    /\ records' = [records EXCEPT ![call[t].rec].checkOut = call[t].time,
                                  ![call[t].rec].duration = call[t].dur,
                                  ![call[t].rec].status   = "completed"]
    /\ closes' = [closes EXCEPT ![call[t].staff] = @ + 1]
    /\ IF call[t].kind = "staff_out" THEN Advance(t, "read") ELSE Return(t, "ok")
    /\ UNCHANGED <<now, staffDoc, draft>>

\* staffDoc['totalHoursWorked'] throws when the document, or the field, is missing.
ReadCounters(t) ==
    /\ At(t, "read")
    /\ IF staffDoc[call[t].staff] \in Counters
         THEN /\ call' = [call EXCEPT ![t].at = "write", ![t].seen = staffDoc[call[t].staff]]
              /\ UNCHANGED answer
         ELSE Return(t, "error")
    /\ UNCHANGED <<now, staffDoc, records, draft, closes>>

\* Mutant: the shift is not counted.
MutantHoursOnly(c) == [hours |-> c.seen.hours + c.dur, shifts |-> c.seen.shifts]

Credit(c) == [hours |-> c.seen.hours + c.dur, shifts |-> c.seen.shifts + 1]

WriteCounters(t) ==
    /\ At(t, "write")
    /\ IF staffDoc[call[t].staff] = NoDoc
         THEN UNCHANGED staffDoc /\ Return(t, "error")
         ELSE /\ staffDoc' = [staffDoc EXCEPT ![call[t].staff] = Credit(call[t])]
              /\ Return(t, "ok")
    /\ UNCHANGED <<now, records, draft, closes>>

\* The pending request throws (both services answer an error and stop), or
\* the app dies; the steps already taken stay.
CallFails(t) ==
    /\ MayFail
    /\ t \in InFlight
    /\ Return(t, "error")
    /\ UNCHANGED <<now, staffDoc, records, draft, closes>>

-----------------------------------------------------------------------------
(* Edit forms: the whole Staff object read when the form opens is written   *)
(* back, counters included (Staff.fromFirestore gives missing ones 0).      *)

OpenForm(e, s) ==
    /\ draft[e] = NoDraft
    /\ staffDoc[s] # NoDoc
    /\ draft' = [draft EXCEPT ![e] =
                   [staff    |-> s,
                    counters |-> IF staffDoc[s] = NoCounters THEN Zero ELSE staffDoc[s]]]
    /\ UNCHANGED <<now, staffDoc, records, call, answer, closes>>

UpdateStaff(e) ==
    /\ draft[e] # NoDraft
    /\ staffDoc' = IF staffDoc[draft[e].staff] = NoDoc THEN staffDoc
                   ELSE [staffDoc EXCEPT ![draft[e].staff] = draft[e].counters]
    /\ draft' = [draft EXCEPT ![e] = NoDraft]
    /\ UNCHANGED <<now, records, call, answer, closes>>

DeleteStaff(s) ==
    /\ MayDelete
    /\ staffDoc[s] # NoDoc
    /\ staffDoc' = [staffDoc EXCEPT ![s] = NoDoc]
    /\ UNCHANGED <<now, records, call, answer, draft, closes>>

Tick ==
    /\ now < MaxTime
    /\ now' = now + 1
    /\ UNCHANGED <<staffDoc, records, call, answer, draft, closes>>

-----------------------------------------------------------------------------

CallStep(t) ==
    \/ TouchStaff(t)
    \/ GuardCheckIn(t)
    \/ AddRecord(t)
    \/ FindOpen(t)
    \/ UpdateRecord(t)
    \/ ReadCounters(t)
    \/ WriteCounters(t)
    \/ CallFails(t)

Starts(t, s) ==
    \/ StaffCheckIn(t, s)
    \/ StaffCheckOut(t, s)
    \/ AttendanceCheckIn(t, s)
    \/ AttendanceCheckOut(t, s)

Next ==
    \/ \E t \in Tasks : CallStep(t)
    \/ \E t \in Tasks, s \in Staff : Starts(t, s)
    \/ \E e \in Editors, s \in Staff : OpenForm(e, s)
    \/ \E e \in Editors : UpdateStaff(e)
    \/ \E s \in Staff : DeleteStaff(s)
    \/ Tick

Spec == Init /\ [][Next]_vars

-----------------------------------------------------------------------------
(* What staff_attendance promises: a time sheet (AttendanceLedger) whose     *)
(* entry r is the record r.                                                  *)

Entry(r) ==
    IF records[r] = NoRec THEN NoRec
    ELSE [staff |-> records[r].staff, from |-> records[r].checkIn, to |-> records[r].checkOut]

Ledger == INSTANCE AttendanceLedger
            WITH Absent <- NoRec, Times <- 0..MaxTime,
                 entry <- [r \in RecIds |-> Entry(r)]

\* Every interleaving of the two services' steps is a behaviour of the time
\* sheet: an entry is made open, keeps its owner and its start for ever, never
\* reopens, and ends at an instant of the day it started.
ImplementsLedger == Ledger!Spec

-----------------------------------------------------------------------------
(* Safety *)

\* A record is closed on the day it was opened, by a check-out that was made
\* that day, and its duration is the time between its two ends: the captured
\* "now" and the record chosen by the query belong together however late the
\* update lands.  (Overnight shifts are therefore never closed.)
ClosedOnItsOwnDay ==
    \A r \in Stored :
        /\ records[r].date = Midnight(Day(records[r].checkIn))
        /\ records[r].status = "completed" <=> ~Open(r)
        /\ ~Open(r) => /\ Day(records[r].checkOut) = Day(records[r].checkIn)
                       /\ records[r].duration = records[r].checkOut - records[r].checkIn

\* shiftsCompleted never runs ahead of the check-outs that wrote a record,
\* whatever the interleaving of the read-modify-write of checkOut with other
\* check-outs, failures, and edit forms that write back an old copy.
ShiftsBackedByCloses ==
    \A s \in Staff : staffDoc[s] \in Counters => staffDoc[s].shifts <= closes[s]

\* The past is frozen: once a day is over and no call that began on it is in
\* flight, no check-in or check-out changes a record of that day.
LateCall(d) == \E t \in InFlight : Day(call[t].time) = d
HistoryFrozen ==
    [][\A r \in Stored :
          records[r].date.day < Day(now) /\ ~LateCall(records[r].date.day)
              => records'[r] = records[r]]_vars

=============================================================================

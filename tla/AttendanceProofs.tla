--------------------------- MODULE AttendanceProofs ---------------------------
(***************************************************************************)
(* What TLAPS proves of the attendance core, for any sets of staff, slots, *)
(* forms and document ids, any day length and any bound on time.           *)
(***************************************************************************)
EXTENDS AttendanceSerial, FiniteSetTheorems, WellFoundedInduction, TLAPS

\* A call that is about to close a record found it among those of the day on
\* which the call was made, and remembers how long that record has been open.
CallInv ==
    \A t \in InFlight : call[t].at = "update" =>
        /\ call[t].rec \in Stored
        /\ records[call[t].rec].date = Midnight(Day(call[t].time))
        /\ call[t].dur = call[t].time - records[call[t].rec].checkIn

RecordInv == TypeOK /\ CallInv /\ ClosedOnItsOwnDay

LEMMA DayType == \A t \in Int : Day(t) \in Int
BY ConstantsAssumption DEF Day

LEMMA InitRecordInv == Init => RecordInv
BY ConstantsAssumption
   DEF Init, RecordInv, TypeOK, CallInv, ClosedOnItsOwnDay, InFlight, Stored,
       Doc, Counters, Zero, Answers

-----------------------------------------------------------------------------
(* Typing, one lemma per step *)

LEMMA ReturnType ==
    ASSUME TypeOK, NEW t \in Tasks, NEW a \in Answers, Return(t, a)
    PROVE  /\ call' \in [Tasks -> Call \cup {NoCall}]
           /\ answer' \in [Tasks -> Answers]
BY DEF TypeOK, Return

LEMMA AdvanceType ==
    ASSUME TypeOK, NEW t \in Tasks, NEW p \in Points, call[t] # NoCall, Advance(t, p)
    PROVE  /\ call' \in [Tasks -> Call \cup {NoCall}]
           /\ answer' \in [Tasks -> Answers]
BY DEF TypeOK, Advance, Call

LEMMA StartsType ==
    ASSUME TypeOK, NEW t \in Tasks, NEW s \in Staff, Starts(t, s)
    PROVE  TypeOK'
<1>1. PICK k \in Kinds, p \in Points : Begin(t, k, p, s)
  BY DEF Starts, StaffCheckIn, StaffCheckOut, AttendanceCheckIn, AttendanceCheckOut,
         Kinds, Points
<1>2. [kind |-> k, at |-> p, staff |-> s, time |-> now,
       rec |-> NoRec, dur |-> 0, seen |-> Zero] \in Call
  BY DEF TypeOK, Call, Zero, Counters
<1>3. "none" \in Answers
  BY DEF Answers
<1>. QED
  BY <1>1, <1>2, <1>3 DEF TypeOK, Begin

LEMMA CallStepType ==
    ASSUME RecordInv, NEW t \in Tasks, CallStep(t)
    PROVE  TypeOK'
<1>. USE DEF RecordInv
<1>a. {"none", "ok", "already_checked_in", "no_checkin_found", "error"} \subseteq Answers
  BY DEF Answers
<1>p. {"touch", "guard", "add", "find", "update", "read", "write"} \subseteq Points
  BY DEF Points
<1>1. CASE TouchStaff(t)
  BY <1>1, <1>a, <1>p, ReturnType, AdvanceType DEF TouchStaff, At, TypeOK
<1>2. CASE GuardCheckIn(t)
  BY <1>2, <1>a, <1>p, ReturnType, AdvanceType DEF GuardCheckIn, At, TypeOK
<1>3. CASE AddRecord(t)
  <2>1. call[t] \in Call
    BY <1>3 DEF AddRecord, At, TypeOK
  <2>2. NewRecord(call[t].staff, call[t].time) \in Record
    BY <2>1, DayType, ConstantsAssumption DEF NewRecord, Record, Call, Midnight, DateValue
  <2>3. records' \in [RecIds -> Record \cup {NoRec}]
    BY <1>3, <2>2 DEF AddRecord, TypeOK
  <2>. QED
    BY <1>3, <1>a, <2>3, ReturnType DEF AddRecord, TypeOK
<1>4. CASE FindOpen(t)
  <2>1. CASE OpenToday(t) = {} /\ Return(t, IF call[t].kind = "staff_out" THEN "ok"
                                            ELSE "no_checkin_found")
    BY <1>4, <2>1, <1>a, ReturnType DEF FindOpen, TypeOK
  <2>2. ASSUME NEW r \in OpenToday(t),
               call' = [call EXCEPT ![t].at  = "update", ![t].rec = r,
                                    ![t].dur = call[t].time - records[r].checkIn],
               UNCHANGED answer
        PROVE  TypeOK'
    <3>1. call[t] \in Call
      BY <1>4 DEF FindOpen, At, TypeOK
    <3>2. r \in RecIds /\ records[r] \in Record
      BY <2>2 DEF OpenToday, Stored, TypeOK
    <3>3. call[t].time - records[r].checkIn \in Int
      BY <3>1, <3>2, ConstantsAssumption DEF Call, Record
    <3>. DEFINE upd == [call[t] EXCEPT !.at = "update", !.rec = r,
                               !.dur = call[t].time - records[r].checkIn]
    <3>4. upd \in Call
      BY <3>1, <3>2, <3>3 DEF Call, Points
    <3>5. call' = [call EXCEPT ![t] = upd]
      BY <2>2, <3>1 DEF TypeOK, Call
    <3>6. UNCHANGED <<now, staffDoc, records, answer, draft, closes>>
      BY <1>4, <2>2 DEF FindOpen
    <3>7. call' \in [Tasks -> Call \cup {NoCall}]
      <4>. HIDE DEF upd
      <4>. QED  BY <3>4, <3>5 DEF TypeOK
    <3>. QED
      BY <3>6, <3>7 DEF TypeOK
  <2>. QED
    BY <1>4, <2>1, <2>2 DEF FindOpen
<1>5. CASE UpdateRecord(t)
  <2>1. call[t] \in Call /\ t \in InFlight /\ call[t].at = "update"
    BY <1>5 DEF UpdateRecord, At, TypeOK, InFlight
  <2>2. call[t].rec \in Stored
    BY <2>1 DEF CallInv
  <2>3. records[call[t].rec] \in Record
    BY <2>2 DEF TypeOK, Stored
  <2>4. records' \in [RecIds -> Record \cup {NoRec}]
    BY <1>5, <2>1, <2>2, <2>3 DEF UpdateRecord, TypeOK, Record, Call, Stored
  <2>5. closes' \in [Staff -> Nat]
    BY <1>5, <2>1 DEF UpdateRecord, TypeOK, Call
  <2>. QED
    BY <1>5, <2>1, <2>4, <2>5, <1>a, <1>p, ReturnType, AdvanceType
    DEF UpdateRecord, At, TypeOK
<1>6. CASE ReadCounters(t)
  <2>1. CASE staffDoc[call[t].staff] \in Counters
    BY <1>6, <2>1 DEF ReadCounters, At, TypeOK, Call, Points
  <2>2. CASE staffDoc[call[t].staff] \notin Counters
    BY <1>6, <2>2, <1>a, ReturnType DEF ReadCounters, TypeOK
  <2>. QED
    BY <2>1, <2>2
<1>7. CASE WriteCounters(t)
  <2>1. call[t] \in Call
    BY <1>7 DEF WriteCounters, At, TypeOK
  <2>2. Credit(call[t]) \in Counters
    BY <2>1 DEF Credit, Call, Counters
  <2>3. staffDoc' \in [Staff -> Doc \cup {NoDoc}]
    BY <1>7, <2>1, <2>2 DEF WriteCounters, TypeOK, Call, Doc
  <2>. QED
    BY <1>7, <2>3, <1>a, ReturnType DEF WriteCounters, TypeOK
<1>8. CASE CallFails(t)
  BY <1>8, <1>a, ReturnType DEF CallFails, TypeOK
<1>. QED
  BY <1>1, <1>2, <1>3, <1>4, <1>5, <1>6, <1>7, <1>8 DEF CallStep

LEMMA NextType == RecordInv /\ [Next]_vars => TypeOK'
<1>. SUFFICES ASSUME RecordInv, [Next]_vars PROVE TypeOK'
  OBVIOUS
<1>. USE DEF RecordInv
<1>1. ASSUME NEW t \in Tasks, CallStep(t) PROVE TypeOK'
  BY <1>1, CallStepType
<1>2. ASSUME NEW t \in Tasks, NEW s \in Staff, Starts(t, s) PROVE TypeOK'
  BY <1>2, StartsType
<1>3. ASSUME NEW e \in Editors, NEW s \in Staff, OpenForm(e, s) PROVE TypeOK'
  BY <1>3 DEF OpenForm, TypeOK, Doc, Zero, Counters
<1>4. ASSUME NEW e \in Editors, UpdateStaff(e) PROVE TypeOK'
  BY <1>4 DEF UpdateStaff, TypeOK, Doc
<1>5. ASSUME NEW s \in Staff, DeleteStaff(s) PROVE TypeOK'
  BY <1>5 DEF DeleteStaff, TypeOK
<1>6. CASE Tick
  BY <1>6, ConstantsAssumption DEF Tick, TypeOK
<1>7. CASE UNCHANGED vars
  BY <1>7 DEF vars, TypeOK
<1>. QED
  BY <1>1, <1>2, <1>3, <1>4, <1>5, <1>6, <1>7 DEF Next

-----------------------------------------------------------------------------
(* Records close on their own day *)

LEMMA MidnightInjective == \A d, e : Midnight(d) = Midnight(e) => d = e
<1>. SUFFICES ASSUME NEW d, NEW e, Midnight(d) = Midnight(e) PROVE d = e
  OBVIOUS
<1>1. Midnight(d).day = Midnight(e).day
  OBVIOUS
<1>. QED
  BY <1>1 DEF Midnight

LEMMA TimestampIsNoString == \A d, e : Midnight(d) # DateKey(e)
<1>. SUFFICES ASSUME NEW d, NEW e, Midnight(d) = DateKey(e) PROVE FALSE
  OBVIOUS
<1>1. Midnight(d).as = DateKey(e).as
  OBVIOUS
<1>. QED
  BY <1>1 DEF Midnight, DateKey

\* No call starts waiting for the update of a record in this step.
NoNewUpdate ==
    \A t \in Tasks : call'[t] # NoCall /\ call'[t].at = "update" => call'[t] = call[t]

LEMMA ReturnKeeps ==
    ASSUME TypeOK, NEW t \in Tasks, NEW a, Return(t, a)
    PROVE  NoNewUpdate
BY DEF TypeOK, Return, NoNewUpdate

LEMMA AdvanceKeeps ==
    ASSUME TypeOK, NEW t \in Tasks, NEW p, p # "update", call[t] # NoCall, Advance(t, p)
    PROVE  NoNewUpdate
<1>1. call[t] \in Call
  BY DEF TypeOK
<1>2. call'[t].at = p
  BY <1>1 DEF Advance, TypeOK, Call
<1>3. \A u \in Tasks \ {t} : call'[u] = call[u]
  BY DEF Advance, TypeOK
<1>. QED
  BY <1>2, <1>3 DEF NoNewUpdate

LEMMA BeginKeeps ==
    ASSUME TypeOK, NEW t \in Tasks, NEW k, NEW p, NEW s, p # "update", Begin(t, k, p, s)
    PROVE  NoNewUpdate
BY DEF Begin, TypeOK, NoNewUpdate

\* Such a step, if it leaves the records alone, disturbs neither invariant.
LEMMA RecordsUnchanged ==
    ASSUME RecordInv, TypeOK', UNCHANGED records, NoNewUpdate
    PROVE  CallInv' /\ ClosedOnItsOwnDay'
<1>1. ClosedOnItsOwnDay'
  BY DEF RecordInv, ClosedOnItsOwnDay, Stored, Open
<1>2. CallInv'
  BY DEF RecordInv, CallInv, InFlight, Stored, NoNewUpdate
<1>. QED
  BY <1>1, <1>2

LEMMA AddedIsRecord ==
    ASSUME TypeOK, NEW t \in Tasks, call[t] # NoCall
    PROVE  NewRecord(call[t].staff, call[t].time) \in Record
<1>1. call[t] \in Call
  BY DEF TypeOK
<1>. QED
  BY <1>1, DayType, ConstantsAssumption DEF NewRecord, Record, Call, Midnight, DateValue

LEMMA AddRecordKeeps ==
    ASSUME RecordInv, TypeOK', NEW t \in Tasks, AddRecord(t)
    PROVE  CallInv' /\ ClosedOnItsOwnDay'
<1>. USE DEF RecordInv
<1>1. PICK r \in RecIds \ Stored :
         records' = [records EXCEPT ![r] = NewRecord(call[t].staff, call[t].time)]
  BY DEF AddRecord
<1>2. \A q \in Stored : q # r /\ records'[q] = records[q]
  BY <1>1 DEF Stored, TypeOK
<1>3. records'[r] = NewRecord(call[t].staff, call[t].time)
  BY <1>1 DEF TypeOK
<1>4. Stored' \subseteq Stored \cup {r} /\ Stored \subseteq Stored'
  <2>1. NewRecord(call[t].staff, call[t].time) # NoRec
    BY AddedIsRecord, NullsAssumption DEF AddRecord, At
  <2>. QED
    BY <1>1, <1>2, <1>3, <2>1 DEF Stored, TypeOK
<1>5. ClosedOnItsOwnDay'
  <2>1. ASSUME NEW q \in Stored'
        PROVE  (/\ records[q].date = Midnight(Day(records[q].checkIn))
                /\ records[q].status = "completed" <=> ~Open(q)
                /\ ~Open(q) => /\ Day(records[q].checkOut) = Day(records[q].checkIn)
                               /\ records[q].duration = records[q].checkOut - records[q].checkIn)'
    <3>1. CASE q = r
      BY <3>1, <1>3 DEF NewRecord, Open
    <3>2. CASE q # r
      BY <3>2, <1>2, <1>4 DEF ClosedOnItsOwnDay, Open
    <3>. QED
      BY <3>1, <3>2
  <2>. QED
    BY <2>1 DEF ClosedOnItsOwnDay
<1>6. CallInv'
  <2>1. NoNewUpdate
    BY ReturnKeeps DEF AddRecord
  <2>. QED
    BY <2>1, <1>2, <1>4 DEF CallInv, InFlight, NoNewUpdate
<1>. QED
  BY <1>5, <1>6

LEMMA FindOpenKeeps ==
    ASSUME RecordInv, TypeOK', NEW t \in Tasks, FindOpen(t)
    PROVE  CallInv' /\ ClosedOnItsOwnDay'
<1>. USE DEF RecordInv
<1>1. CASE OpenToday(t) = {}
  <2>1. NoNewUpdate
    BY <1>1, ReturnKeeps DEF FindOpen
  <2>. QED
    BY <2>1, RecordsUnchanged DEF FindOpen
<1>2. ASSUME NEW r \in OpenToday(t),
             call' = [call EXCEPT ![t].at  = "update", ![t].rec = r,
                                  ![t].dur = call[t].time - records[r].checkIn]
      PROVE  CallInv' /\ ClosedOnItsOwnDay'
  <2>. DEFINE today == Day(call[t].time)
  <2>1. call[t] \in Call
    BY DEF FindOpen, At, TypeOK
  <2>2. r \in Stored /\ (records[r].date = Midnight(today) \/ records[r].date = DateKey(today))
    BY <1>2 DEF OpenToday
  <2>3. records[r].date # DateKey(today)
    BY <2>2, TimestampIsNoString DEF ClosedOnItsOwnDay
  <2>4. UNCHANGED records
    BY DEF FindOpen
  <2>5. /\ call'[t].rec = r
        /\ call'[t].time = call[t].time
        /\ call'[t].dur = call[t].time - records[r].checkIn
    BY <1>2, <2>1 DEF TypeOK, Call
  <2>6. \A u \in Tasks \ {t} : call'[u] = call[u]
    BY <1>2 DEF TypeOK
  <2>7. ClosedOnItsOwnDay'
    BY <2>4 DEF ClosedOnItsOwnDay, Stored, Open
  <2>8. CallInv'
    <3>1. ASSUME NEW u \in InFlight', call'[u].at = "update"
          PROVE  (/\ call[u].rec \in Stored
                  /\ records[call[u].rec].date = Midnight(Day(call[u].time))
                  /\ call[u].dur = call[u].time - records[call[u].rec].checkIn)'
      <4>1. CASE u = t
        BY <4>1, <2>2, <2>3, <2>4, <2>5 DEF Stored
      <4>2. CASE u # t
        BY <4>2, <3>1, <2>4, <2>6 DEF CallInv, InFlight, Stored
      <4>. QED
        BY <4>1, <4>2
    <3>. QED
      BY <3>1 DEF CallInv
  <2>. QED
    BY <2>7, <2>8
<1>. QED
  BY <1>1, <1>2 DEF FindOpen

\* What a check-out does to the record it closes, and to no other.
LEMMA UpdateRecordEffect ==
    ASSUME RecordInv, NEW t \in Tasks, UpdateRecord(t)
    PROVE  LET r == call[t].rec IN
           /\ call[t] \in Call /\ t \in InFlight /\ r \in Stored
           /\ records[r].date = Midnight(Day(call[t].time))
           /\ Day(records[r].checkIn) = Day(call[t].time)
           /\ call[t].dur = call[t].time - records[r].checkIn
           /\ records'[r] = [records[r] EXCEPT !.checkOut = call[t].time,
                                               !.duration = call[t].dur,
                                               !.status   = "completed"]
           /\ \A q \in RecIds : q # r => records'[q] = records[q]
           /\ Stored' = Stored
<1>. USE DEF RecordInv
<1>. DEFINE r == call[t].rec
<1>1. call[t] \in Call /\ t \in InFlight /\ call[t].at = "update"
  BY DEF UpdateRecord, At, TypeOK, InFlight
<1>2. /\ r \in Stored
      /\ records[r].date = Midnight(Day(call[t].time))
      /\ call[t].dur = call[t].time - records[r].checkIn
  BY <1>1 DEF CallInv
<1>3. Day(records[r].checkIn) = Day(call[t].time)
  BY <1>2, MidnightInjective DEF ClosedOnItsOwnDay
<1>4. r \in RecIds /\ records[r] \in Record
  BY <1>2 DEF Stored, TypeOK
<1>5. records'[r] = [records[r] EXCEPT !.checkOut = call[t].time,
                                       !.duration = call[t].dur,
                                       !.status   = "completed"]
  BY <1>4 DEF UpdateRecord, TypeOK, Record
<1>6. \A q \in RecIds : q # r => records'[q] = records[q]
  BY <1>4 DEF UpdateRecord, TypeOK
<1>7. records'[r] \in Record
  BY <1>1, <1>4, <1>5 DEF Record, Call
<1>8. Stored' = Stored
  BY <1>2, <1>4, <1>6, <1>7, NullsAssumption DEF Stored
<1>. QED
  BY <1>1, <1>2, <1>3, <1>5, <1>6, <1>8

LEMMA UpdateRecordKeeps ==
    ASSUME RecordInv, TypeOK', NEW t \in Tasks, UpdateRecord(t)
    PROVE  CallInv' /\ ClosedOnItsOwnDay'
<1>. USE DEF RecordInv
<1>. DEFINE r == call[t].rec
<1>1. /\ call[t] \in Call /\ r \in Stored
      /\ Day(records[r].checkIn) = Day(call[t].time)
      /\ call[t].dur = call[t].time - records[r].checkIn
      /\ records'[r] = [records[r] EXCEPT !.checkOut = call[t].time,
                                          !.duration = call[t].dur,
                                          !.status   = "completed"]
      /\ \A q \in RecIds : q # r => records'[q] = records[q]
      /\ Stored' = Stored
  BY UpdateRecordEffect
<1>2. r \in RecIds /\ records[r] \in Record
  BY <1>1 DEF Stored, TypeOK
<1>3. /\ records'[r].date = records[r].date
      /\ records'[r].checkIn = records[r].checkIn
      /\ records'[r].checkOut = call[t].time
      /\ records'[r].duration = call[t].dur
      /\ records'[r].status = "completed"
  BY <1>1, <1>2 DEF Record
<1>4. call[t].time # NoTime
  BY <1>1, ConstantsAssumption DEF Call
<1>5. ClosedOnItsOwnDay'
  <2>1. ASSUME NEW q \in Stored'
        PROVE  (/\ records[q].date = Midnight(Day(records[q].checkIn))
                /\ records[q].status = "completed" <=> ~Open(q)
                /\ ~Open(q) => /\ Day(records[q].checkOut) = Day(records[q].checkIn)
                               /\ records[q].duration = records[q].checkOut - records[q].checkIn)'
    <3>1. CASE q = r
      BY <3>1, <1>1, <1>3, <1>4 DEF Open, ClosedOnItsOwnDay
    <3>2. CASE q # r
      BY <3>2, <1>1 DEF ClosedOnItsOwnDay, Open, Stored
    <3>. QED
      BY <3>1, <3>2
  <2>. QED
    BY <2>1 DEF ClosedOnItsOwnDay
<1>6. CallInv'
  <2>1. NoNewUpdate
    <3>1. CASE call[t].kind = "staff_out"
      BY <3>1, AdvanceKeeps DEF UpdateRecord, At
    <3>2. CASE call[t].kind # "staff_out"
      BY <3>2, ReturnKeeps DEF UpdateRecord
    <3>. QED
      BY <3>1, <3>2
  <2>2. \A q \in Stored : /\ records'[q].date = records[q].date
                          /\ records'[q].checkIn = records[q].checkIn
    BY <1>1, <1>3 DEF Stored
  <2>. QED
    BY <1>1, <2>1, <2>2 DEF CallInv, InFlight, NoNewUpdate
<1>. QED
  BY <1>5, <1>6

LEMMA CallStepKeeps ==
    ASSUME RecordInv, TypeOK', NEW t \in Tasks, CallStep(t)
    PROVE  CallInv' /\ ClosedOnItsOwnDay'
<1>. USE DEF RecordInv
<1>1. CASE TouchStaff(t)
  <2>1. NoNewUpdate
    BY <1>1, ReturnKeeps, AdvanceKeeps DEF TouchStaff, At
  <2>. QED
    BY <1>1, <2>1, RecordsUnchanged DEF TouchStaff
<1>2. CASE GuardCheckIn(t)
  <2>1. NoNewUpdate
    BY <1>2, ReturnKeeps, AdvanceKeeps DEF GuardCheckIn, At
  <2>. QED
    BY <1>2, <2>1, RecordsUnchanged DEF GuardCheckIn
<1>3. CASE AddRecord(t)
  BY <1>3, AddRecordKeeps
<1>4. CASE FindOpen(t)
  BY <1>4, FindOpenKeeps
<1>5. CASE UpdateRecord(t)
  BY <1>5, UpdateRecordKeeps
<1>6. CASE ReadCounters(t)
  <2>1. CASE staffDoc[call[t].staff] \in Counters
    <3>1. call[t] \in Call
      BY <1>6 DEF ReadCounters, At, TypeOK
    <3>2. call'[t].at = "write"
      BY <1>6, <2>1, <3>1 DEF ReadCounters, TypeOK, Call
    <3>3. \A u \in Tasks \ {t} : call'[u] = call[u]
      BY <1>6, <2>1 DEF ReadCounters, TypeOK
    <3>4. NoNewUpdate
      BY <3>2, <3>3 DEF NoNewUpdate
    <3>. QED
      BY <1>6, <3>4, RecordsUnchanged DEF ReadCounters
  <2>2. CASE staffDoc[call[t].staff] \notin Counters
    <3>1. NoNewUpdate
      BY <1>6, <2>2, ReturnKeeps DEF ReadCounters
    <3>. QED
      BY <1>6, <3>1, RecordsUnchanged DEF ReadCounters
  <2>. QED
    BY <2>1, <2>2
<1>7. CASE WriteCounters(t)
  <2>1. NoNewUpdate
    BY <1>7, ReturnKeeps DEF WriteCounters
  <2>. QED
    BY <1>7, <2>1, RecordsUnchanged DEF WriteCounters
<1>8. CASE CallFails(t)
  <2>1. NoNewUpdate
    BY <1>8, ReturnKeeps DEF CallFails
  <2>. QED
    BY <1>8, <2>1, RecordsUnchanged DEF CallFails
<1>. QED
  BY <1>1, <1>2, <1>3, <1>4, <1>5, <1>6, <1>7, <1>8 DEF CallStep

LEMMA NextRecordInv == RecordInv /\ [Next]_vars => RecordInv'
<1>. SUFFICES ASSUME RecordInv, [Next]_vars PROVE RecordInv'
  OBVIOUS
<1>0. TypeOK'
  BY NextType
<1>1. ASSUME NEW t \in Tasks, CallStep(t) PROVE CallInv' /\ ClosedOnItsOwnDay'
  BY <1>0, <1>1, CallStepKeeps
<1>2. ASSUME NEW t \in Tasks, NEW s \in Staff, Starts(t, s)
      PROVE  CallInv' /\ ClosedOnItsOwnDay'
  <2>1. PICK k \in Kinds, p \in Points \ {"update"} : Begin(t, k, p, s)
    BY <1>2 DEF Starts, StaffCheckIn, StaffCheckOut, AttendanceCheckIn, AttendanceCheckOut,
           Kinds, Points
  <2>2. NoNewUpdate
    BY <2>1, BeginKeeps DEF RecordInv
  <2>. QED
    BY <1>0, <2>1, <2>2, RecordsUnchanged DEF Begin
<1>3. ASSUME UNCHANGED <<records, call>> PROVE CallInv' /\ ClosedOnItsOwnDay'
  BY <1>0, <1>3, RecordsUnchanged DEF NoNewUpdate
<1>. QED
  BY <1>0, <1>1, <1>2, <1>3
  DEF Next, OpenForm, UpdateStaff, DeleteStaff, Tick, vars, RecordInv

\* Every variable keeps its type: in particular no check-out computes with a
\* missing counter, since staffDoc['totalHoursWorked'] throws first.
THEOREM TypeCorrect == Spec => []TypeOK
<1>1. RecordInv => TypeOK
  BY DEF RecordInv
<1>. QED
  BY <1>1, InitRecordInv, NextRecordInv, PTL DEF Spec

\* Types, pending updates and closed records stand together: the invariant the
\* other theorems use.
THEOREM RecordInvariant == Spec => []RecordInv
BY InitRecordInv, NextRecordInv, PTL DEF Spec

\* A record is closed on the day it was opened, by a check-out made that day.
THEOREM ClosesOnItsOwnDay == Spec => []ClosedOnItsOwnDay
<1>1. RecordInv => ClosedOnItsOwnDay
  BY DEF RecordInv
<1>. QED
  BY <1>1, RecordInvariant, PTL

-----------------------------------------------------------------------------
(* The past is frozen *)

\* Only the day of the call itself is touched.
LEMMA StepTouchesCallsDay ==
    ASSUME RecordInv, [Next]_vars, NEW r \in Stored, records'[r] # records[r]
    PROVE  \E t \in InFlight : records[r].date = Midnight(Day(call[t].time))
<1>1. ASSUME NEW t \in Tasks, CallStep(t), ~UpdateRecord(t) PROVE records'[r] = records[r]
  BY <1>1 DEF CallStep, TouchStaff, GuardCheckIn, AddRecord, FindOpen, ReadCounters,
              WriteCounters, CallFails, RecordInv, TypeOK, Stored
<1>2. ASSUME NEW t \in Tasks, UpdateRecord(t)
      PROVE  \E u \in InFlight : records[r].date = Midnight(Day(call[u].time))
  BY <1>2, UpdateRecordEffect DEF Stored
<1>. QED
  BY <1>1, <1>2 DEF Next, Starts, StaffCheckIn, StaffCheckOut, AttendanceCheckIn,
     AttendanceCheckOut, Begin, OpenForm, UpdateStaff, DeleteStaff, Tick, vars

\* Once a day is over and no call begun on it is in flight, its records are final.
THEOREM PastIsFrozen == Spec => HistoryFrozen
<1>1. RecordInv /\ [Next]_vars =>
        [\A r \in Stored :
            records[r].date.day < Day(now) /\ ~LateCall(records[r].date.day)
                => records'[r] = records[r]]_vars
  <2>. SUFFICES ASSUME RecordInv, [Next]_vars, NEW r \in Stored,
                       ~LateCall(records[r].date.day), records'[r] # records[r]
                PROVE  FALSE
    OBVIOUS
  <2>1. PICK t \in InFlight : records[r].date = Midnight(Day(call[t].time))
    BY StepTouchesCallsDay
  <2>2. records[r].date.day = Day(call[t].time)
    BY <2>1 DEF Midnight
  <2>. QED
    BY <2>2 DEF LateCall
<1>. QED
  BY <1>1, RecordInvariant, PTL DEF Spec, HistoryFrozen

-----------------------------------------------------------------------------
(* The records implement the time sheet *)

LEMMA EntryOfRecord ==
    ASSUME TypeOK, NEW r \in RecIds
    PROVE  Entry(r) = NoRec <=> r \notin Stored
<1>1. ASSUME records[r] # NoRec PROVE Entry(r) # NoRec
  <2>1. records[r] \in Record
    BY <1>1 DEF TypeOK
  <2>2. Entry(r) \in [staff : Staff, from : 0..MaxTime, to : 0..MaxTime \cup {NoTime}]
    BY <1>1, <2>1 DEF Entry, Record
  <2>. QED
    BY <2>2, NullsAssumption
<1>. QED
  BY <1>1 DEF Entry, Stored

LEMMA SameRecordsSameEntries ==
    ASSUME UNCHANGED records
    PROVE  UNCHANGED [r \in RecIds |-> Entry(r)]
BY DEF Entry

LEMMA AddRecordPunchesIn ==
    ASSUME RecordInv, NEW t \in Tasks, AddRecord(t)
    PROVE  Ledger!Next
<1>1. PICK r \in RecIds \ Stored :
         records' = [records EXCEPT ![r] = NewRecord(call[t].staff, call[t].time)]
  BY DEF AddRecord
<1>2. call[t] \in Call
  BY DEF AddRecord, At, RecordInv, TypeOK
<1>3. NewRecord(call[t].staff, call[t].time) # NoRec
  BY AddedIsRecord, NullsAssumption DEF AddRecord, At, RecordInv
<1>4. Entry(r) = NoRec
  BY EntryOfRecord DEF RecordInv
<1>5. Entry(r)' = [staff |-> call[t].staff, from |-> call[t].time, to |-> NoTime]
  BY <1>1, <1>3 DEF Entry, NewRecord, RecordInv, TypeOK
<1>6. \A q \in RecIds : q # r => Entry(q)' = Entry(q)
  BY <1>1 DEF Entry, RecordInv, TypeOK
<1>7. Ledger!PunchIn(r, call[t].staff, call[t].time)
  BY <1>4, <1>5, <1>6 DEF Ledger!PunchIn
<1>. QED
  BY <1>2, <1>7 DEF Ledger!Next, Call

LEMMA UpdateRecordPunchesOut ==
    ASSUME RecordInv, NEW t \in Tasks, UpdateRecord(t)
    PROVE  Ledger!Next
<1>0. PICK r \in RecIds : r = call[t].rec
  BY UpdateRecordEffect DEF Stored
<1>1. /\ call[t] \in Call /\ r \in Stored
      /\ Day(records[r].checkIn) = Day(call[t].time)
      /\ records'[r] = [records[r] EXCEPT !.checkOut = call[t].time,
                                          !.duration = call[t].dur,
                                          !.status   = "completed"]
      /\ \A q \in RecIds : q # r => records'[q] = records[q]
      /\ Stored' = Stored
  BY <1>0, UpdateRecordEffect
<1>2. r \in RecIds /\ records[r] \in Record /\ records[r] # NoRec /\ records'[r] # NoRec
  BY <1>1 DEF Stored, RecordInv, TypeOK
<1>3. Entry(r) # NoRec
  BY <1>1, EntryOfRecord DEF RecordInv, Stored
<1>4. Entry(r) = [staff |-> records[r].staff, from |-> records[r].checkIn,
                  to |-> records[r].checkOut]
  BY <1>2 DEF Entry
<1>5. Entry(r)' = [staff |-> records[r].staff, from |-> records[r].checkIn,
                   to |-> call[t].time]
  <2>1. /\ records'[r].staff = records[r].staff
        /\ records'[r].checkIn = records[r].checkIn
        /\ records'[r].checkOut = call[t].time
    BY <1>1, <1>2 DEF Record
  <2>. QED
    BY <1>2, <2>1 DEF Entry
<1>6. \A q \in RecIds : q # r => Entry(q)' = Entry(q)
  BY <1>1 DEF Entry
<1>7. Ledger!PunchOut(r, call[t].time)
  <2>. DEFINE e == [q \in RecIds |-> Entry(q)]
  <2>1. Entry(r)' = [Entry(r) EXCEPT !.to = call[t].time]
    BY <1>4, <1>5
  <2>2. e' = [e EXCEPT ![r].to = call[t].time]
    BY <1>2, <1>6, <2>1
  <2>3. Ledger!DayOf(call[t].time) = Ledger!DayOf(e[r].from)
    BY <1>1, <1>2, <1>4 DEF Ledger!DayOf, Day
  <2>. QED
    BY <1>2, <1>3, <2>2, <2>3 DEF Ledger!PunchOut
<1>. QED
  BY <1>1, <1>2, <1>7 DEF Ledger!Next, Call

\* Every interleaving of the two services is a behaviour of the time sheet.
THEOREM RefinesLedger == Spec => ImplementsLedger
<1>1. Init => Ledger!Init
  BY DEF Init, Ledger!Init, Entry
<1>2. RecordInv /\ [Next]_vars => [Ledger!Next]_([r \in RecIds |-> Entry(r)])
  <2>. SUFFICES ASSUME RecordInv, [Next]_vars
                PROVE  Ledger!Next \/ UNCHANGED [r \in RecIds |-> Entry(r)]
    OBVIOUS
  <2>1. ASSUME NEW t \in Tasks, CallStep(t)
        PROVE  Ledger!Next \/ UNCHANGED [r \in RecIds |-> Entry(r)]
    <3>1. CASE AddRecord(t)
      BY <3>1, AddRecordPunchesIn
    <3>2. CASE UpdateRecord(t)
      BY <3>2, UpdateRecordPunchesOut
    <3>3. CASE UNCHANGED records
      BY <3>3, SameRecordsSameEntries
    <3>. QED
      BY <2>1, <3>1, <3>2, <3>3 DEF CallStep, TouchStaff, GuardCheckIn, FindOpen,
         ReadCounters, WriteCounters, CallFails
  <2>2. CASE UNCHANGED records
    BY <2>2, SameRecordsSameEntries
  <2>. QED
    BY <2>1, <2>2 DEF Next, Starts, StaffCheckIn, StaffCheckOut, AttendanceCheckIn,
       AttendanceCheckOut, Begin, OpenForm, UpdateStaff, DeleteStaff, Tick, vars
<1>. QED
  BY <1>1, <1>2, RecordInvariant, PTL DEF Spec, ImplementsLedger, Ledger!Spec

-----------------------------------------------------------------------------
(* The shift counter never runs ahead of the closes                          *)

\* How many closes of s no check-out in flight has still to credit.
Spare(s) == closes[s] - Cardinality(Crediting(s))

\* Every number that is, or may yet be written to, the counter of s is covered:
\* the document, what a check-out has read, and what an edit form holds.
CreditInv ==
    \A s \in Staff :
        /\ 0 <= Spare(s)
        /\ staffDoc[s] \in Counters => staffDoc[s].shifts <= Spare(s)
        /\ \A t \in Crediting(s) : call[t].at = "write" => call[t].seen.shifts <= Spare(s)
        /\ \A e \in Editors : draft[e] # NoDraft /\ draft[e].staff = s
                                => draft[e].counters.shifts <= Spare(s)

LEMMA CreditingFinite ==
    ASSUME NEW s \in Staff
    PROVE  IsFiniteSet(Crediting(s)) /\ Cardinality(Crediting(s)) \in Nat
<1>1. Crediting(s) \subseteq Tasks
  BY DEF Crediting, InFlight
<1>. QED
  BY <1>1, ConstantsAssumption, FS_Subset, FS_CardinalityType

LEMMA CreditingFinitePrimed ==
    ASSUME NEW s \in Staff
    PROVE  IsFiniteSet(Crediting(s)') /\ Cardinality(Crediting(s)') \in Nat
<1>1. Crediting(s)' \subseteq Tasks
  BY DEF Crediting, InFlight
<1>. QED
  BY <1>1, ConstantsAssumption, FS_Subset, FS_CardinalityType

LEMMA SpareType ==
    ASSUME TypeOK, TypeOK', NEW s \in Staff
    PROVE  Spare(s) \in Int /\ Spare(s)' \in Int
BY CreditingFinite, CreditingFinitePrimed DEF Spare, TypeOK

LEMMA FewerCrediting ==
    ASSUME TypeOK, TypeOK', NEW s \in Staff,
           Crediting(s)' \subseteq Crediting(s), closes'[s] = closes[s]
    PROVE  Spare(s) <= Spare(s)'
<1>1. Cardinality(Crediting(s)') <= Cardinality(Crediting(s))
  BY CreditingFinite, FS_Subset
<1>. QED
  BY <1>1, CreditingFinite, CreditingFinitePrimed DEF Spare, TypeOK

LEMMA OneMoreCrediting ==
    ASSUME TypeOK, TypeOK', NEW s \in Staff, NEW t \in Tasks,
           Crediting(s)' \subseteq Crediting(s) \cup {t}, closes'[s] = closes[s] + 1
    PROVE  Spare(s) <= Spare(s)'
<1>1. /\ IsFiniteSet(Crediting(s) \cup {t})
      /\ Cardinality(Crediting(s) \cup {t}) <= Cardinality(Crediting(s)) + 1
  <2>1. /\ IsFiniteSet(Crediting(s) \cup {t})
        /\ Cardinality(Crediting(s) \cup {t}) =
             IF t \in Crediting(s) THEN Cardinality(Crediting(s))
             ELSE Cardinality(Crediting(s)) + 1
    BY CreditingFinite, FS_AddElement
  <2>. QED
    BY <2>1, CreditingFinite
<1>2. Cardinality(Crediting(s)') <= Cardinality(Crediting(s) \cup {t})
  BY <1>1, FS_Subset
<1>3. Cardinality(Crediting(s) \cup {t}) \in Nat
  BY <1>1, FS_CardinalityType
<1>. QED
  BY <1>1, <1>2, <1>3, CreditingFinite, CreditingFinitePrimed DEF Spare, TypeOK

LEMMA OneLessCrediting ==
    ASSUME TypeOK, TypeOK', NEW s \in Staff, NEW t \in Crediting(s),
           Crediting(s)' \subseteq Crediting(s) \ {t}, closes'[s] = closes[s]
    PROVE  Spare(s) + 1 <= Spare(s)'
<1>1. /\ IsFiniteSet(Crediting(s) \ {t})
      /\ Cardinality(Crediting(s) \ {t}) = Cardinality(Crediting(s)) - 1
  BY CreditingFinite, FS_RemoveElement
<1>2. Cardinality(Crediting(s)') <= Cardinality(Crediting(s) \ {t})
  BY <1>1, FS_Subset
<1>. QED
  BY <1>1, <1>2, CreditingFinite, CreditingFinitePrimed DEF Spare, TypeOK

\* A step that credits nobody new leaves every cover at least as large.
NoNewCrediting ==
    \A s \in Staff : Crediting(s)' \subseteq Crediting(s)

LEMMA QuietCall ==
    ASSUME TypeOK, NEW t \in Tasks,
           \A u \in Tasks \ {t} : call'[u] = call[u],
           call'[t] # NoCall => call'[t].at \notin {"read", "write"}
    PROVE  NoNewCrediting
BY DEF NoNewCrediting, Crediting, InFlight

LEMMA ReturnQuiet ==
    ASSUME TypeOK, NEW t \in Tasks, NEW a, Return(t, a)
    PROVE  NoNewCrediting
<1>1. call'[t] = NoCall /\ \A u \in Tasks \ {t} : call'[u] = call[u]
  BY DEF Return, TypeOK
<1>. QED
  BY <1>1, QuietCall

LEMMA AdvanceQuiet ==
    ASSUME TypeOK, NEW t \in Tasks, NEW p, p \notin {"read", "write"}, At(t, call[t].at),
           Advance(t, p)
    PROVE  NoNewCrediting
<1>1. call[t] \in Call
  BY DEF At, TypeOK
<1>2. call'[t].at = p /\ \A u \in Tasks \ {t} : call'[u] = call[u]
  BY <1>1 DEF Advance, TypeOK, Call
<1>. QED
  BY <1>2, QuietCall

\* Every step of a call but the update of its record.
LEMMA CallStepQuiet ==
    ASSUME TypeOK, NEW t \in Tasks, CallStep(t), ~UpdateRecord(t)
    PROVE  NoNewCrediting /\ UNCHANGED closes
<1>1. CASE TouchStaff(t)
  BY <1>1, ReturnQuiet, AdvanceQuiet DEF TouchStaff, At
<1>2. CASE GuardCheckIn(t)
  BY <1>2, ReturnQuiet, AdvanceQuiet DEF GuardCheckIn, At
<1>3. CASE AddRecord(t)
  BY <1>3, ReturnQuiet DEF AddRecord
<1>4. CASE FindOpen(t)
  <2>1. CASE OpenToday(t) = {}
    BY <1>4, <2>1, ReturnQuiet DEF FindOpen
  <2>2. ASSUME NEW r \in OpenToday(t),
               call' = [call EXCEPT ![t].at  = "update", ![t].rec = r,
                                    ![t].dur = call[t].time - records[r].checkIn]
        PROVE  NoNewCrediting
    <3>1. call[t] \in Call
      BY <1>4 DEF FindOpen, At, TypeOK
    <3>2. call'[t].at = "update" /\ \A u \in Tasks \ {t} : call'[u] = call[u]
      BY <2>2, <3>1 DEF TypeOK, Call
    <3>. QED
      BY <3>2, QuietCall
  <2>. QED
    BY <1>4, <2>1, <2>2 DEF FindOpen
<1>5. CASE ReadCounters(t)
  <2>1. CASE staffDoc[call[t].staff] \in Counters
    <3>1. call[t] \in Call /\ call[t] # NoCall /\ call[t].at = "read"
      BY <1>5 DEF ReadCounters, At, TypeOK
    <3>2. call'[t].staff = call[t].staff /\ \A u \in Tasks \ {t} : call'[u] = call[u]
      BY <1>5, <2>1, <3>1 DEF ReadCounters, TypeOK, Call
    <3>3. NoNewCrediting
      BY <3>1, <3>2 DEF NoNewCrediting, Crediting, InFlight
    <3>. QED
      BY <1>5, <3>3 DEF ReadCounters
  <2>2. CASE staffDoc[call[t].staff] \notin Counters
    BY <1>5, <2>2, ReturnQuiet DEF ReadCounters
  <2>. QED
    BY <2>1, <2>2
<1>6. CASE WriteCounters(t)
  BY <1>6, ReturnQuiet DEF WriteCounters
<1>7. CASE CallFails(t)
  BY <1>7, ReturnQuiet DEF CallFails
<1>. QED
  BY <1>1, <1>2, <1>3, <1>4, <1>5, <1>6, <1>7 DEF CallStep

LEMMA UpdateRecordSpare ==
    ASSUME RecordInv, TypeOK', NEW t \in Tasks, UpdateRecord(t), NEW s \in Staff
    PROVE  Spare(s) <= Spare(s)'
<1>. USE DEF RecordInv
<1>1. call[t] \in Call /\ call[t] # NoCall
  BY DEF UpdateRecord, At, TypeOK
<1>2. /\ \A u \in Tasks \ {t} : call'[u] = call[u]
      /\ call'[t] # NoCall => call'[t].staff = call[t].staff
  BY <1>1 DEF UpdateRecord, Advance, Return, TypeOK, Call
<1>3. CASE s = call[t].staff
  <2>1. Crediting(s)' \subseteq Crediting(s) \cup {t}
    BY <1>2 DEF Crediting, InFlight
  <2>2. closes'[s] = closes[s] + 1
    BY <1>1, <1>3 DEF UpdateRecord, TypeOK, Call
  <2>. QED
    BY <2>1, <2>2, OneMoreCrediting
<1>4. CASE s # call[t].staff
  <2>1. Crediting(s)' \subseteq Crediting(s)
    BY <1>2, <1>4 DEF Crediting, InFlight
  <2>2. closes'[s] = closes[s]
    BY <1>1, <1>4 DEF UpdateRecord, TypeOK, Call
  <2>. QED
    BY <2>1, <2>2, FewerCrediting
<1>. QED
  BY <1>3, <1>4

LEMMA SpareNeverShrinks ==
    ASSUME RecordInv, TypeOK', [Next]_vars, NEW s \in Staff
    PROVE  Spare(s) <= Spare(s)'
<1>. USE DEF RecordInv
<1>1. ASSUME NEW t \in Tasks, CallStep(t) PROVE Spare(s) <= Spare(s)'
  <2>1. CASE UpdateRecord(t)
    BY <2>1, UpdateRecordSpare
  <2>2. CASE ~UpdateRecord(t)
    BY <1>1, <2>2, CallStepQuiet, FewerCrediting DEF NoNewCrediting
  <2>. QED
    BY <2>1, <2>2
<1>2. ASSUME NEW t \in Tasks, NEW u \in Staff, Starts(t, u) PROVE Spare(s) <= Spare(s)'
  <2>1. PICK k \in Kinds, p \in {"touch", "guard", "find"} : Begin(t, k, p, u)
    BY <1>2 DEF Starts, StaffCheckIn, StaffCheckOut, AttendanceCheckIn, AttendanceCheckOut, Kinds
  <2>2. call'[t].at = p /\ \A v \in Tasks \ {t} : call'[v] = call[v]
    BY <2>1 DEF Begin, TypeOK
  <2>3. NoNewCrediting
    BY <2>2, QuietCall
  <2>. QED
    BY <2>1, <2>3, FewerCrediting DEF Begin, NoNewCrediting
<1>3. ASSUME UNCHANGED <<call, closes>> PROVE Spare(s) <= Spare(s)'
  BY <1>3, FewerCrediting DEF Crediting, InFlight
<1>. QED
  BY <1>1, <1>2, <1>3 DEF Next, OpenForm, UpdateStaff, DeleteStaff, Tick, vars

\* What the document of s says after a step is covered.
LEMMA DocumentCovered ==
    ASSUME RecordInv, CreditInv, TypeOK', [Next]_vars, NEW s \in Staff,
           staffDoc'[s] \in Counters
    PROVE  staffDoc'[s].shifts <= Spare(s)'
<1>. USE DEF RecordInv
<1>1. Spare(s) <= Spare(s)' /\ Spare(s) \in Int /\ Spare(s)' \in Int
  BY SpareNeverShrinks, SpareType
<1>2. CASE staffDoc'[s] = staffDoc[s]
  BY <1>1, <1>2 DEF CreditInv, Counters
<1>3. ASSUME NEW t \in Tasks, WriteCounters(t), staffDoc'[s] # staffDoc[s]
      PROVE  staffDoc'[s].shifts <= Spare(s)'
  <2>1. call[t] \in Call /\ call[t] # NoCall /\ call[t].at = "write"
    BY <1>3 DEF WriteCounters, At, TypeOK
  <2>2. s = call[t].staff /\ staffDoc'[s] = Credit(call[t])
    BY <1>3, <2>1 DEF WriteCounters, TypeOK, Call
  <2>3. t \in Crediting(s) /\ call[t].seen.shifts <= Spare(s)
    BY <2>1, <2>2 DEF Crediting, InFlight, CreditInv
  <2>4. Crediting(s)' \subseteq Crediting(s) \ {t}
    <3>1. call'[t] = NoCall /\ \A u \in Tasks \ {t} : call'[u] = call[u]
      BY <1>3, <2>1 DEF WriteCounters, Return, TypeOK
    <3>. QED
      BY <3>1 DEF Crediting, InFlight
  <2>5. Spare(s) + 1 <= Spare(s)'
    BY <1>3, <2>3, <2>4, OneLessCrediting DEF WriteCounters
  <2>. QED
    BY <1>1, <2>1, <2>2, <2>3, <2>5 DEF Credit, Call, Counters
<1>4. ASSUME NEW e \in Editors, UpdateStaff(e), staffDoc'[s] # staffDoc[s]
      PROVE  staffDoc'[s].shifts <= Spare(s)'
  <2>1. draft[e] # NoDraft /\ draft[e].staff = s /\ staffDoc'[s] = draft[e].counters
    BY <1>4 DEF UpdateStaff, TypeOK
  <2>. QED
    BY <1>1, <2>1 DEF CreditInv, TypeOK, Counters
<1>5. ASSUME NEW u \in Staff, DeleteStaff(u) PROVE staffDoc'[s] = staffDoc[s]
  BY <1>5, NullsAssumption DEF DeleteStaff, TypeOK, Doc
<1>. QED
  BY <1>2, <1>3, <1>4, <1>5 DEF Next, CallStep, TouchStaff, GuardCheckIn, AddRecord,
     FindOpen, UpdateRecord, ReadCounters, CallFails, Starts, StaffCheckIn, StaffCheckOut,
     AttendanceCheckIn, AttendanceCheckOut, Begin, OpenForm, Tick, vars

\* A call waits to write either what it waited to write before, or what it has
\* just read.
LEMMA NewWrite ==
    ASSUME TypeOK, [Next]_vars, NEW t \in Tasks, call'[t] # NoCall, call'[t].at = "write"
    PROVE  \/ call'[t] = call[t]
           \/ /\ call[t] # NoCall
              /\ call[t].at = "read"
              /\ call'[t].staff = call[t].staff
              /\ staffDoc[call[t].staff] \in Counters
              /\ call'[t].seen = staffDoc[call[t].staff]
<1>. DEFINE Goal == \/ call'[t] = call[t]
                    \/ /\ call[t] # NoCall
                       /\ call[t].at = "read"
                       /\ call'[t].staff = call[t].staff
                       /\ staffDoc[call[t].staff] \in Counters
                       /\ call'[t].seen = staffDoc[call[t].staff]
<1>1. ASSUME NEW u \in Tasks, NEW a, Return(u, a) PROVE Goal
  BY <1>1 DEF Return, TypeOK
<1>2. ASSUME NEW u \in Tasks, NEW p, p # "write", Advance(u, p), call[u] # NoCall PROVE Goal
  <2>1. call'[u].at = p
    BY <1>2 DEF Advance, TypeOK, Call
  <2>. QED
    BY <1>2, <2>1 DEF Advance, TypeOK
<1>3. ASSUME NEW u \in Tasks, NEW k, NEW p, NEW s, p # "write", Begin(u, k, p, s) PROVE Goal
  BY <1>3 DEF Begin, TypeOK
<1>4. ASSUME NEW u \in Tasks, ReadCounters(u) PROVE Goal
  <2>1. CASE staffDoc[call[u].staff] \in Counters
    <3>1. call[u] \in Call /\ call[u] # NoCall /\ call[u].at = "read"
      BY <1>4 DEF ReadCounters, At, TypeOK
    <3>2. /\ call'[u].staff = call[u].staff /\ call'[u].seen = staffDoc[call[u].staff]
          /\ \A v \in Tasks \ {u} : call'[v] = call[v]
      BY <1>4, <2>1, <3>1 DEF ReadCounters, TypeOK, Call
    <3>. QED
      BY <2>1, <3>1, <3>2
  <2>2. CASE staffDoc[call[u].staff] \notin Counters
    BY <1>1, <1>4, <2>2 DEF ReadCounters
  <2>. QED
    BY <2>1, <2>2
<1>5. ASSUME NEW u \in Tasks, FindOpen(u) PROVE Goal
  <2>1. CASE OpenToday(u) = {}
    BY <1>1, <1>5, <2>1 DEF FindOpen
  <2>2. ASSUME NEW r \in OpenToday(u),
               call' = [call EXCEPT ![u].at  = "update", ![u].rec = r,
                                    ![u].dur = call[u].time - records[r].checkIn]
        PROVE  Goal
    <3>1. call[u] \in Call
      BY <1>5 DEF FindOpen, At, TypeOK
    <3>2. call'[u].at = "update" /\ \A v \in Tasks \ {u} : call'[v] = call[v]
      BY <2>2, <3>1 DEF TypeOK, Call
    <3>. QED
      BY <3>2
  <2>. QED
    BY <1>5, <2>1, <2>2 DEF FindOpen
<1>6. ASSUME UNCHANGED call PROVE Goal
  BY <1>6
<1>. HIDE DEF Goal
<1>7. ASSUME NEW u \in Tasks, CallStep(u) PROVE Goal
  <2>1. CASE TouchStaff(u)
    BY <1>1, <1>2, <2>1 DEF TouchStaff, At
  <2>2. CASE GuardCheckIn(u)
    BY <1>1, <1>2, <2>2 DEF GuardCheckIn, At
  <2>3. CASE AddRecord(u) \/ WriteCounters(u) \/ CallFails(u)
    BY <1>1, <2>3 DEF AddRecord, WriteCounters, CallFails
  <2>4. CASE UpdateRecord(u)
    BY <1>1, <1>2, <2>4 DEF UpdateRecord, At
  <2>. QED
    BY <1>4, <1>5, <1>7, <2>1, <2>2, <2>3, <2>4 DEF CallStep
<1>8. ASSUME NEW u \in Tasks, NEW s \in Staff, Starts(u, s) PROVE Goal
  <2>1. PICK k \in Kinds, p \in Points \ {"write"} : Begin(u, k, p, s)
    BY <1>8 DEF Starts, StaffCheckIn, StaffCheckOut, AttendanceCheckIn, AttendanceCheckOut,
           Kinds, Points
  <2>. QED
    BY <1>3, <2>1
<1>9. \/ \E u \in Tasks : CallStep(u)
      \/ \E u \in Tasks, s \in Staff : Starts(u, s)
      \/ UNCHANGED call
  BY DEF Next, OpenForm, UpdateStaff, DeleteStaff, Tick, vars
<1>10. Goal
  BY <1>6, <1>7, <1>8, <1>9
<1>. QED
  BY <1>10 DEF Goal

LEMMA NextCreditInv == RecordInv /\ CreditInv /\ [Next]_vars => CreditInv'
<1>. SUFFICES ASSUME RecordInv, CreditInv, [Next]_vars, NEW s \in Staff
              PROVE  (/\ 0 <= Spare(s)
                      /\ staffDoc[s] \in Counters => staffDoc[s].shifts <= Spare(s)
                      /\ \A t \in Crediting(s) :
                            call[t].at = "write" => call[t].seen.shifts <= Spare(s)
                      /\ \A e \in Editors : draft[e] # NoDraft /\ draft[e].staff = s
                                              => draft[e].counters.shifts <= Spare(s))'
  BY DEF CreditInv
<1>. USE DEF RecordInv
<1>1. TypeOK'
  BY NextType
<1>2. Spare(s) <= Spare(s)' /\ Spare(s) \in Int /\ Spare(s)' \in Int
  BY <1>1, SpareNeverShrinks, SpareType
<1>3. 0 <= Spare(s)'
  BY <1>2 DEF CreditInv
<1>4. staffDoc'[s] \in Counters => staffDoc'[s].shifts <= Spare(s)'
  BY <1>1, DocumentCovered
<1>5. ASSUME NEW t \in Crediting(s)', call'[t].at = "write"
      PROVE  call'[t].seen.shifts <= Spare(s)'
  <2>1. t \in Tasks /\ call'[t] # NoCall /\ call'[t].staff = s /\ call'[t] \in Call
    BY <1>1, <1>5 DEF Crediting, InFlight, TypeOK
  <2>2. CASE call'[t] = call[t]
    BY <1>2, <1>5, <2>1, <2>2 DEF Crediting, InFlight, CreditInv, Call, Counters
  <2>3. CASE staffDoc[s] \in Counters /\ call'[t].seen = staffDoc[s]
    BY <1>2, <2>3 DEF CreditInv, Counters
  <2>. QED
    BY <1>5, <2>1, <2>2, <2>3, NewWrite
<1>6. ASSUME NEW e \in Editors, draft'[e] # NoDraft, draft'[e].staff = s
      PROVE  draft'[e].counters.shifts <= Spare(s)'
  <2>1. CASE draft'[e] = draft[e]
    BY <1>2, <1>6, <2>1 DEF CreditInv, TypeOK, Counters
  <2>2. ASSUME NEW f \in Editors, NEW u \in Staff, OpenForm(f, u), draft'[e] # draft[e]
        PROVE  draft'[e].counters.shifts <= Spare(s)'
    <3>1. /\ u = s
          /\ draft'[e].counters = IF staffDoc[s] = NoCounters THEN Zero ELSE staffDoc[s]
          /\ staffDoc[s] # NoDoc
      BY <1>6, <2>2 DEF OpenForm, TypeOK
    <3>2. draft'[e].counters = Zero \/ (staffDoc[s] \in Counters
                                        /\ draft'[e].counters = staffDoc[s])
      BY <3>1 DEF TypeOK, Doc
    <3>. QED
      BY <1>2, <1>3, <3>2 DEF CreditInv, Zero, Counters
  <2>3. ASSUME NEW f \in Editors, UpdateStaff(f) PROVE draft'[e] = draft[e]
    BY <1>6, <2>3 DEF UpdateStaff, TypeOK
  <2>. QED
    BY <2>1, <2>2, <2>3 DEF Next, CallStep, TouchStaff, GuardCheckIn, AddRecord, FindOpen,
       UpdateRecord, ReadCounters, WriteCounters, CallFails, Starts, StaffCheckIn,
       StaffCheckOut, AttendanceCheckIn, AttendanceCheckOut, Begin, DeleteStaff, Tick, vars
<1>. QED
  BY <1>3, <1>4, <1>5, <1>6

LEMMA InitCreditInv == Init => CreditInv
<1>. SUFFICES ASSUME Init, NEW s \in Staff
              PROVE  /\ 0 <= Spare(s)
                     /\ staffDoc[s] \in Counters => staffDoc[s].shifts <= Spare(s)
                     /\ Crediting(s) = {}
                     /\ \A e \in Editors : draft[e] = NoDraft
  BY DEF CreditInv
<1>1. Crediting(s) = {}
  BY DEF Init, Crediting, InFlight
<1>2. Spare(s) = 0
  BY <1>1, FS_EmptySet DEF Spare, Init
<1>. QED
  BY <1>1, <1>2, NullsAssumption DEF Init, Zero

\* shiftsCompleted never runs ahead of the check-outs that wrote a record.
THEOREM ShiftsAreBacked == Spec => []ShiftsBackedByCloses
<1>1. RecordInv /\ CreditInv => ShiftsBackedByCloses
  <2>. SUFFICES ASSUME RecordInv, CreditInv, NEW s \in Staff, staffDoc[s] \in Counters
                PROVE  staffDoc[s].shifts <= closes[s]
    BY DEF ShiftsBackedByCloses
  <2>1. staffDoc[s].shifts <= Spare(s)
    BY DEF CreditInv
  <2>. QED
    BY <2>1, CreditingFinite DEF RecordInv, TypeOK, Spare, Counters
<1>. QED
  BY <1>1, InitCreditInv, NextCreditInv, RecordInvariant, PTL DEF Spec

-----------------------------------------------------------------------------
(* Sums over finite sets *)

\* Induction over the subsets of a finite set, stated of a set of subsets.
LEMMA SubsetInduction ==
    ASSUME NEW S, IsFiniteSet(S), NEW Good,
           \A T \in SUBSET S : (\A U \in SUBSET T : U # T => U \in Good) => T \in Good
    PROVE  \A T \in SUBSET S : T \in Good
<1>. DEFINE Bad == {T \in SUBSET S : T \notin Good}
<1>. SUFFICES ASSUME Bad # {} PROVE FALSE
  OBVIOUS
<1>1. IsWellFoundedOn(StrictSubsetOrdering(S), SUBSET S)
  <2>1. IsWellFoundedOn(StrictSubsetOrdering(S), FiniteSubsetsOf(S))
    BY FS_StrictSubsetOrderingWellFounded
  <2>2. FiniteSubsetsOf(S) = SUBSET S
    BY FS_FiniteSubsetsOfFinite
  <2>. QED
    BY <2>1, <2>2
<1>2. PICK T \in Bad : \A U \in Bad : <<U, T>> \notin StrictSubsetOrdering(S)
  <2>. HIDE DEF Bad
  <2>1. Bad \subseteq SUBSET S
    BY Zenon DEF Bad
  <2>. QED
    BY <1>1, <2>1, WFMin
<1>3. ASSUME NEW U \in SUBSET T, U # T PROVE U \in Good
  BY <1>2, <1>3 DEF StrictSubsetOrdering
<1>. QED
  BY <1>2, <1>3

\* The recursion that computes a sum, over the subsets of one set.
Chosen(T) == CHOOSE x \in T : TRUE
SumStep(it, g, T) == IF T = {} THEN 0 ELSE g[Chosen(T)] + it[T \ {Chosen(T)}]
Sums(it, g, S)    == it = [T \in SUBSET S |-> SumStep(it, g, T)]

LEMMA SumIsChosen == \A g, S : SumFunctionOnSet(g, S) = (CHOOSE it : Sums(it, g, S))[S]
BY DEF SumFunctionOnSet, FoldFunctionOnSet, MapThenFoldSet, Sums, SumStep, Chosen

LEMMA ChosenIn == \A T : T # {} => Chosen(T) \in T
BY DEF Chosen

\* Two such functions agree wherever both are defined.
LEMMA SumsAgree ==
    ASSUME NEW g, NEW S, NEW R, IsFiniteSet(S), NEW it, NEW jt, Sums(it, g, S), Sums(jt, g, R)
    PROVE  \A T \in SUBSET (S \cap R) : it[T] = jt[T]
<1>. DEFINE Good == {T \in SUBSET (S \cap R) : it[T] = jt[T]}
<1>1. IsFiniteSet(S \cap R)
  BY FS_Intersection
<1>2. ASSUME NEW T \in SUBSET (S \cap R), \A U \in SUBSET T : U # T => U \in Good
      PROVE  T \in Good
  <2>1. it[T] = SumStep(it, g, T) /\ jt[T] = SumStep(jt, g, T)
    BY DEF Sums
  <2>2. CASE T = {}
    BY <2>1, <2>2 DEF SumStep
  <2>3. CASE T # {}
    <3>1. T \ {Chosen(T)} \in SUBSET T /\ T \ {Chosen(T)} # T
      BY <2>3, ChosenIn
    <3>2. it[T \ {Chosen(T)}] = jt[T \ {Chosen(T)}]
      BY <1>2, <3>1
    <3>. QED
      BY <2>1, <2>3, <3>2 DEF SumStep
  <2>. QED
    BY <2>2, <2>3
<1>3. \A T \in SUBSET (S \cap R) : T \in Good
  <2>. HIDE DEF Good
  <2>. QED
    BY <1>1, <1>2, SubsetInduction
<1>. QED
  BY <1>3

\* There is one for every finite set.
LEMMA SumsExist ==
    ASSUME NEW g, NEW S, IsFiniteSet(S)
    PROVE  \A T \in SUBSET S : Sums(CHOOSE it : Sums(it, g, T), g, T)
<1>. DEFINE Of(T) == CHOOSE it : Sums(it, g, T)
            Good  == {T \in SUBSET S : Sums(Of(T), g, T)}
            V(T)  == Of(T)[T]
<1>1. ASSUME NEW T \in SUBSET S, \A U \in SUBSET T : U # T => U \in Good
      PROVE  T \in Good
  <2>. DEFINE it == [U \in SUBSET T |->
                       IF U # T THEN V(U)
                       ELSE IF T = {} THEN 0 ELSE g[Chosen(T)] + V(T \ {Chosen(T)})]
  <2>1. ASSUME NEW U \in SUBSET T, U # T
        PROVE  it[U] = SumStep(it, g, U)
    <3>1. Sums(Of(U), g, U)
      BY <1>1, <2>1
    <3>2. it[U] = SumStep(Of(U), g, U)
      BY <3>1, <2>1 DEF Sums
    <3>3. CASE U = {}
      BY <3>2, <3>3 DEF SumStep
    <3>4. CASE U # {}
      <4>. DEFINE W == U \ {Chosen(U)}
      <4>1. W \in SUBSET U /\ W \in SUBSET T /\ W # T
        BY <2>1, <3>4, ChosenIn
      <4>2. Sums(Of(W), g, W)
        BY <1>1, <4>1
      <4>3. IsFiniteSet(U) /\ W \in SUBSET (U \cap W)
        BY <2>1, <4>1, FS_Subset
      <4>4. Of(U)[W] = Of(W)[W]
        <5>. HIDE DEF Of, W
        <5>. QED  BY <3>1, <4>2, <4>3, SumsAgree
      <4>5. it[W] = Of(W)[W]
        <5>. HIDE DEF W
        <5>. QED  BY <4>1
      <4>. QED
        BY <3>2, <3>4, <4>4, <4>5 DEF SumStep
    <3>. QED
      BY <3>3, <3>4
  <2>2. it[T] = SumStep(it, g, T)
    <3>1. CASE T = {}
      BY <3>1 DEF SumStep
    <3>2. CASE T # {}
      <4>1. T \ {Chosen(T)} \in SUBSET T /\ T \ {Chosen(T)} # T
        BY <3>2, ChosenIn
      <4>. QED
        BY <3>2, <4>1 DEF SumStep
    <3>. QED
      BY <3>1, <3>2
  <2>3. it = [U \in SUBSET T |-> SumStep(it, g, U)]
    <3>1. \A U \in SUBSET T : it[U] = SumStep(it, g, U)
      BY <2>1, <2>2
    <3>2. it = [U \in SUBSET T |-> it[U]]
      OBVIOUS
    <3>. HIDE DEF it
    <3>. QED
      BY <3>1, <3>2
  <2>4. Sums(it, g, T)
    BY <2>3 DEF Sums
  <2>5. Sums(Of(T), g, T)
    <3>. HIDE DEF it
    <3>. QED
      BY <2>4
  <2>. QED
    BY <2>5
<1>2. \A T \in SUBSET S : T \in Good
  <2>. HIDE DEF Good
  <2>. QED
    BY <1>1, SubsetInduction
<1>. QED
  BY <1>2

\* The equations a sum obeys: the empty sum, and the element chosen first.
LEMMA SumEquations ==
    ASSUME NEW g, NEW S, IsFiniteSet(S)
    PROVE  /\ S = {} => SumFunctionOnSet(g, S) = 0
           /\ S # {} => SumFunctionOnSet(g, S)
                          = g[Chosen(S)] + SumFunctionOnSet(g, S \ {Chosen(S)})
<1>. DEFINE Of(T) == CHOOSE it : Sums(it, g, T)
            W     == S \ {Chosen(S)}
<1>1. Sums(Of(S), g, S) /\ Sums(Of(W), g, W)
  <2>. HIDE DEF W
  <2>1. W \in SUBSET S
    BY DEF W
  <2>. QED
    BY <2>1, SumsExist
<1>2. SumFunctionOnSet(g, S) = Of(S)[S] /\ SumFunctionOnSet(g, W) = Of(W)[W]
  BY SumIsChosen
<1>3. Of(S)[S] = SumStep(Of(S), g, S)
  BY <1>1 DEF Sums
<1>4. Of(S)[W] = Of(W)[W]
  <2>1. W \in SUBSET (S \cap W)
    OBVIOUS
  <2>. HIDE DEF Of, W
  <2>. QED
    BY <1>1, <2>1, SumsAgree
<1>. QED
  BY <1>2, <1>3, <1>4 DEF SumStep

\* What is summed over integers is an integer.
LEMMA SumType ==
    ASSUME NEW S, IsFiniteSet(S), NEW g, \A x \in S : g[x] \in Int
    PROVE  SumFunctionOnSet(g, S) \in Int
<1>. DEFINE Good == {T \in SUBSET S : SumFunctionOnSet(g, T) \in Int}
<1>1. ASSUME NEW T \in SUBSET S, \A U \in SUBSET T : U # T => U \in Good
      PROVE  T \in Good
  <2>1. IsFiniteSet(T)
    BY FS_Subset
  <2>2. CASE T = {}
    BY <2>1, <2>2, SumEquations
  <2>3. CASE T # {}
    <3>1. Chosen(T) \in T
      BY <2>3, ChosenIn
    <3>2. SumFunctionOnSet(g, T \ {Chosen(T)}) \in Int
      BY <1>1, <3>1
    <3>. QED
      BY <2>1, <2>3, <3>1, <3>2, SumEquations
  <2>. QED
    BY <2>2, <2>3
<1>2. \A T \in SUBSET S : T \in Good
  <2>. HIDE DEF Good
  <2>. QED
    BY <1>1, SubsetInduction
<1>. QED
  BY <1>2

\* A sum does not depend on the order in which its elements are taken.
LEMMA SumRemove ==
    ASSUME NEW S, IsFiniteSet(S), NEW g, \A x \in S : g[x] \in Int
    PROVE  \A x \in S : SumFunctionOnSet(g, S) = g[x] + SumFunctionOnSet(g, S \ {x})
<1>. DEFINE Sum(T) == SumFunctionOnSet(g, T)
            Good   == {T \in SUBSET S : \A x \in T : Sum(T) = g[x] + Sum(T \ {x})}
<1>0. \A T \in SUBSET S : IsFiniteSet(T) /\ Sum(T) \in Int
  <2>. SUFFICES ASSUME NEW T \in SUBSET S PROVE IsFiniteSet(T) /\ Sum(T) \in Int
    OBVIOUS
  <2>1. IsFiniteSet(T)
    BY FS_Subset
  <2>. QED
    BY <2>1, SumType
<1>1. ASSUME NEW T \in SUBSET S, \A U \in SUBSET T : U # T => U \in Good
      PROVE  T \in Good
  <2>. SUFFICES ASSUME NEW x \in T PROVE Sum(T) = g[x] + Sum(T \ {x})
    OBVIOUS
  <2>. DEFINE c == Chosen(T)
  <2>1. c \in T
    BY ChosenIn
  <2>2. Sum(T) = g[c] + Sum(T \ {c})
    BY <1>0, SumEquations
  <2>3. CASE x = c
    BY <2>2, <2>3
  <2>4. CASE x # c
    <3>. HIDE DEF c, Sum
    <3>1. Sum(T \ {c}) = g[x] + Sum((T \ {c}) \ {x})
      <4>1. T \ {c} \in SUBSET T /\ T \ {c} # T /\ x \in T \ {c}
        BY <2>1, <2>4
      <4>2. T \ {c} \in Good
        BY <1>1, <4>1
      <4>. QED
        BY <4>1, <4>2
    <3>2. Sum(T \ {x}) = g[c] + Sum((T \ {x}) \ {c})
      <4>1. T \ {x} \in SUBSET T /\ T \ {x} # T /\ c \in T \ {x}
        BY <2>1, <2>4
      <4>2. T \ {x} \in Good
        BY <1>1, <4>1
      <4>. QED
        BY <4>1, <4>2
    <3>3. (T \ {c}) \ {x} = (T \ {x}) \ {c}
      OBVIOUS
    <3>4. Sum((T \ {x}) \ {c}) \in Int /\ g[x] \in Int /\ g[c] \in Int
      BY <1>0, <2>1
    <3>5. Sum(T) = g[c] + (g[x] + Sum((T \ {c}) \ {x}))
      BY <2>2, <3>1
    <3>6. g[x] + Sum(T \ {x}) = g[x] + (g[c] + Sum((T \ {c}) \ {x}))
      BY <3>2, <3>3
    <3>7. \A a, b, n \in Int : a + (b + n) = b + (a + n)
      OBVIOUS
    <3>8. g[c] + (g[x] + Sum((T \ {c}) \ {x})) = g[x] + (g[c] + Sum((T \ {c}) \ {x}))
      BY <3>4, <3>7, Zenon
    <3>. QED
      BY <3>5, <3>6, <3>8, Zenon
  <2>. QED
    BY <2>3, <2>4
<1>2. \A T \in SUBSET S : T \in Good
  <2>. HIDE DEF Good
  <2>. QED
    BY <1>1, SubsetInduction
<1>. QED
  BY <1>2

\* It depends on the values over the set only.
LEMMA SumSame ==
    ASSUME NEW S, IsFiniteSet(S), NEW g, NEW h, \A x \in S : g[x] = h[x]
    PROVE  SumFunctionOnSet(g, S) = SumFunctionOnSet(h, S)
<1>. DEFINE Good == {T \in SUBSET S : SumFunctionOnSet(g, T) = SumFunctionOnSet(h, T)}
<1>1. ASSUME NEW T \in SUBSET S, \A U \in SUBSET T : U # T => U \in Good
      PROVE  T \in Good
  <2>1. IsFiniteSet(T)
    BY FS_Subset
  <2>2. CASE T = {}
    BY <2>1, <2>2, SumEquations
  <2>3. CASE T # {}
    <3>1. Chosen(T) \in T
      BY <2>3, ChosenIn
    <3>2. SumFunctionOnSet(g, T \ {Chosen(T)}) = SumFunctionOnSet(h, T \ {Chosen(T)})
      BY <1>1, <3>1
    <3>3. g[Chosen(T)] = h[Chosen(T)]
      BY <3>1
    <3>. QED
      BY <2>1, <2>3, <3>2, <3>3, SumEquations
  <2>. QED
    BY <2>2, <2>3
<1>2. \A T \in SUBSET S : T \in Good
  <2>. HIDE DEF Good
  <2>. QED
    BY <1>1, SubsetInduction
<1>. QED
  BY <1>2

\* One element more.
LEMMA SumAdd ==
    ASSUME NEW S, IsFiniteSet(S), NEW x, x \notin S, NEW g,
           \A y \in S \cup {x} : g[y] \in Int
    PROVE  SumFunctionOnSet(g, S \cup {x}) = g[x] + SumFunctionOnSet(g, S)
<1>1. IsFiniteSet(S \cup {x})
  BY FS_AddElement
<1>2. SumFunctionOnSet(g, S \cup {x}) = g[x] + SumFunctionOnSet(g, (S \cup {x}) \ {x})
  BY <1>1, SumRemove
<1>3. (S \cup {x}) \ {x} = S
  OBVIOUS
<1>. QED
  BY <1>2, <1>3

-----------------------------------------------------------------------------
(* The counters while nothing disturbs them and no two calls overlap *)

\* The records a check-out in flight has closed and not yet credited, and the
\* closed records of a staff member that the counters account for.
Uncredited == {call[t].rec : t \in {u \in InFlight : call[u].at \in {"read", "write"}}}
Counted(s) == Closed(s) \ Uncredited

Balanced ==
    \A s \in Staff : staffDoc[s] \in Counters =>
        /\ staffDoc[s].shifts = Cardinality(Counted(s))
        /\ staffDoc[s].hours = SumFunctionOnSet(Durations, Counted(s))

\* What a check-out of StaffService knows about its record at each await: the
\* record is still open before its update, closed with the duration the call
\* remembers afterwards, and the counters it has read are the stored ones.
ClosingCall(t) ==
    call[t].at \in {"update", "read", "write"} =>
        /\ call[t].kind = "staff_out"
        /\ call[t].rec \in Stored
        /\ records[call[t].rec].staff = call[t].staff
        /\ call[t].at = "update" => Open(call[t].rec)
        /\ call[t].at # "update" => /\ ~Open(call[t].rec)
                                    /\ records[call[t].rec].duration = call[t].dur
        /\ call[t].at = "write" => call[t].seen = staffDoc[call[t].staff]
Closing == \A t \in InFlight : ClosingCall(t)

Alone == \A t, u \in InFlight : t = u
NoDrafts == \A e \in Editors : draft[e] = NoDraft

SerialInv ==
    /\ disturbed \in BOOLEAN /\ overlapped \in BOOLEAN
    /\ IsFiniteSet(Stored)
    /\ ~overlapped => Alone
    /\ ~disturbed => NoDrafts
    /\ ~disturbed /\ ~overlapped => Closing /\ Balanced

LEMMA InitSerialInv == SerialInit => SerialInv
<1>. SUFFICES ASSUME SerialInit PROVE SerialInv
  OBVIOUS
<1>1. InFlight = {} /\ Stored = {}
  BY DEF SerialInit, Init, InFlight, Stored
<1>2. \A s \in Staff : Counted(s) = {}
  BY <1>1 DEF Counted, Closed
<1>3. SumFunctionOnSet(Durations, {}) = 0 /\ Cardinality({}) = 0 /\ IsFiniteSet({})
  BY SumEquations, FS_EmptySet
<1>4. Balanced
  <2>1. \A s \in Staff : staffDoc[s] = NoCounters \/ staffDoc[s] = Zero
    BY DEF SerialInit, Init
  <2>2. Zero.shifts = 0 /\ Zero.hours = 0
    BY DEF Zero
  <2>. QED
    BY <1>2, <1>3, <2>1, <2>2, NullsAssumption DEF Balanced
<1>5. Alone /\ NoDrafts /\ Closing
  BY <1>1 DEF Alone, NoDrafts, Closing, SerialInit, Init
<1>. QED
  BY <1>1, <1>3, <1>4, <1>5 DEF SerialInv, SerialInit

LEMMA AtMostOne ==
    ASSUME NEW S, IsFiniteSet(S), ~(Cardinality(S) > 1)
    PROVE  \A x, y \in S : x = y
<1>. SUFFICES ASSUME NEW x \in S, NEW y \in S, x # y PROVE FALSE
  OBVIOUS
<1>1. IsFiniteSet({x}) /\ Cardinality({x}) = 1
  BY FS_Singleton
<1>2. Cardinality({x} \cup {y}) = 2
  BY <1>1, FS_AddElement
<1>3. Cardinality({x} \cup {y}) <= Cardinality(S)
  <2>1. {x} \cup {y} \in SUBSET S
    OBVIOUS
  <2>. QED
    BY <2>1, FS_Subset
<1>4. Cardinality(S) \in Nat
  BY FS_CardinalityType
<1>. QED
  BY <1>2, <1>3, <1>4

\* Only a check-in that adds its record changes which records are stored.
LEMMA StoredGrows ==
    ASSUME RecordInv, [Next]_vars
    PROVE  \E r : Stored' \subseteq Stored \cup {r}
<1>1. ASSUME NEW t \in Tasks, AddRecord(t) PROVE \E r : Stored' \subseteq Stored \cup {r}
  <2>1. PICK r \in RecIds \ Stored :
           records' = [records EXCEPT ![r] = NewRecord(call[t].staff, call[t].time)]
    BY <1>1 DEF AddRecord
  <2>2. \A q \in RecIds : q # r => records'[q] = records[q]
    BY <2>1 DEF RecordInv, TypeOK
  <2>3. Stored' \subseteq Stored \cup {r}
    BY <2>2 DEF Stored
  <2>. QED
    BY <2>3
<1>2. ASSUME NEW t \in Tasks, UpdateRecord(t) PROVE Stored' = Stored
  BY <1>2, UpdateRecordEffect
<1>3. ASSUME UNCHANGED records PROVE Stored' = Stored
  BY <1>3 DEF Stored
<1>. QED
  BY <1>1, <1>2, <1>3 DEF Next, CallStep, TouchStaff, GuardCheckIn, FindOpen,
     ReadCounters, WriteCounters, CallFails, Starts, StaffCheckIn, StaffCheckOut,
     AttendanceCheckIn, AttendanceCheckOut, Begin, OpenForm, UpdateStaff, DeleteStaff,
     Tick, vars

LEMMA StoredStaysFinite ==
    ASSUME RecordInv, [Next]_vars, IsFiniteSet(Stored)
    PROVE  IsFiniteSet(Stored')
<1>1. PICK r : Stored' \subseteq Stored \cup {r}
  BY StoredGrows
<1>2. IsFiniteSet(Stored \cup {r})
  BY FS_AddElement
<1>. QED
  BY <1>1, <1>2, FS_Subset

\* A step that leaves the documents alone, and the calls that are closing a
\* record too, leaves the balance alone.
LEMMA QuietKeepsBalance ==
    ASSUME RecordInv, Closing, Balanced, UNCHANGED <<staffDoc, records>>,
           call' \in [Tasks -> Call \cup {NoCall}],
           \A t \in Tasks :
               \/ call'[t] = call[t]
               \/ /\ call[t] = NoCall \/ call[t].at \notin {"read", "write"}
                  /\ call'[t] = NoCall \/ call'[t].at \notin {"update", "read", "write"}
    PROVE  Closing' /\ Balanced'
<1>1. Uncredited' = Uncredited
  BY DEF Uncredited, InFlight
<1>2. Closing'
  <2>1. ASSUME NEW t \in InFlight', call'[t].at \in {"update", "read", "write"}
        PROVE  call'[t] = call[t] /\ t \in InFlight
    BY <2>1 DEF InFlight
  <2>. QED
    BY <2>1 DEF Closing, ClosingCall, Stored, Open
<1>3. Balanced'
  BY <1>1 DEF Balanced, Counted, Closed, Stored, Open, Durations
<1>. QED
  BY <1>2, <1>3

\* While calls do not overlap, the call that steps is the only one.
LEMMA LoneCall ==
    ASSUME TypeOK, Alone, NEW t \in Tasks, call[t] # NoCall
    PROVE  InFlight = {t} /\ call[t] \in Call
BY DEF TypeOK, Alone, InFlight

LEMMA LoneReturn ==
    ASSUME TypeOK, NEW t \in Tasks, InFlight = {t}, NEW a, Return(t, a)
    PROVE  InFlight' = {}
BY DEF TypeOK, InFlight, Return

LEMMA LoneMove ==
    ASSUME TypeOK, NEW t \in Tasks, InFlight = {t}, NEW c \in Call, call' = [call EXCEPT ![t] = c]
    PROVE  InFlight' = {t} /\ call'[t] = c
BY NullsAssumption DEF TypeOK, InFlight

\* A record that is added is open, so no sum and no count notices it.
LEMMA AddRecordBalance ==
    ASSUME RecordInv, RecordInv', Alone, Closing, Balanced, IsFiniteSet(Stored),
           NEW t \in Tasks, AddRecord(t)
    PROVE  Closing' /\ Balanced'
<1>1. PICK r \in RecIds \ Stored :
         records' = [records EXCEPT ![r] = NewRecord(call[t].staff, call[t].time)]
  BY DEF AddRecord
<1>2. \A q \in Stored : q # r /\ q \in Stored' /\ records'[q] = records[q]
  BY <1>1 DEF Stored, RecordInv, TypeOK
<1>3. \A q \in Stored' : q # r => q \in Stored
  BY <1>1 DEF Stored, RecordInv, TypeOK
<1>4. records'[r].checkOut = NoTime
  BY <1>1 DEF NewRecord, RecordInv, TypeOK
<1>5. InFlight' = {} /\ Uncredited = {} /\ Uncredited' = {}
  <2>1. t \in InFlight /\ call[t].at = "add"
    BY DEF AddRecord, At, InFlight
  <2>2. InFlight = {t}
    BY LoneCall DEF AddRecord, At, RecordInv
  <2>3. InFlight' = {}
    BY <2>2, LoneReturn DEF AddRecord, RecordInv
  <2>. QED
    BY <2>1, <2>2, <2>3 DEF Uncredited
<1>6. \A s \in Staff : Closed(s)' = Closed(s)
  BY <1>2, <1>3, <1>4 DEF Closed, Open
<1>7. \A s \in Staff : Counted(s)' = Counted(s)
  BY <1>5, <1>6 DEF Counted
<1>8. \A s \in Staff :
         SumFunctionOnSet(Durations', Counted(s)) = SumFunctionOnSet(Durations, Counted(s))
  <2>. TAKE s \in Staff
  <2>1. Counted(s) \subseteq Stored /\ IsFiniteSet(Counted(s))
    BY FS_Subset DEF Counted, Closed
  <2>2. \A q \in Counted(s) : Durations'[q] = Durations[q]
    BY <1>2, <2>1 DEF Durations
  <2>. QED
    BY <2>1, <2>2, SumSame
<1>9. UNCHANGED staffDoc
  BY DEF AddRecord
<1>. QED
  BY <1>5, <1>7, <1>8, <1>9 DEF Balanced, Closing

\* A check-out that finds an open record is one of StaffService.
LEMMA FindOpenBalance ==
    ASSUME RecordInv, RecordInv', Alone, Closing, Balanced,
           NEW t \in Tasks, FindOpen(t)
    PROVE  Closing' /\ Balanced'
<1>0. /\ call[t] \in Call /\ InFlight = {t} /\ call[t].at = "find"
      /\ UNCHANGED <<staffDoc, records>>
      /\ call' \in [Tasks -> Call \cup {NoCall}]
  <2>1. call[t] # NoCall /\ call[t].at = "find" /\ UNCHANGED <<staffDoc, records>>
    BY DEF FindOpen, At
  <2>2. call' \in [Tasks -> Call \cup {NoCall}]
    BY DEF RecordInv, TypeOK
  <2>. QED
    BY <2>1, <2>2, LoneCall DEF RecordInv
<1>1. CASE call'[t] = NoCall
  <2>1. \A u \in Tasks \ {t} : call'[u] = call[u]
    BY DEF FindOpen, Return, RecordInv, TypeOK
  <2>. QED
    BY <1>0, <1>1, <2>1, QuietKeepsBalance
<1>2. ASSUME NEW r \in OpenToday(t),
             call' = [call EXCEPT ![t].at  = "update", ![t].rec = r,
                                  ![t].dur = call[t].time - records[r].checkIn]
      PROVE  Closing' /\ Balanced'
  <2>. DEFINE c == [call[t] EXCEPT !.at = "update", !.rec = r,
                                   !.dur = call[t].time - records[r].checkIn]
  <2>0. c \in Call /\ call' = [call EXCEPT ![t] = c]
    <3>1. r \in RecIds /\ records[r] \in Record
      BY <1>2 DEF OpenToday, Stored, RecordInv, TypeOK
    <3>2. call[t].time - records[r].checkIn \in Int
      BY <1>0, <3>1, ConstantsAssumption DEF Call, Record
    <3>3. c \in Call
      BY <1>0, <3>1, <3>2 DEF Call, Points
    <3>4. call' = [call EXCEPT ![t] = c]
      BY <1>0, <1>2 DEF RecordInv, TypeOK, Call
    <3>. QED
      BY <3>3, <3>4
  <2>1. /\ c.rec = r /\ c.at = "update"
        /\ c.kind = call[t].kind /\ c.staff = call[t].staff
    BY <1>0 DEF Call
  <2>2. r \in Stored /\ Open(r) /\ records[r].staff = call[t].staff
    BY <1>2 DEF OpenToday
  <2>3. call[t].kind = "staff_out"
    <3>1. records[r].date = Midnight(Day(records[r].checkIn))
      BY <2>2 DEF RecordInv, ClosedOnItsOwnDay
    <3>2. records[r].date = IF call[t].kind = "staff_out" THEN Midnight(Day(call[t].time))
                            ELSE DateKey(Day(call[t].time))
      BY <1>2 DEF OpenToday
    <3>. QED
      BY <3>1, <3>2, TimestampIsNoString
  <2>4. InFlight' = {t} /\ call'[t] = c
    <3>. HIDE DEF c
    <3>. QED
      BY <1>0, <2>0, LoneMove DEF RecordInv
  <2>. HIDE DEF c
  <2>5. Closing'
    BY <1>0, <2>1, <2>2, <2>3, <2>4 DEF Closing, ClosingCall, Stored, Open
  <2>6. Uncredited = {} /\ Uncredited' = {}
    BY <1>0, <2>1, <2>4 DEF Uncredited
  <2>7. Balanced'
    BY <1>0, <2>6 DEF Balanced, Counted, Closed, Stored, Open, Durations
  <2>. QED
    BY <2>5, <2>7
<1>3. CASE OpenToday(t) = {} /\ Return(t, IF call[t].kind = "staff_out" THEN "ok"
                                          ELSE "no_checkin_found")
  BY <1>1, <1>3 DEF Return, RecordInv, TypeOK
<1>. QED
  BY <1>2, <1>3 DEF FindOpen

\* The update closes the record of the call, which is now owed to the counters.
LEMMA UpdateRecordBalance ==
    ASSUME RecordInv, RecordInv', Alone, Closing, Balanced, IsFiniteSet(Stored),
           NEW t \in Tasks, UpdateRecord(t)
    PROVE  Closing' /\ Balanced'
<1>. DEFINE c == [call[t] EXCEPT !.at = "read"]
<1>0. PICK r : r = call[t].rec
  OBVIOUS
<1>1. /\ call[t] \in Call /\ InFlight = {t} /\ call[t].at = "update"
  <2>1. call[t] # NoCall /\ call[t].at = "update"
    BY DEF UpdateRecord, At
  <2>. QED
    BY <2>1, LoneCall DEF RecordInv
<1>2. /\ call[t].kind = "staff_out" /\ r \in Stored /\ Open(r)
      /\ records[r].staff = call[t].staff
  BY <1>0, <1>1 DEF Closing, ClosingCall
<1>3. /\ records'[r] = [records[r] EXCEPT !.checkOut = call[t].time,
                                          !.duration = call[t].dur,
                                          !.status   = "completed"]
      /\ \A q \in RecIds : q # r => records'[q] = records[q]
      /\ Stored' = Stored
  BY <1>0, UpdateRecordEffect
<1>4. r \in RecIds /\ records[r] \in Record
  BY <1>2 DEF Stored, RecordInv, TypeOK
<1>5. /\ records'[r].checkOut = call[t].time
      /\ records'[r].duration = call[t].dur
      /\ records'[r].staff = call[t].staff
  BY <1>2, <1>3, <1>4 DEF Record
<1>6. call[t].time # NoTime
  BY <1>1, ConstantsAssumption DEF Call
<1>7. InFlight' = {t} /\ call'[t] = c
  <2>1. c \in Call
    BY <1>1 DEF Call, Points
  <2>2. call' = [call EXCEPT ![t] = c]
    BY <1>1, <1>2 DEF UpdateRecord, Advance, RecordInv, TypeOK, Call
  <2>. HIDE DEF c
  <2>. QED
    BY <1>1, <2>1, <2>2, LoneMove DEF RecordInv
<1>8. c.kind = "staff_out" /\ c.at = "read" /\ c.rec = r /\ c.staff = call[t].staff
      /\ c.dur = call[t].dur
  BY <1>0, <1>1, <1>2 DEF Call
<1>. HIDE DEF c
<1>9. Closing'
  <2>1. r \in Stored' /\ ~Open(r)'
    BY <1>2, <1>3, <1>5, <1>6 DEF Open
  <2>2. ClosingCall(t)'
    BY <1>5, <1>7, <1>8, <2>1 DEF ClosingCall, Open
  <2>. QED
    BY <1>7, <2>2 DEF Closing
<1>10. Uncredited = {} /\ Uncredited' = {r}
  BY <1>1, <1>7, <1>8 DEF Uncredited
<1>11. \A s \in Staff : Counted(s)' = Counted(s) /\ r \notin Counted(s)
  <2>1. \A s \in Staff, q \in RecIds \ {r} : q \in Closed(s)' <=> q \in Closed(s)
    BY <1>3 DEF Closed, Open
  <2>2. \A s \in Staff : r \notin Closed(s) /\ Closed(s) \subseteq RecIds /\ Closed(s)' \subseteq RecIds
    BY <1>2, <1>3 DEF Closed, Stored
  <2>. QED
    BY <1>10, <2>1, <2>2 DEF Counted
<1>12. \A s \in Staff :
         SumFunctionOnSet(Durations', Counted(s)) = SumFunctionOnSet(Durations, Counted(s))
  <2>. TAKE s \in Staff
  <2>1. Counted(s) \subseteq Stored /\ IsFiniteSet(Counted(s))
    BY FS_Subset DEF Counted, Closed
  <2>2. \A q \in Counted(s) : Durations'[q] = Durations[q]
    BY <1>3, <1>11, <2>1 DEF Durations, Stored
  <2>. QED
    BY <2>1, <2>2, SumSame
<1>13. UNCHANGED staffDoc
  BY DEF UpdateRecord
<1>. QED
  BY <1>9, <1>11, <1>12, <1>13 DEF Balanced

\* Where the counters are missing the call gives up: the record stays closed
\* and uncounted, of a document that has nothing to balance.
LEMMA ReadCountersBalance ==
    ASSUME RecordInv, RecordInv', Alone, Closing, Balanced,
           NEW t \in Tasks, ReadCounters(t)
    PROVE  Closing' /\ Balanced'
<1>. DEFINE s == call[t].staff
            c == [call[t] EXCEPT !.at = "write", !.seen = staffDoc[s]]
<1>1. /\ call[t] \in Call /\ InFlight = {t} /\ call[t].at = "read"
  <2>1. call[t] # NoCall /\ call[t].at = "read"
    BY DEF ReadCounters, At
  <2>. QED
    BY <2>1, LoneCall DEF RecordInv
<1>2. ClosingCall(t)
  BY <1>1 DEF Closing
<1>3. UNCHANGED <<staffDoc, records>>
  BY DEF ReadCounters
<1>4. \A u \in Staff : Closed(u)' = Closed(u)
  BY <1>3 DEF Closed, Stored, Open
<1>5. Durations' = Durations
  BY <1>3 DEF Durations, Stored
<1>6. Uncredited = {call[t].rec}
  BY <1>1 DEF Uncredited
<1>7. CASE staffDoc[s] \in Counters
  <2>1. c \in Call
    BY <1>1, <1>7 DEF Call, Points
  <2>2. call' = [call EXCEPT ![t] = c]
    BY <1>1, <1>7 DEF ReadCounters, RecordInv, TypeOK, Call
  <2>3. /\ c.kind = call[t].kind /\ c.at = "write" /\ c.rec = call[t].rec /\ c.staff = s
        /\ c.dur = call[t].dur /\ c.seen = staffDoc[s]
    BY <1>1 DEF Call
  <2>. HIDE DEF c
  <2>4. InFlight' = {t} /\ call'[t] = c
    BY <1>1, <2>1, <2>2, LoneMove DEF RecordInv
  <2>5. Closing'
    BY <1>1, <1>2, <1>3, <2>3, <2>4 DEF Closing, ClosingCall, Stored, Open
  <2>6. Uncredited' = Uncredited
    BY <1>6, <2>3, <2>4 DEF Uncredited
  <2>. QED
    BY <1>3, <1>4, <1>5, <2>5, <2>6 DEF Balanced, Counted
<1>8. CASE staffDoc[s] \notin Counters
  <2>1. InFlight' = {}
    BY <1>1, <1>8, LoneReturn DEF ReadCounters, RecordInv
  <2>2. Closing' /\ Uncredited' = {}
    BY <2>1 DEF Closing, Uncredited
  <2>3. \A u \in Staff \ {s} : Counted(u)' = Counted(u)
    BY <1>1, <1>2, <1>4, <1>6, <2>2 DEF Counted, Closed, ClosingCall
  <2>. HIDE DEF s
  <2>4. Balanced'
    BY <1>3, <1>5, <1>8, <2>3 DEF Balanced
  <2>. QED
    BY <2>2, <2>4
<1>. QED
  BY <1>7, <1>8

\* The credit is what the closed record adds: one shift and its duration.
LEMMA WriteCountersBalance ==
    ASSUME RecordInv, RecordInv', Alone, Closing, Balanced, IsFiniteSet(Stored),
           NEW t \in Tasks, WriteCounters(t)
    PROVE  Closing' /\ Balanced'
<1>0. PICK s, r : s = call[t].staff /\ r = call[t].rec
  OBVIOUS
<1>1. /\ call[t] \in Call /\ InFlight = {t} /\ call[t].at = "write"
  <2>1. call[t] # NoCall /\ call[t].at = "write"
    BY DEF WriteCounters, At
  <2>. QED
    BY <2>1, LoneCall DEF RecordInv
<1>2. /\ r \in Stored /\ ~Open(r) /\ records[r].staff = s
      /\ records[r].duration = call[t].dur
      /\ call[t].seen = staffDoc[s]
  BY <1>0, <1>1 DEF Closing, ClosingCall
<1>3. s \in Staff /\ staffDoc[s] \in Counters /\ staffDoc[s] # NoDoc
  BY <1>0, <1>1, <1>2, NullsAssumption DEF Call, Doc
<1>4. /\ UNCHANGED records
      /\ staffDoc' = [staffDoc EXCEPT ![s] = Credit(call[t])]
      /\ Return(t, "ok")
  BY <1>0, <1>3 DEF WriteCounters
<1>5. InFlight' = {}
  BY <1>1, <1>4, LoneReturn DEF RecordInv
<1>6. Closing' /\ Uncredited' = {} /\ Uncredited = {r}
  BY <1>0, <1>1, <1>5 DEF Closing, Uncredited
<1>7. Durations' = Durations /\ \A u \in Staff : Closed(u)' = Closed(u)
  BY <1>4 DEF Durations, Closed, Stored, Open
<1>8. ASSUME NEW u \in Staff, u # s, staffDoc'[u] \in Counters
      PROVE  /\ staffDoc'[u].shifts = Cardinality(Counted(u)')
             /\ staffDoc'[u].hours = SumFunctionOnSet(Durations', Counted(u)')
  <2>1. Counted(u)' = Counted(u)
    BY <1>2, <1>6, <1>7, <1>8 DEF Counted, Closed
  <2>2. staffDoc'[u] = staffDoc[u]
    BY <1>4, <1>8 DEF RecordInv, TypeOK
  <2>. QED
    BY <1>7, <1>8, <2>1, <2>2 DEF Balanced
<1>9. /\ staffDoc'[s].shifts = Cardinality(Counted(s)')
      /\ staffDoc'[s].hours = SumFunctionOnSet(Durations', Counted(s)')
  <2>1. Counted(s)' = Counted(s) \cup {r} /\ r \notin Counted(s)
    <3>1. r \in Closed(s) /\ Closed(s)' = Closed(s)
      BY <1>2, <1>3, <1>7 DEF Closed
    <3>. QED
      BY <1>6, <3>1 DEF Counted
  <2>2. Counted(s) \subseteq Stored /\ IsFiniteSet(Counted(s))
    BY FS_Subset DEF Counted, Closed
  <2>3. Cardinality(Counted(s) \cup {r}) = Cardinality(Counted(s)) + 1
    BY <2>1, <2>2, FS_AddElement
  <2>4. \A q \in Stored : Durations[q] \in Int
    BY DEF Durations, Stored, RecordInv, TypeOK, Record
  <2>5. Durations[r] = call[t].dur
    BY <1>2 DEF Durations
  <2>6. SumFunctionOnSet(Durations, Counted(s) \cup {r})
          = call[t].dur + SumFunctionOnSet(Durations, Counted(s))
    <3>1. \A q \in Counted(s) \cup {r} : Durations[q] \in Int
      BY <1>2, <2>2, <2>4
    <3>. QED
      BY <2>1, <2>2, <2>5, <3>1, SumAdd
  <2>7. /\ staffDoc[s].shifts = Cardinality(Counted(s))
        /\ staffDoc[s].hours = SumFunctionOnSet(Durations, Counted(s))
    BY <1>3 DEF Balanced
  <2>8. /\ staffDoc'[s].hours = staffDoc[s].hours + call[t].dur
        /\ staffDoc'[s].shifts = staffDoc[s].shifts + 1
    BY <1>2, <1>3, <1>4 DEF Credit, RecordInv, TypeOK
  <2>9. staffDoc[s].hours \in Int /\ call[t].dur \in Int
    BY <1>1, <1>3 DEF Counters, Call
  <2>10. staffDoc'[s].shifts = Cardinality(Counted(s)')
    BY <2>1, <2>3, <2>7, <2>8
  <2>11. staffDoc[s].hours + call[t].dur = call[t].dur + staffDoc[s].hours
    BY <2>9
  <2>12. staffDoc'[s].hours = SumFunctionOnSet(Durations', Counted(s)')
    BY <1>7, <2>1, <2>6, <2>7, <2>8, <2>11, Zenon
  <2>. QED
    BY <2>10, <2>12
<1>10. Balanced'
  BY <1>8, <1>9 DEF Balanced
<1>. QED
  BY <1>6, <1>10

LEMMA CallStepBalance ==
    ASSUME RecordInv, RecordInv', Alone, Closing, Balanced, IsFiniteSet(Stored),
           NEW t \in Tasks, CallStep(t), ~CallFails(t)
    PROVE  Closing' /\ Balanced'
<1>0. /\ call' \in [Tasks -> Call \cup {NoCall}]
      /\ call[t] # NoCall => call[t] \in Call
  BY DEF RecordInv, TypeOK
<1>1. CASE TouchStaff(t) \/ GuardCheckIn(t)
  <2>1. /\ UNCHANGED <<staffDoc, records>>
        /\ call[t] # NoCall /\ call[t].at \notin {"read", "write"}
    BY <1>1 DEF TouchStaff, GuardCheckIn, At
  <2>2. \/ \E a : Return(t, a)
        \/ Advance(t, "add") \/ Advance(t, "find")
    BY <1>1 DEF TouchStaff, GuardCheckIn
  <2>3. \A u \in Tasks \ {t} : call'[u] = call[u]
    BY <2>2 DEF Return, Advance, RecordInv, TypeOK
  <2>4. call'[t] = NoCall \/ call'[t].at \notin {"update", "read", "write"}
    BY <1>0, <2>1, <2>2 DEF Return, Advance, RecordInv, TypeOK, Call
  <2>. QED
    BY <1>0, <2>1, <2>3, <2>4, QuietKeepsBalance
<1>. QED
  BY <1>1, AddRecordBalance, FindOpenBalance, UpdateRecordBalance, ReadCountersBalance,
     WriteCountersBalance DEF CallStep

LEMMA StartBalance ==
    ASSUME RecordInv, RecordInv', Closing, Balanced,
           NEW t \in Tasks, NEW s \in Staff, Starts(t, s)
    PROVE  Closing' /\ Balanced'
<1>1. PICK k, p : Begin(t, k, p, s) /\ p \notin {"update", "read", "write"}
  BY DEF Starts, StaffCheckIn, StaffCheckOut, AttendanceCheckIn, AttendanceCheckOut
<1>2. call[t] = NoCall /\ call'[t].at = p /\ UNCHANGED <<staffDoc, records>>
  BY <1>1 DEF Begin, RecordInv, TypeOK
<1>3. \A u \in Tasks \ {t} : call'[u] = call[u]
  BY <1>1 DEF Begin, RecordInv, TypeOK
<1>4. call' \in [Tasks -> Call \cup {NoCall}]
  BY DEF RecordInv, TypeOK
<1>. QED
  BY <1>1, <1>2, <1>3, <1>4, QuietKeepsBalance

LEMMA NextSerialInv ==
    RecordInv /\ SerialInv /\ [SerialNext]_<<vars, disturbed, overlapped>> => SerialInv'
<1>. SUFFICES ASSUME RecordInv, SerialInv, [SerialNext]_<<vars, disturbed, overlapped>>
              PROVE  SerialInv'
  OBVIOUS
<1>1. [Next]_vars
  BY DEF SerialNext, vars
<1>2. RecordInv'
  BY <1>1, NextRecordInv
<1>3. IsFiniteSet(Stored')
  BY <1>1, StoredStaysFinite DEF SerialInv
<1>4. disturbed' \in BOOLEAN /\ overlapped' \in BOOLEAN
  BY DEF SerialInv, SerialNext
<1>5. /\ ~disturbed' => ~disturbed
      /\ ~overlapped' => ~overlapped
      /\ ~disturbed' => ~Disturbs \/ UNCHANGED vars
  BY DEF SerialInv, SerialNext
<1>6. ~overlapped' => Alone'
  <2>. SUFFICES ASSUME ~overlapped' PROVE Alone'
    OBVIOUS
  <2>1. CASE SerialNext
    <3>1. ~(Cardinality(InFlight') > 1)
      BY <2>1 DEF SerialNext, SerialInv
    <3>2. IsFiniteSet(InFlight')
      <4>1. InFlight' \subseteq Tasks
        BY DEF InFlight
      <4>. QED
        BY <4>1, ConstantsAssumption, FS_Subset
    <3>3. \A x, y \in InFlight' : x = y
      BY <3>1, <3>2, AtMostOne
    <3>. QED
      BY <3>3 DEF Alone
  <2>2. CASE UNCHANGED <<vars, disturbed, overlapped>>
    BY <1>5, <2>2 DEF SerialInv, Alone, InFlight, vars
  <2>. QED
    BY <2>1, <2>2
<1>7. ~disturbed' => NoDrafts'
  <2>. SUFFICES ASSUME ~disturbed' PROVE NoDrafts'
    OBVIOUS
  <2>1. NoDrafts
    BY <1>5 DEF SerialInv
  <2>2. ASSUME NEW e \in Editors, UpdateStaff(e) PROVE FALSE
    BY <2>1, <2>2 DEF UpdateStaff, NoDrafts
  <2>3. UNCHANGED draft
    BY <1>1, <1>5, <2>2 DEF Disturbs, Next, CallStep, TouchStaff, GuardCheckIn, AddRecord,
       FindOpen, UpdateRecord, ReadCounters, WriteCounters, CallFails, Starts, StaffCheckIn,
       StaffCheckOut, AttendanceCheckIn, AttendanceCheckOut, Begin, DeleteStaff, Tick, vars
  <2>. QED
    BY <2>1, <2>3 DEF NoDrafts
<1>8. ~disturbed' /\ ~overlapped' => Closing' /\ Balanced'
  <2>. SUFFICES ASSUME ~disturbed', ~overlapped' PROVE Closing' /\ Balanced'
    OBVIOUS
  <2>1. /\ Alone /\ NoDrafts /\ Closing /\ Balanced /\ IsFiniteSet(Stored)
        /\ ~Disturbs \/ UNCHANGED vars
    BY <1>5 DEF SerialInv
  <2>2. ASSUME UNCHANGED <<staffDoc, records, call>> PROVE Closing' /\ Balanced'
    BY <1>2, <2>1, <2>2, QuietKeepsBalance DEF RecordInv, TypeOK
  <2>3. CASE UNCHANGED vars
    BY <2>2, <2>3 DEF vars
  <2>4. CASE ~Disturbs /\ Next
    <3>1. ASSUME NEW t \in Tasks, CallStep(t) PROVE Closing' /\ Balanced'
      BY <1>2, <2>1, <2>4, <3>1, CallStepBalance DEF Disturbs
    <3>2. ASSUME NEW t \in Tasks, NEW s \in Staff, Starts(t, s) PROVE Closing' /\ Balanced'
      BY <1>2, <2>1, <3>2, StartBalance
    <3>3. ASSUME NEW e \in Editors, UpdateStaff(e) PROVE FALSE
      BY <2>1, <3>3 DEF UpdateStaff, NoDrafts
    <3>4. CASE Tick
      BY <2>2, <3>4 DEF Tick
    <3>. QED
      BY <2>4, <3>1, <3>2, <3>3, <3>4 DEF Next, Disturbs
  <2>. QED
    BY <1>1, <2>1, <2>3, <2>4
<1>. QED
  BY <1>3, <1>4, <1>6, <1>7, <1>8 DEF SerialInv

\* While no call fails, no form is opened, no document is deleted and no two
\* calls overlap, the counters are what the closed records add up to.
THEOREM CountersAddUp == SerialSpec => []CountersMatchRecords
<1>1. SerialInv => CountersMatchRecords
  <2>. SUFFICES ASSUME SerialInv, ~disturbed, ~overlapped, Quiet, NEW s \in Staff,
                       staffDoc[s] \in Counters
                PROVE  /\ staffDoc[s].shifts = Cardinality(Closed(s))
                       /\ staffDoc[s].hours = HoursOf(s)
    BY DEF CountersMatchRecords
  <2>1. Counted(s) = Closed(s)
    BY DEF Quiet, Counted, Uncredited
  <2>. QED
    BY <2>1 DEF SerialInv, Balanced, HoursOf
<1>2. SerialInit => RecordInv
  BY InitRecordInv DEF SerialInit
<1>3. RecordInv /\ [SerialNext]_<<vars, disturbed, overlapped>> => RecordInv'
  BY NextRecordInv DEF SerialNext, vars
<1>. QED
  BY <1>1, <1>2, <1>3, InitSerialInv, NextSerialInv, PTL DEF SerialSpec
=============================================================================

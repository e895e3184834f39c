----------------------------- MODULE AttendanceSync -----------------------------
(***************************************************************************)
(* Everything that rewrites attendance records after the fact: the         *)
(* synchronisation with the legacy collection, the admin's corrections and *)
(* the CSV import, against check-ins and check-outs.                       *)
(*                                                                         *)
(*   lib/services/attendance_sync_service.dart  synchronizeAttendanceData  *)
(*   lib/services/attendance_service.dart       corrections, CSV           *)
(*   lib/screens/staff/attendance_history_screen.dart  what they are given *)
(*   lib/services/staff_service.dart            checkIn, checkOut          *)
(*                                                                         *)
(* Each reads records, awaits, and writes fields computed from what it     *)
(* read.  Times are seconds, durations whole minutes.  The flags archived  *)
(* and isWithinGeofence are left out: the second is resolved like status.  *)
(***************************************************************************)
EXTENDS Integers, FiniteSets

CONSTANTS
    Docs,           \* ids of records, numbers: queries return them in order
    Keys,           \* a staff member and a day, the key of the comparison
    Times,          \* seconds a record may hold
    NoTime,         \* a null time
    NoDoc,          \* no record, no snapshot
    Statuses,       \* what the status field may say
    LegacyRecords,  \* records the legacy collection may hold
    Rows,           \* what the rows of a pasted CSV text may say
    Callers,        \* calls in flight
    Ops             \* the operations this instance runs

AllOps == {"sync", "punch", "correct", "import", "fail"}

MaybeTime == Times \cup {NoTime}
Record == [key : Keys, checkIn : MaybeTime, checkOut : MaybeTime, duration : Int,
           status : Statuses]

ASSUME SyncAssumption ==
    /\ Docs \subseteq Nat /\ Times \subseteq Nat
    /\ NoTime \notin Int /\ NoDoc \notin Docs /\ NoDoc \notin Record
    /\ {"checked_in", "completed"} \subseteq Statuses
    /\ LegacyRecords \subseteq Record /\ Rows \subseteq Record
    /\ Ops \subseteq AllOps

VARIABLES
    docs,     \* the collection staff_attendance
    legacy,   \* the collection attendance, by key (the last of a key wins)
    call,     \* what each caller has read and has still to write
    trail,    \* the new values of the last audit of each record
    report    \* the last synchronisation report

vars == <<docs, legacy, call, trail, report>>

-----------------------------------------------------------------------------
(* Comparing and resolving two records *)

\* Duration.inMinutes truncates towards zero.
Minutes(from, to) == IF from <= to THEN (to - from) \div 60 ELSE -((from - to) \div 60)

Apart(x, y) == x - y > 1 \/ y - x > 1

\* More than a second apart, or only one of them known.
TimestampsDiffer(a, b) == IF a = NoTime \/ b = NoTime THEN a # b ELSE Apart(a, b)

\* More than 0.02 hours apart.
DurationsDiffer(p, l) == Apart(p.duration, l.duration)

\* A time is resolved when both sides know it and they differ.
ResolvesIn(p, l)  == NoTime \notin {p.checkIn, l.checkIn} /\ TimestampsDiffer(p.checkIn, l.checkIn)
ResolvesOut(p, l) == NoTime \notin {p.checkOut, l.checkOut} /\ TimestampsDiffer(p.checkOut, l.checkOut)

Earlier(a, b) == IF a < b THEN a ELSE b
Later(a, b)   == IF a > b THEN a ELSE b

ResolvedDuration(p, l) ==
    IF ResolvesIn(p, l) /\ ResolvesOut(p, l)
    THEN Minutes(Earlier(p.checkIn, l.checkIn), Later(p.checkOut, l.checkOut))
    ELSE p.duration

\* Mutant: useEarlier turned round.
MutantResolve(d, p, l) ==
    [d EXCEPT !.checkIn  = IF ResolvesIn(p, l) THEN Later(p.checkIn, l.checkIn) ELSE @,
              !.checkOut = IF ResolvesOut(p, l) THEN Earlier(p.checkOut, l.checkOut) ELSE @]

\* Mutant: check-outs resolved from the check-ins, a slip of copying.
MutantResolveCopied(d, p, l) ==
    [d EXCEPT !.checkIn  = IF ResolvesIn(p, l) THEN Earlier(p.checkIn, l.checkIn) ELSE @,
              !.checkOut = IF ResolvesOut(p, l) THEN Later(p.checkIn, l.checkIn) ELSE @]

\* What the batch writes into record d: the fields in which the fetched
\* records p and l differ, and nothing else.
Resolve(d, p, l) ==
    [d EXCEPT !.checkIn  = IF ResolvesIn(p, l) THEN Earlier(p.checkIn, l.checkIn) ELSE @,
              !.checkOut = IF ResolvesOut(p, l) THEN Later(p.checkOut, l.checkOut) ELSE @,
              !.duration = IF DurationsDiffer(p, l) THEN ResolvedDuration(p, l) ELSE @,
              !.status   = IF p.status # l.status THEN p.status ELSE @]

\* Of several records of a key the comparison keeps the last.
Compared(seen, d) ==
    /\ seen[d] # NoDoc
    /\ \A e \in Docs : seen[e] # NoDoc /\ seen[e].key = seen[d].key => e <= d

Merged(now, seen, old) ==
    [d \in Docs |->
        IF Compared(seen, d) /\ old[seen[d].key] # NoDoc
        THEN Resolve(now[d], seen[d], old[seen[d].key]) ELSE now[d]]

HasBothTimes(r) == r # NoDoc /\ NoTime \notin {r.checkIn, r.checkOut}

\* The two findings of _validateDataIntegrity.
Inverted(ds)   == {d \in Docs : HasBothTimes(ds[d]) /\ ds[d].checkOut < ds[d].checkIn}
Mismatched(ds) == {d \in Docs : HasBothTimes(ds[d]) /\
                      Apart(Minutes(ds[d].checkIn, ds[d].checkOut), ds[d].duration)}

-----------------------------------------------------------------------------

Entry   == Record \cup {NoDoc}
Nothing == [d \in Docs |-> NoDoc]
Forgot  == [k \in Keys |-> NoDoc]
Idle    == [at |-> "idle", doc |-> NoDoc, new |-> NoDoc, dry |-> FALSE, seen |-> Nothing,
            old |-> Forgot]
Call    == [at : {"idle", "legacy", "commit", "report", "checkOut", "dialog", "update", "audit", "import"},
            doc : Docs \cup {NoDoc}, new : Entry, dry : BOOLEAN,
            seen : [Docs -> Entry], old : [Keys -> Entry]]

NoReport == [status |-> "none", errors |-> {}, warnings |-> {}]
Report   == [status : {"none", "completed", "completedWithErrors", "failed"},
             errors : SUBSET Docs, warnings : SUBSET Docs]

Opened(k, t) == [key |-> k, checkIn |-> t, checkOut |-> NoTime, duration |-> 0,
                 status |-> "checked_in"]
Closed(r, t) == [r EXCEPT !.checkOut = t, !.duration = Minutes(r.checkIn, t), !.status = "completed"]

Punched == {Opened(k, t) : k \in Keys, t \in Times}
              \cup {Closed(Opened(k, t), u) : k \in Keys, t \in Times, u \in Times}

Init ==
    /\ docs \in [Docs -> {r \in Punched : r.checkOut = NoTime \/ r.checkIn <= r.checkOut} \cup {NoDoc}]
    /\ legacy \in [Keys -> LegacyRecords \cup {NoDoc}]
    /\ call = [c \in Callers |-> Idle]
    /\ trail = Nothing
    /\ report = NoReport

At(c, step) == call[c].at = step
Goes(c, to) == call' = [call EXCEPT ![c] = to]
Return(c)   == Goes(c, Idle)
Rest        == UNCHANGED <<legacy, trail, report>>

-----------------------------------------------------------------------------
(* synchronizeAttendanceData, by an admin or a manager *)

FetchPrimaryRecords(c, dry) ==
    /\ "sync" \in Ops /\ At(c, "idle")
    /\ Goes(c, [Idle EXCEPT !.at = "legacy", !.dry = dry, !.seen = docs])
    /\ UNCHANGED docs /\ Rest

\* A failing query counts as an empty legacy collection.
FetchLegacyRecords(c) ==
    /\ At(c, "legacy")
    /\ \/ Goes(c, [call[c] EXCEPT !.at = "commit", !.old = legacy])
       \/ "fail" \in Ops /\ Goes(c, [call[c] EXCEPT !.at = "commit"])
    /\ UNCHANGED docs /\ Rest

\* Compare, resolve, validate what was fetched, and commit one batch.
ApplyUpdates(c) ==
    /\ At(c, "commit")
    /\ docs' = IF call[c].dry THEN docs ELSE Merged(docs, call[c].seen, call[c].old)
    /\ \/ Goes(c, [call[c] EXCEPT !.at = "report"])
          /\ UNCHANGED report
       \/ /\ "fail" \in Ops /\ ~call[c].dry   \* the answer of the commit is lost
          /\ report' = [NoReport EXCEPT !.status = "failed"]
          /\ Return(c)
    /\ UNCHANGED <<legacy, trail>>

SaveSyncReport(c) ==
    /\ At(c, "report")
    /\ report' = [status   |-> IF Inverted(call[c].seen) = {} THEN "completed"
                               ELSE "completedWithErrors",
                  errors   |-> Inverted(call[c].seen),
                  warnings |-> Mismatched(call[c].seen)]
    /\ Return(c)
    /\ UNCHANGED <<docs, legacy, trail>>

-----------------------------------------------------------------------------
(* Check-in and check-out of StaffService: what they do to the records *)

CheckIn(c, d, k, t) ==
    /\ "punch" \in Ops /\ At(c, "idle")
    /\ docs[d] = NoDoc
    /\ docs' = [docs EXCEPT ![d] = Opened(k, t)]
    /\ UNCHANGED call /\ Rest

FindOpen(c, d) ==
    /\ "punch" \in Ops /\ At(c, "idle")
    /\ docs[d] # NoDoc /\ docs[d].checkOut = NoTime
    /\ Goes(c, [Idle EXCEPT !.at = "checkOut", !.doc = d, !.new = docs[d]])
    /\ UNCHANGED docs /\ Rest

\* Mutant: the duration is not written.
MutantCheckOut(c, t) ==
    /\ At(c, "checkOut")
    /\ docs' = [docs EXCEPT ![call[c].doc].checkOut = t, ![call[c].doc].status = "completed"]
    /\ Return(c)
    /\ Rest

\* The time may lie before a check-in that an import or a correction wrote.
CheckOut(c, t) ==
    LET d == call[c].doc
        r == Closed(call[c].new, t) IN
    /\ At(c, "checkOut")
    /\ call[c].new.checkIn # NoTime   \* casting a null time throws
    /\ docs' = [docs EXCEPT ![d].checkOut = r.checkOut, ![d].duration = r.duration,
                            ![d].status = r.status]
    /\ Return(c)
    /\ Rest

-----------------------------------------------------------------------------
(* Corrections by an admin, with an audit entry *)

OpenCorrectionDialog(c, d) ==
    /\ "correct" \in Ops /\ At(c, "idle")
    /\ docs[d] # NoDoc
    /\ Goes(c, [Idle EXCEPT !.at = "dialog", !.doc = d, !.new = docs[d]])
    /\ UNCHANGED docs /\ Rest

RecomputeDuration(ci, co) == IF NoTime \in {ci, co} THEN 0 ELSE Minutes(ci, co)

\* Times are picked or left as the dialog was opened with.
SaveCorrection(c, ci, co, s) ==
    LET form == call[c].new IN
    /\ At(c, "dialog")
    /\ ci \in Times \cup {form.checkIn} /\ co \in Times \cup {form.checkOut}
    /\ Goes(c, [call[c] EXCEPT !.at = "update",
                   !.new = [form EXCEPT !.checkIn = ci, !.checkOut = co, !.status = s,
                                        !.duration = RecomputeDuration(ci, co)]])
    /\ UNCHANGED docs /\ Rest

\* removeWhere(value == null): an unset time is not written.
Corrected(r, new) ==
    [r EXCEPT !.checkIn  = IF new.checkIn = NoTime THEN @ ELSE new.checkIn,
              !.checkOut = IF new.checkOut = NoTime THEN @ ELSE new.checkOut,
              !.duration = new.duration,
              !.status   = new.status]

\* Mutant: the update fails, the failure is ignored.
MutantUpdateAttendance(c) ==
    /\ At(c, "update")
    /\ Goes(c, [call[c] EXCEPT !.at = "audit"])
    /\ UNCHANGED docs /\ Rest

UpdateAttendance(c) ==
    LET d == call[c].doc IN
    /\ At(c, "update")
    /\ docs' = [docs EXCEPT ![d] = Corrected(docs[d], call[c].new)]
    /\ Goes(c, [call[c] EXCEPT !.at = "audit"])
    /\ Rest

AddAudit(c) ==
    /\ At(c, "audit")
    /\ trail' = [trail EXCEPT ![call[c].doc] = call[c].new]
    /\ Return(c)
    /\ UNCHANGED <<docs, legacy, report>>

-----------------------------------------------------------------------------
(* The CSV import: a text the admin pasted, written row by row *)

ImportAttendanceFromCSV(c) ==
    /\ "import" \in Ops /\ At(c, "idle")
    /\ Goes(c, [Idle EXCEPT !.at = "import"])
    /\ UNCHANGED docs /\ Rest

\* set(data, merge) under the id of the row, or add if it has none: the record
\* may be new, and its times, its duration and its status are what the row says.
ImportRow(c, d, row) ==
    /\ At(c, "import")
    /\ docs' = [docs EXCEPT ![d] = row]
    /\ UNCHANGED call /\ Rest

ImportDone(c) ==
    /\ At(c, "import")
    /\ Return(c)
    /\ UNCHANGED docs /\ Rest

-----------------------------------------------------------------------------

\* A request fails, a guard returns or a dialog is cancelled: a synchronisation reports it.
GiveUp(c) ==
    /\ "fail" \in Ops /\ ~At(c, "idle") /\ ~At(c, "report")
    /\ At(c, "commit") => ~call[c].dry
    /\ report' = IF At(c, "legacy") \/ At(c, "commit")
                 THEN [NoReport EXCEPT !.status = "failed"] ELSE report
    /\ Return(c)
    /\ UNCHANGED <<docs, legacy, trail>>

SyncStep(c) ==
    \/ \E dry \in BOOLEAN : FetchPrimaryRecords(c, dry)
    \/ FetchLegacyRecords(c)
    \/ ApplyUpdates(c)
    \/ SaveSyncReport(c)
    \/ GiveUp(c)

RecordStep(c) ==
    \/ \E d \in Docs, k \in Keys, t \in Times : CheckIn(c, d, k, t)
    \/ \E d \in Docs : FindOpen(c, d) \/ OpenCorrectionDialog(c, d)
    \/ ImportAttendanceFromCSV(c)
    \/ \E d \in Docs, row \in Rows : ImportRow(c, d, row)
    \/ \E t \in Times : CheckOut(c, t)
    \/ \E ci, co \in MaybeTime, s \in Statuses : SaveCorrection(c, ci, co, s)
    \/ UpdateAttendance(c)
    \/ AddAudit(c)
    \/ ImportDone(c)

CallStep(c) == SyncStep(c) \/ RecordStep(c)

Next == \E c \in Callers : CallStep(c)

Spec == Init /\ [][Next]_vars

-----------------------------------------------------------------------------
(* Properties *)

\* Everything keeps its type, and a call that writes holds what it read: the
\* record of a check-out, a dialog or a correction is there to be written.
TypeOK ==
    /\ docs \in [Docs -> Entry]
    /\ legacy \in [Keys -> Entry]
    /\ call \in [Callers -> Call]
    /\ trail \in [Docs -> Entry]
    /\ report \in Report
    /\ \A c \in Callers :
          /\ call[c].at \in {"checkOut", "dialog", "update", "audit"} =>
                call[c].doc # NoDoc /\ call[c].new # NoDoc /\ docs[call[c].doc] # NoDoc
          /\ \A d \in Docs : call[c].seen[d] # NoDoc => docs[d] # NoDoc

\* What a whole synchronisation would leave now.
Outcome == Merged(docs, docs, legacy)

\* "_resolveConflicts" is settled by one pass: synchronising what a
\* synchronisation left changes nothing, so a failed run may be retried even
\* if its batch was in fact committed.
RepeatIsStable == Merged(Outcome, Outcome, legacy) = Outcome

\* Synchronisations converge: whichever runs overlap, fail or repeat, a stale
\* batch never changes what the records will be once a run is complete.
RunsConverge == [][Outcome' = Outcome]_vars
=============================================================================

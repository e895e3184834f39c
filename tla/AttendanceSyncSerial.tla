-------------------------- MODULE AttendanceSyncSerial --------------------------
(***************************************************************************)
(* What rewriting records keeps, and under which interleavings.  Three     *)
(* history variables tell: overlapped, whether a call has taken a step     *)
(* between two of another; stale, the calls that hold a record whose times *)
(* were moved since they read it; reworked, the records last written by a  *)
(* synchronisation, by an import, or by a stale call.                      *)
(***************************************************************************)
EXTENDS MCAttendanceSync

VARIABLES overlapped, stale, reworked

history == <<overlapped, stale, reworked>>

Moved(d) == docs'[d].checkIn # docs[d].checkIn \/ docs'[d].checkOut # docs[d].checkOut

\* A check-out or a correction, between reading a record and writing it.
Holding(r) == r.at \in {"checkOut", "dialog", "update"}

\* The step of c is a punch or a correction of a record as it read it.
Direct(c) == call[c].at \in {"idle", "checkOut", "update"} /\ c \notin stale

SerialInit == Init /\ overlapped = FALSE /\ stale = {} /\ reworked = {}

SerialNext ==
    \E c \in Callers :
        /\ CallStep(c)
        /\ overlapped' = (overlapped \/ \E e \in Callers \ {c} : ~At(e, "idle"))
        /\ stale' = {e \in Callers : /\ Holding(call'[e]) /\ Holding(call[e])
                                     /\ e \in stale \/ Moved(call[e].doc)}
        /\ reworked' = {d \in Docs : IF docs'[d] = docs[d] THEN d \in reworked ELSE ~Direct(c)}

SerialSpec == SerialInit /\ [][SerialNext]_<<vars, history>>

\* Bound: a history that overlaps ends with its first audit or report, has one
\* synchronisation or saved correction at a time, and a legacy record whose times are (120, 300).
Narrow ==
    overlapped =>
        /\ trail = Nothing /\ report = NoReport
        /\ Cardinality({c \in Callers : call[c].at \in {"legacy", "commit", "report", "update", "audit"}}) <= 1
        /\ \A c \in Callers : ~call[c].dry
        /\ \A k \in Keys : legacy[k] # NoDoc => legacy[k] = LegacyOf(k, 120, 300, 5, "completed")

-----------------------------------------------------------------------------

\* A synchronisation that overlaps nothing is "more conservative"
\* (attendance_sync_service.dart:341): although it takes each of the two times
\* from either collection, it moves no check-in later and no check-out earlier,
\* makes no record end before it starts, and leaves every status ("Use primary
\* collection status", attendance_sync_service.dart:377).  One that overlaps a
\* check-out or a correction may do all of these.
SyncIsConservative ==
    [][\A c \in Callers : ApplyUpdates(c) /\ ~overlapped' =>
          /\ Inverted(docs') \subseteq Inverted(docs)
          /\ \A d \in Docs : docs[d] # NoDoc =>
                /\ docs'[d].status = docs[d].status
                /\ HasBothTimes(docs[d]) =>
                      docs'[d].checkIn <= docs[d].checkIn /\ docs'[d].checkOut >= docs[d].checkOut]_vars

\* Without overlap, the new values an audit tells are those the record holds
\* when the audit is written, although unset times are not written.
AuditMatchesRecord ==
    [][\A d \in Docs : trail'[d] # trail[d] /\ ~overlapped' =>
          docs'[d] = Corrected(docs'[d], trail'[d])]_vars

\* A duration that does not follow from the times of its record was pasted with
\* a row, left by a synchronisation, or written by a check-out or a correction
\* that had read other times: all other check-outs and corrections, whatever
\* they overlap and whichever record they find, leave the two in agreement
\* ("Validate duration calculation", attendance_sync_service.dart:425).
DurationFollowsTimes == Mismatched(docs) \subseteq reworked
=============================================================================

-------------------------- MODULE AttendanceSyncProofs --------------------------
(***************************************************************************)
(* What TLAPS proves of the synchronisation of attendance records, for any *)
(* records, times and number of overlapping runs.                          *)
(***************************************************************************)
EXTENDS AttendanceSyncSerial, TLAPS

-----------------------------------------------------------------------------
(* The resolution of two records *)

LEMMA MinutesIsInt == \A a, b \in Nat : Minutes(a, b) \in Int
BY DEF Minutes

LEMMA TimesAreInts == \A t \in MaybeTime : t # NoTime => t \in Int /\ t \in Times
BY SyncAssumption DEF MaybeTime

LEMMA EarlierAndLater ==
    ASSUME NEW a \in Times, NEW b \in Times
    PROVE  /\ a \in Nat /\ b \in Nat
           /\ Earlier(a, b) \in {a, b} /\ Earlier(a, b) <= a
           /\ Later(a, b) \in {a, b} /\ Later(a, b) >= a
<1>1. a \in Nat /\ b \in Nat
  BY SyncAssumption
<1>. QED
  BY <1>1 DEF Earlier, Later

\* A resolved time is one of the two, and is settled: it does not differ any
\* more, or it is the primary's own.
LEMMA ResolvedIn ==
    ASSUME NEW p \in Record, NEW l \in Record, ResolvesIn(p, l)
    PROVE  /\ Earlier(p.checkIn, l.checkIn) \in Times
           /\ p.checkIn \in Nat /\ l.checkIn \in Nat
           /\ Earlier(p.checkIn, l.checkIn) = p.checkIn \/ Earlier(p.checkIn, l.checkIn) = l.checkIn
           /\ Earlier(p.checkIn, l.checkIn) <= p.checkIn
<1>1. p.checkIn \in Times /\ l.checkIn \in Times
  BY DEF ResolvesIn, Record, MaybeTime
<1>. QED
  BY <1>1, EarlierAndLater

LEMMA ResolvedOut ==
    ASSUME NEW p \in Record, NEW l \in Record, ResolvesOut(p, l)
    PROVE  /\ Later(p.checkOut, l.checkOut) \in Times
           /\ p.checkOut \in Nat /\ l.checkOut \in Nat
           /\ Later(p.checkOut, l.checkOut) = p.checkOut \/ Later(p.checkOut, l.checkOut) = l.checkOut
           /\ Later(p.checkOut, l.checkOut) >= p.checkOut
<1>1. p.checkOut \in Times /\ l.checkOut \in Times
  BY DEF ResolvesOut, Record, MaybeTime
<1>. QED
  BY <1>1, EarlierAndLater

LEMMA ResolveFields ==
    ASSUME NEW d \in Record, NEW p \in Record, NEW l \in Record
    PROVE  /\ Resolve(d, p, l) \in Record
           /\ Resolve(d, p, l).key = d.key
           /\ Resolve(d, p, l).checkIn = IF ResolvesIn(p, l) THEN Earlier(p.checkIn, l.checkIn) ELSE d.checkIn
           /\ Resolve(d, p, l).checkOut = IF ResolvesOut(p, l) THEN Later(p.checkOut, l.checkOut) ELSE d.checkOut
           /\ Resolve(d, p, l).duration = IF DurationsDiffer(p, l) THEN ResolvedDuration(p, l) ELSE d.duration
           /\ Resolve(d, p, l).status = IF p.status # l.status THEN p.status ELSE d.status
<1>1. ResolvesIn(p, l) => Earlier(p.checkIn, l.checkIn) \in Times
  BY ResolvedIn
<1>2. ResolvesOut(p, l) => Later(p.checkOut, l.checkOut) \in Times
  BY ResolvedOut
<1>3. ResolvedDuration(p, l) \in Int
  <2>1. CASE ResolvesIn(p, l) /\ ResolvesOut(p, l)
    BY <2>1, <1>1, <1>2, MinutesIsInt, SyncAssumption DEF ResolvedDuration
  <2>2. CASE ~(ResolvesIn(p, l) /\ ResolvesOut(p, l))
    BY <2>2 DEF ResolvedDuration, Record
  <2>. QED
    BY <2>1, <2>2
<1>. QED
  BY <1>1, <1>2, <1>3 DEF Resolve, Record, MaybeTime

LEMMA SameRecord ==
    ASSUME NEW r \in Record, NEW s \in Record, r.key = s.key, r.checkIn = s.checkIn,
           r.checkOut = s.checkOut, r.duration = s.duration, r.status = s.status
    PROVE  r = s
BY DEF Record

\* Resolving what was resolved changes nothing.
LEMMA ResolveIsIdempotent ==
    ASSUME NEW p \in Record, NEW l \in Record
    PROVE  Resolve(Resolve(p, p, l), Resolve(p, p, l), l) = Resolve(p, p, l)
<1>. DEFINE q == Resolve(p, p, l)
            r == Resolve(q, q, l)
<1>1. q \in Record /\ r \in Record /\ r.key = q.key
  BY ResolveFields
<1>2. r.checkIn = q.checkIn
        /\ (ResolvesIn(q, l) => ResolvesIn(p, l) /\ q.checkIn = p.checkIn
               /\ Earlier(q.checkIn, l.checkIn) = Earlier(p.checkIn, l.checkIn))
  <2>1. CASE ResolvesIn(p, l)
    <3>1. q.checkIn = Earlier(p.checkIn, l.checkIn)
      BY <2>1, ResolveFields
    <3>2. q.checkIn = p.checkIn \/ ~TimestampsDiffer(q.checkIn, l.checkIn)
      BY <2>1, <3>1, ResolvedIn DEF TimestampsDiffer, Apart
    <3>3. ResolvesIn(q, l) => q.checkIn = p.checkIn
      BY <3>2 DEF ResolvesIn
    <3>4. r.checkIn = IF ResolvesIn(q, l) THEN Earlier(q.checkIn, l.checkIn) ELSE q.checkIn
      BY <1>1, ResolveFields
    <3>. QED
      BY <2>1, <3>1, <3>3, <3>4
  <2>2. CASE ~ResolvesIn(p, l)
    <3>1. q.checkIn = p.checkIn
      BY <2>2, ResolveFields
    <3>2. ~ResolvesIn(q, l)
      BY <2>2, <3>1 DEF ResolvesIn
    <3>. QED
      BY <1>1, <3>2, ResolveFields
  <2>. QED
    BY <2>1, <2>2
<1>3. r.checkOut = q.checkOut
        /\ (ResolvesOut(q, l) => ResolvesOut(p, l) /\ q.checkOut = p.checkOut
               /\ Later(q.checkOut, l.checkOut) = Later(p.checkOut, l.checkOut))
  <2>1. CASE ResolvesOut(p, l)
    <3>1. q.checkOut = Later(p.checkOut, l.checkOut)
      BY <2>1, ResolveFields
    <3>2. q.checkOut = p.checkOut \/ ~TimestampsDiffer(q.checkOut, l.checkOut)
      BY <2>1, <3>1, ResolvedOut DEF TimestampsDiffer, Apart
    <3>3. ResolvesOut(q, l) => q.checkOut = p.checkOut
      BY <3>2 DEF ResolvesOut
    <3>4. r.checkOut = IF ResolvesOut(q, l) THEN Later(q.checkOut, l.checkOut) ELSE q.checkOut
      BY <1>1, ResolveFields
    <3>. QED
      BY <2>1, <3>1, <3>3, <3>4
  <2>2. CASE ~ResolvesOut(p, l)
    <3>1. q.checkOut = p.checkOut
      BY <2>2, ResolveFields
    <3>2. ~ResolvesOut(q, l)
      BY <2>2, <3>1 DEF ResolvesOut
    <3>. QED
      BY <1>1, <3>2, ResolveFields
  <2>. QED
    BY <2>1, <2>2
<1>4. r.duration = q.duration
  <2>1. r.duration = IF DurationsDiffer(q, l) THEN ResolvedDuration(q, l) ELSE q.duration
    BY <1>1, ResolveFields
  <2>2. CASE ~DurationsDiffer(q, l)
    BY <2>1, <2>2
  <2>3. CASE ~(ResolvesIn(q, l) /\ ResolvesOut(q, l))
    BY <2>1, <2>3 DEF ResolvedDuration
  <2>4. CASE DurationsDiffer(q, l) /\ ResolvesIn(q, l) /\ ResolvesOut(q, l)
    <3>1. ResolvesIn(p, l) /\ ResolvesOut(p, l) /\ ResolvedDuration(q, l) = ResolvedDuration(p, l)
      BY <2>4, <1>2, <1>3 DEF ResolvedDuration
    <3>2. q.duration = IF DurationsDiffer(p, l) THEN ResolvedDuration(p, l) ELSE p.duration
      BY ResolveFields
    <3>3. CASE DurationsDiffer(p, l)
      BY <2>1, <2>4, <3>1, <3>2, <3>3
    <3>4. CASE ~DurationsDiffer(p, l)
      BY <2>4, <3>2, <3>4 DEF DurationsDiffer
    <3>. QED
      BY <3>3, <3>4
  <2>. QED
    BY <2>2, <2>3, <2>4
<1>5. r.status = q.status
  BY <1>1, ResolveFields
<1>. QED
  BY <1>1, <1>2, <1>3, <1>4, <1>5, SameRecord

\* A batch computed from a record, applied to what a batch left of it.
LEMMA ResolveAgain ==
    ASSUME NEW p \in Record, NEW l \in Record
    PROVE  Resolve(Resolve(p, p, l), p, l) = Resolve(p, p, l)
<1>. DEFINE q == Resolve(p, p, l)
            r == Resolve(q, p, l)
<1>1. q \in Record /\ r \in Record /\ r.key = q.key
  BY ResolveFields
<1>2. r.checkIn = q.checkIn /\ r.checkOut = q.checkOut /\ r.duration = q.duration /\ r.status = q.status
  BY <1>1, ResolveFields
<1>. QED
  BY <1>1, <1>2, SameRecord

-----------------------------------------------------------------------------
(* Types *)

\* What a call may hold besides its type.
Holds(r, ds) ==
    /\ r.at \in {"checkOut", "dialog", "update", "audit"} =>
          r.doc # NoDoc /\ r.new # NoDoc /\ ds[r.doc] # NoDoc
    /\ \A d \in Docs : r.seen[d] # NoDoc => ds[d] # NoDoc

LEMMA IdleIsACall == Idle \in Call /\ Idle.at = "idle" /\ \A ds : Holds(Idle, ds)
<1>1. Nothing \in [Docs -> Entry] /\ Forgot \in [Keys -> Entry]
  BY DEF Nothing, Forgot, Entry
<1>2. Idle \in Call
  BY <1>1 DEF Idle, Call, Entry
<1>3. Idle.at = "idle" /\ \A d \in Docs : Idle.seen[d] = NoDoc
  BY DEF Idle, Nothing
<1>. QED
  BY <1>2, <1>3 DEF Holds

LEMMA OpenedIsARecord ==
    ASSUME NEW k \in Keys, NEW t \in Times
    PROVE  Opened(k, t) \in Record
BY SyncAssumption DEF Opened, Record, MaybeTime

LEMMA ClosedIsARecord ==
    ASSUME NEW r \in Record, r.checkIn # NoTime, NEW t \in Times
    PROVE  Closed(r, t) \in Record
<1>1. r.checkIn \in Nat /\ t \in Nat
  BY SyncAssumption DEF Record, MaybeTime
<1>2. Minutes(r.checkIn, t) \in Int
  BY <1>1, MinutesIsInt
<1>. QED
  BY <1>2, SyncAssumption DEF Closed, Record, MaybeTime

LEMMA MergedIsTyped ==
    ASSUME NEW now \in [Docs -> Entry], NEW seen \in [Docs -> Entry], NEW old \in [Keys -> Entry],
           \A d \in Docs : seen[d] # NoDoc => now[d] # NoDoc
    PROVE  /\ Merged(now, seen, old) \in [Docs -> Entry]
           /\ \A d \in Docs : now[d] # NoDoc => Merged(now, seen, old)[d] # NoDoc
                                 /\ Merged(now, seen, old)[d].key = now[d].key
           /\ \A d \in Docs : now[d] = NoDoc => Merged(now, seen, old)[d] = NoDoc
<1>. SUFFICES ASSUME NEW d \in Docs
              PROVE  /\ Merged(now, seen, old)[d] \in Entry
                     /\ now[d] # NoDoc => Merged(now, seen, old)[d] # NoDoc
                                             /\ Merged(now, seen, old)[d].key = now[d].key
                     /\ now[d] = NoDoc => Merged(now, seen, old)[d] = NoDoc
  BY DEF Merged
<1>1. CASE Compared(seen, d) /\ old[seen[d].key] # NoDoc
  <2>1. seen[d] \in Record /\ now[d] \in Record
    BY <1>1 DEF Compared, Entry
  <2>2. old[seen[d].key] \in Record
    BY <1>1, <2>1 DEF Entry, Record
  <2>3. Merged(now, seen, old)[d] = Resolve(now[d], seen[d], old[seen[d].key])
    BY <1>1 DEF Merged
  <2>. QED
    BY <2>1, <2>2, <2>3, ResolveFields, SyncAssumption DEF Entry
<1>2. CASE ~(Compared(seen, d) /\ old[seen[d].key] # NoDoc)
  <2>1. Merged(now, seen, old)[d] = now[d]
    BY <1>2 DEF Merged
  <2>. QED
    BY <2>1
<1>. QED
  BY <1>1, <1>2

\* A step of c that only adds or changes records, and leaves c holding r.
LEMMA StepKeepsTypes ==
    ASSUME TypeOK, NEW c \in Callers, NEW r \in Call, Goes(c, r),
           docs' \in [Docs -> Entry], \A d \in Docs : docs[d] # NoDoc => docs'[d] # NoDoc,
           Holds(r, docs'), UNCHANGED legacy, trail' \in [Docs -> Entry], report' \in Report
    PROVE  TypeOK'
<1>1. call' \in [Callers -> Call]
  BY DEF TypeOK, Goes
<1>2. ASSUME NEW e \in Callers PROVE Holds(call'[e], docs')
  <2>1. CASE e = c
    BY <2>1 DEF TypeOK, Goes
  <2>2. CASE e # c
    <3>1. call'[e] = call[e] /\ call[e] \in Call /\ Holds(call[e], docs)
      BY <2>2 DEF TypeOK, Goes, Holds
    <3>. QED
      BY <3>1 DEF Holds, Call
  <2>. QED
    BY <2>1, <2>2
<1>. QED
  BY <1>1, <1>2 DEF TypeOK, Holds

LEMMA TypeInit == Init => TypeOK
<1>. SUFFICES ASSUME Init PROVE TypeOK
  OBVIOUS
<1>1. Punched \cap {r \in Punched : r.checkOut = NoTime \/ r.checkIn <= r.checkOut} \subseteq Record
  <2>1. \A k \in Keys, t \in Times : Opened(k, t) \in Record /\ Opened(k, t).checkIn # NoTime
    <3>1. \A t \in Times : t # NoTime
      BY SyncAssumption
    <3>. QED
      BY <3>1, OpenedIsARecord DEF Opened
  <2>. QED
    BY <2>1, ClosedIsARecord DEF Punched
<1>2. docs \in [Docs -> Entry] /\ legacy \in [Keys -> Entry] /\ trail \in [Docs -> Entry]
  BY <1>1, SyncAssumption DEF Init, Entry, Nothing
<1>3. report \in Report
  BY DEF Init, NoReport, Report
<1>4. \A c \in Callers : call[c] \in Call /\ Holds(call[c], docs)
  BY IdleIsACall DEF Init
<1>. QED
  BY <1>2, <1>3, <1>4, IdleIsACall DEF TypeOK, Init, Holds

LEMMA TypeStep == TypeOK /\ [Next]_vars => TypeOK'
<1>. SUFFICES ASSUME TypeOK, [Next]_vars PROVE TypeOK'
  OBVIOUS
<1>. USE DEF Rest
<1>t. /\ docs \in [Docs -> Entry] /\ legacy \in [Keys -> Entry] /\ trail \in [Docs -> Entry]
      /\ report \in Report
      /\ \A c \in Callers : call[c] \in Call /\ Holds(call[c], docs)
  BY DEF TypeOK, Holds
<1>i. ASSUME NEW c \in Callers, Return(c), docs' \in [Docs -> Entry],
             \A d \in Docs : docs[d] # NoDoc => docs'[d] # NoDoc,
             UNCHANGED legacy, trail' \in [Docs -> Entry], report' \in Report
      PROVE  TypeOK'
  BY <1>i, IdleIsACall, StepKeepsTypes DEF Return
<1>1. ASSUME NEW c \in Callers, NEW dry \in BOOLEAN, FetchPrimaryRecords(c, dry) PROVE TypeOK'
  <2>. DEFINE r == [Idle EXCEPT !.at = "legacy", !.dry = dry, !.seen = docs]
  <2>1. r \in Call
    BY <1>t, IdleIsACall DEF Call
  <2>2. Holds(r, docs)
    BY DEF Holds, Idle
  <2>. QED
    BY <1>1, <1>t, <2>1, <2>2, StepKeepsTypes DEF FetchPrimaryRecords
<1>2. ASSUME NEW c \in Callers, FetchLegacyRecords(c) PROVE TypeOK'
  <2>1. /\ [call[c] EXCEPT !.at = "commit", !.old = legacy] \in Call
        /\ [call[c] EXCEPT !.at = "commit"] \in Call
    BY <1>t DEF Call
  <2>2. /\ Holds([call[c] EXCEPT !.at = "commit", !.old = legacy], docs)
        /\ Holds([call[c] EXCEPT !.at = "commit"], docs)
    BY <1>t DEF Holds, Call
  <2>. QED
    BY <1>2, <1>t, <2>1, <2>2, StepKeepsTypes DEF FetchLegacyRecords
<1>3. ASSUME NEW c \in Callers, ApplyUpdates(c) PROVE TypeOK'
  <2>1. /\ docs' \in [Docs -> Entry]
        /\ \A d \in Docs : docs[d] # NoDoc => docs'[d] # NoDoc
    <3>1. CASE call[c].dry
      BY <1>3, <1>t, <3>1 DEF ApplyUpdates
    <3>2. CASE ~call[c].dry
      <4>1. /\ call[c].seen \in [Docs -> Entry] /\ call[c].old \in [Keys -> Entry]
            /\ \A d \in Docs : call[c].seen[d] # NoDoc => docs[d] # NoDoc
        BY <1>t DEF Call, Holds
      <4>. QED
        BY <1>3, <1>t, <3>2, <4>1, MergedIsTyped DEF ApplyUpdates
    <3>. QED
      BY <3>1, <3>2
  <2>2. [call[c] EXCEPT !.at = "report"] \in Call /\ Holds([call[c] EXCEPT !.at = "report"], docs')
    BY <1>t, <2>1 DEF Call, Holds
  <2>3. CASE Goes(c, [call[c] EXCEPT !.at = "report"]) /\ UNCHANGED report
    BY <1>3, <1>t, <2>1, <2>2, <2>3, StepKeepsTypes DEF ApplyUpdates
  <2>4. CASE Return(c) /\ report' = [NoReport EXCEPT !.status = "failed"]
    <3>1. report' \in Report
      BY <2>4 DEF NoReport, Report
    <3>. QED
      BY <1>3, <1>t, <1>i, <2>1, <2>4, <3>1 DEF ApplyUpdates
  <2>. QED
    BY <1>3, <2>3, <2>4 DEF ApplyUpdates
<1>4. ASSUME NEW c \in Callers, SaveSyncReport(c) PROVE TypeOK'
  <2>1. Inverted(call[c].seen) \subseteq Docs /\ Mismatched(call[c].seen) \subseteq Docs
    BY DEF Inverted, Mismatched
  <2>2. report' \in Report
    BY <1>4, <2>1 DEF SaveSyncReport, Report
  <2>. QED
    BY <1>4, <1>t, <1>i, <2>2 DEF SaveSyncReport
<1>5. ASSUME NEW c \in Callers, NEW d \in Docs, NEW k \in Keys, NEW t \in Times, CheckIn(c, d, k, t)
      PROVE  TypeOK'
  <2>1. /\ docs' \in [Docs -> Entry]
        /\ \A e \in Docs : docs[e] # NoDoc => docs'[e] # NoDoc
    BY <1>5, <1>t, OpenedIsARecord DEF CheckIn, Entry
  <2>2. \A e \in Callers : Holds(call[e], docs')
    BY <1>t, <2>1 DEF Holds, Call
  <2>. QED
    BY <1>5, <1>t, <2>1, <2>2 DEF CheckIn, TypeOK, Holds
<1>6. ASSUME NEW c \in Callers, NEW d \in Docs, FindOpen(c, d) PROVE TypeOK'
  <2>. DEFINE r == [Idle EXCEPT !.at = "checkOut", !.doc = d, !.new = docs[d]]
  <2>1. r \in Call
    BY <1>t, IdleIsACall DEF Call
  <2>2. d # NoDoc /\ docs[d] # NoDoc
    BY <1>6, SyncAssumption DEF FindOpen
  <2>3. r.doc = d /\ r.new = docs[d] /\ \A e \in Docs : r.seen[e] = NoDoc
    BY DEF Idle, Nothing
  <2>4. Holds(r, docs)
    BY <2>2, <2>3 DEF Holds
  <2>. QED
    BY <1>6, <1>t, <2>1, <2>4, StepKeepsTypes DEF FindOpen
<1>7. ASSUME NEW c \in Callers, NEW d \in Docs, OpenCorrectionDialog(c, d) PROVE TypeOK'
  <2>. DEFINE r == [Idle EXCEPT !.at = "dialog", !.doc = d, !.new = docs[d]]
  <2>1. r \in Call
    BY <1>t, IdleIsACall DEF Call
  <2>2. d # NoDoc /\ docs[d] # NoDoc
    BY <1>7, SyncAssumption DEF OpenCorrectionDialog
  <2>3. r.doc = d /\ r.new = docs[d] /\ \A e \in Docs : r.seen[e] = NoDoc
    BY DEF Idle, Nothing
  <2>4. Holds(r, docs)
    BY <2>2, <2>3 DEF Holds
  <2>. QED
    BY <1>7, <1>t, <2>1, <2>4, StepKeepsTypes DEF OpenCorrectionDialog
<1>8. ASSUME NEW c \in Callers, NEW d \in Docs, NEW row \in Rows, ImportRow(c, d, row) PROVE TypeOK'
  <2>1. row \in Record
    BY SyncAssumption
  <2>2. /\ docs' \in [Docs -> Entry]
        /\ \A e \in Docs : docs[e] # NoDoc => docs'[e] # NoDoc
    BY <1>8, <1>t, <2>1, SyncAssumption DEF ImportRow, Entry
  <2>3. \A e \in Callers : Holds(call[e], docs')
    BY <1>t, <2>2 DEF Holds, Call
  <2>. QED
    BY <1>8, <1>t, <2>2, <2>3 DEF ImportRow, TypeOK, Holds
<1>9. ASSUME NEW c \in Callers, NEW t \in Times, CheckOut(c, t) PROVE TypeOK'
  <2>. DEFINE d == call[c].doc
              r == Closed(call[c].new, t)
  <2>1. d \in Docs /\ docs[d] \in Record /\ call[c].new \in Record
    BY <1>9, <1>t DEF CheckOut, At, Holds, Call, Entry
  <2>2. r \in Record
    BY <1>9, <2>1, ClosedIsARecord DEF CheckOut
  <2>3. docs' = [docs EXCEPT ![d] = [@ EXCEPT !.checkOut = r.checkOut, !.duration = r.duration,
                                              !.status = r.status]]
    BY <1>9, <1>t, <2>1 DEF CheckOut
  <2>4. [docs[d] EXCEPT !.checkOut = r.checkOut, !.duration = r.duration, !.status = r.status] \in Record
    BY <2>1, <2>2 DEF Record
  <2>5. /\ docs' \in [Docs -> Entry]
        /\ \A e \in Docs : docs[e] # NoDoc => docs'[e] # NoDoc
    BY <1>t, <2>1, <2>3, <2>4, SyncAssumption DEF Entry
  <2>. QED
    BY <1>9, <1>t, <1>i, <2>5 DEF CheckOut
<1>10. ASSUME NEW c \in Callers, NEW ci \in MaybeTime, NEW co \in MaybeTime, NEW s \in Statuses,
              SaveCorrection(c, ci, co, s)
       PROVE  TypeOK'
  <2>. DEFINE n == [call[c].new EXCEPT !.checkIn = ci, !.checkOut = co, !.status = s,
                                       !.duration = RecomputeDuration(ci, co)]
              r == [call[c] EXCEPT !.at = "update", !.new = n]
  <2>1. call[c].doc # NoDoc /\ docs[call[c].doc] # NoDoc /\ call[c].new \in Record
    BY <1>10, <1>t DEF SaveCorrection, At, Holds, Call, Entry
  <2>2. RecomputeDuration(ci, co) \in Int
    BY MinutesIsInt, SyncAssumption DEF RecomputeDuration, MaybeTime
  <2>3. n \in Record
    BY <2>1, <2>2 DEF Record
  <2>4. r \in Call
    BY <1>t, <2>3 DEF Call, Entry
  <2>5. Holds(r, docs)
    BY <1>t, <2>1, <2>3, SyncAssumption DEF Holds, Call
  <2>. QED
    BY <1>10, <1>t, <2>4, <2>5, StepKeepsTypes DEF SaveCorrection
<1>11. ASSUME NEW c \in Callers, UpdateAttendance(c) PROVE TypeOK'
  <2>. DEFINE d == call[c].doc
              r == [call[c] EXCEPT !.at = "audit"]
  <2>1. d \in Docs /\ docs[d] \in Record /\ call[c].new \in Record
    BY <1>11, <1>t DEF UpdateAttendance, At, Holds, Call, Entry
  <2>2. Corrected(docs[d], call[c].new) \in Record
    BY <2>1 DEF Corrected, Record
  <2>3. /\ docs' \in [Docs -> Entry]
        /\ \A e \in Docs : docs[e] # NoDoc => docs'[e] # NoDoc
    BY <1>11, <1>t, <2>1, <2>2, SyncAssumption DEF UpdateAttendance, Entry
  <2>4. r \in Call /\ Holds(r, docs')
    BY <1>11, <1>t, <2>1, <2>3, SyncAssumption DEF UpdateAttendance, At, Holds, Call
  <2>. QED
    BY <1>11, <1>t, <2>3, <2>4, StepKeepsTypes DEF UpdateAttendance
<1>12. ASSUME NEW c \in Callers, AddAudit(c) PROVE TypeOK'
  <2>1. trail' \in [Docs -> Entry]
    BY <1>12, <1>t DEF AddAudit, Call
  <2>. QED
    BY <1>12, <1>t, <1>i, <2>1 DEF AddAudit
<1>13. ASSUME NEW c \in Callers, ImportAttendanceFromCSV(c) PROVE TypeOK'
  <2>. DEFINE r == [Idle EXCEPT !.at = "import"]
  <2>1. r \in Call
    BY IdleIsACall DEF Call
  <2>2. Holds(r, docs)
    BY DEF Holds, Idle, Nothing
  <2>. QED
    BY <1>13, <1>t, <2>1, <2>2, StepKeepsTypes DEF ImportAttendanceFromCSV
<1>14. ASSUME NEW c \in Callers, ImportDone(c) PROVE TypeOK'
  BY <1>14, <1>t, <1>i DEF ImportDone
<1>15. ASSUME NEW c \in Callers, GiveUp(c) PROVE TypeOK'
  <2>1. report' \in Report
    BY <1>15, <1>t DEF GiveUp, NoReport, Report
  <2>. QED
    BY <1>15, <1>t, <1>i, <2>1 DEF GiveUp
<1>16. CASE UNCHANGED vars
  BY <1>16 DEF TypeOK, vars
<1>. QED
  BY <1>1, <1>2, <1>3, <1>4, <1>5, <1>6, <1>7, <1>8, <1>9, <1>10, <1>11, <1>12, <1>13, <1>14,
     <1>15, <1>16 DEF Next, CallStep, SyncStep, RecordStep

\* Records, snapshots and reports keep their types, and a call that writes
\* holds a record to write and the values it writes.
THEOREM TypeCorrect == Spec => []TypeOK
BY TypeInit, TypeStep, PTL DEF Spec

-----------------------------------------------------------------------------
(* One pass settles *)

Resolvable(ds, d) == Compared(ds, d) /\ legacy[ds[d].key] # NoDoc

\* Records of the same keys are compared alike.
LEMMA SameKeysCompareAlike ==
    ASSUME NEW xs \in [Docs -> Entry], NEW ys \in [Docs -> Entry],
           \A d \in Docs : xs[d] = NoDoc <=> ys[d] = NoDoc,
           \A d \in Docs : xs[d] # NoDoc => ys[d].key = xs[d].key
    PROVE  \A d \in Docs : Resolvable(xs, d) <=> Resolvable(ys, d)
BY DEF Resolvable, Compared

LEMMA ResolvableRecords ==
    ASSUME TypeOK, NEW ds \in [Docs -> Entry], NEW d \in Docs, Resolvable(ds, d)
    PROVE  ds[d] \in Record /\ legacy[ds[d].key] \in Record
<1>1. ds[d] \in Record
  BY DEF Resolvable, Compared, Entry
<1>. QED
  BY <1>1 DEF TypeOK, Resolvable, Entry, Record

\* What a whole synchronisation makes of each record.
LEMMA OutcomeAt ==
    ASSUME TypeOK, NEW ds \in [Docs -> Entry], NEW d \in Docs
    PROVE  Merged(ds, ds, legacy)[d] = IF Resolvable(ds, d)
                                       THEN Resolve(ds[d], ds[d], legacy[ds[d].key]) ELSE ds[d]
BY DEF Merged, Resolvable

LEMMA StableWhenTyped == TypeOK => RepeatIsStable
<1>. SUFFICES ASSUME TypeOK PROVE RepeatIsStable
  OBVIOUS
<1>1. docs \in [Docs -> Entry] /\ legacy \in [Keys -> Entry]
  BY DEF TypeOK
<1>2. /\ Outcome \in [Docs -> Entry]
      /\ \A d \in Docs : docs[d] # NoDoc => Outcome[d] # NoDoc /\ Outcome[d].key = docs[d].key
      /\ \A d \in Docs : docs[d] = NoDoc => Outcome[d] = NoDoc
  BY <1>1, MergedIsTyped DEF Outcome
<1>3. \A d \in Docs : Resolvable(docs, d) <=> Resolvable(Outcome, d)
  BY <1>1, <1>2, SameKeysCompareAlike
<1>4. Merged(Outcome, Outcome, legacy) \in [Docs -> Entry]
  BY <1>1, <1>2, MergedIsTyped
<1>5. ASSUME NEW d \in Docs PROVE Merged(Outcome, Outcome, legacy)[d] = Outcome[d]
  <2>1. CASE Resolvable(docs, d)
    <3>. DEFINE l == legacy[docs[d].key]
    <3>1. docs[d] \in Record /\ l \in Record
      BY <1>1, <2>1, ResolvableRecords
    <3>2. Outcome[d] = Resolve(docs[d], docs[d], l)
      BY <1>1, <2>1, OutcomeAt DEF Outcome
    <3>3. legacy[Outcome[d].key] = l
      BY <3>1, <3>2, ResolveFields
    <3>4. Merged(Outcome, Outcome, legacy)[d] = Resolve(Outcome[d], Outcome[d], l)
      BY <1>2, <1>3, <2>1, <3>3, OutcomeAt
    <3>. QED
      BY <3>1, <3>2, <3>4, ResolveIsIdempotent
  <2>2. CASE ~Resolvable(docs, d)
    BY <1>2, <1>3, <2>2, OutcomeAt
  <2>. QED
    BY <2>1, <2>2
<1>. QED
  BY <1>2, <1>4, <1>5 DEF RepeatIsStable

\* Synchronising what a synchronisation left changes nothing: a run whose
\* answer was lost may be repeated.
THEOREM OnePassSettles == Spec => []RepeatIsStable
BY TypeCorrect, StableWhenTyped, PTL

-----------------------------------------------------------------------------
(* Overlapping runs converge: the inductive invariant says how far the records *)
(* may have moved since a run fetched them, by one resolution at most.         *)

Behind(s, ds, d) ==
    \/ s[d] = ds[d]
    \/ Resolvable(s, d) /\ ds[d] = Resolve(s[d], s[d], legacy[s[d].key])

RunInv ==
    \A c \in Callers :
        /\ call[c].at \in {"idle", "legacy", "commit", "report"}
        /\ call[c].old \in {legacy, Forgot}
        /\ call[c].at # "idle" => \A d \in Docs : Behind(call[c].seen, docs, d)

ConvergeInv == TypeOK /\ RunInv

\* A batch moves a record to its resolution or leaves it alone.
LEMMA BatchResolves ==
    ASSUME ConvergeInv, NEW c \in Callers, ApplyUpdates(c), NEW d \in Docs
    PROVE  docs'[d] = docs[d]
              \/ (Resolvable(docs, d) /\ docs'[d] = Resolve(docs[d], docs[d], legacy[docs[d].key]))
<1>. DEFINE s == call[c].seen
            old == call[c].old
<1>1. s \in [Docs -> Entry] /\ docs \in [Docs -> Entry] /\ old \in {legacy, Forgot}
  BY DEF ConvergeInv, TypeOK, RunInv, Call
<1>2. \A e \in Docs : Behind(s, docs, e)
  BY DEF ConvergeInv, RunInv, ApplyUpdates, At
<1>3. CASE call[c].dry \/ ~(Compared(s, d) /\ old[s[d].key] # NoDoc)
  BY <1>1, <1>3 DEF ApplyUpdates, Merged
<1>4. CASE ~call[c].dry /\ Compared(s, d) /\ old[s[d].key] # NoDoc
  <2>1. s[d] \in Record
    BY <1>1, <1>4 DEF Compared, Entry
  <2>2. old = legacy
    BY <1>1, <1>4, <2>1 DEF Forgot, Record
  <2>3. Resolvable(s, d) /\ legacy[s[d].key] \in Record
    BY <1>1, <1>4, <2>2, ResolvableRecords DEF Resolvable, ConvergeInv
  <2>4. docs'[d] = Resolve(docs[d], s[d], legacy[s[d].key])
    BY <1>4, <2>2 DEF ApplyUpdates, Merged
  <2>5. CASE docs[d] = s[d]
    <3>1. \A e \in Docs : (s[e] = NoDoc <=> docs[e] = NoDoc) /\ (s[e] # NoDoc => docs[e].key = s[e].key)
      <4>. SUFFICES ASSUME NEW e \in Docs, s[e] # docs[e]
                    PROVE  s[e] # NoDoc /\ docs[e] # NoDoc /\ docs[e].key = s[e].key
        OBVIOUS
      <4>1. Resolvable(s, e) /\ docs[e] = Resolve(s[e], s[e], legacy[s[e].key])
        BY <1>2 DEF Behind
      <4>2. s[e] \in Record /\ legacy[s[e].key] \in Record
        BY <1>1, <4>1, ResolvableRecords DEF ConvergeInv
      <4>. QED
        BY <4>1, <4>2, ResolveFields, SyncAssumption
    <3>2. Resolvable(docs, d)
      BY <1>1, <2>3, <3>1, SameKeysCompareAlike
    <3>. QED
      BY <2>4, <2>5, <3>2
  <2>6. CASE docs[d] # s[d]
    <3>1. docs[d] = Resolve(s[d], s[d], legacy[s[d].key])
      BY <1>2, <2>6 DEF Behind
    <3>. QED
      BY <2>1, <2>3, <2>4, <3>1, ResolveAgain
  <2>. QED
    BY <2>5, <2>6
<1>. QED
  BY <1>3, <1>4

\* Such a step keeps every record's key, and the outcome.
LEMMA ResolvingKeepsOutcome ==
    ASSUME TypeOK, docs' \in [Docs -> Entry], legacy' = legacy, TypeOK',
           \A d \in Docs : docs'[d] = docs[d]
              \/ (Resolvable(docs, d) /\ docs'[d] = Resolve(docs[d], docs[d], legacy[docs[d].key]))
    PROVE  /\ \A d \in Docs : Resolvable(docs', d) <=> Resolvable(docs, d)
           /\ \A d \in Docs : docs[d] # NoDoc => docs'[d].key = docs[d].key
           /\ Outcome' = Outcome
<1>1. docs \in [Docs -> Entry] /\ docs' \in [Docs -> Entry]
  BY DEF TypeOK
<1>2. \A d \in Docs : (docs[d] = NoDoc <=> docs'[d] = NoDoc) /\ (docs[d] # NoDoc => docs'[d].key = docs[d].key)
  <2>. SUFFICES ASSUME NEW d \in Docs, docs'[d] # docs[d]
                PROVE  docs[d] # NoDoc /\ docs'[d] # NoDoc /\ docs'[d].key = docs[d].key
    OBVIOUS
  <2>1. Resolvable(docs, d) /\ docs'[d] = Resolve(docs[d], docs[d], legacy[docs[d].key])
    OBVIOUS
  <2>2. docs[d] \in Record /\ legacy[docs[d].key] \in Record
    BY <1>1, <2>1, ResolvableRecords
  <2>. QED
    BY <2>1, <2>2, ResolveFields, SyncAssumption
<1>3. \A d \in Docs : Resolvable(docs', d) <=> Resolvable(docs, d)
  BY <1>1, <1>2, SameKeysCompareAlike
<1>4. Outcome' = Merged(docs', docs', legacy)
  BY DEF Outcome
<1>5. ASSUME NEW d \in Docs PROVE Merged(docs', docs', legacy)[d] = Merged(docs, docs, legacy)[d]
  <2>1. CASE Resolvable(docs, d)
    <3>. DEFINE l == legacy[docs[d].key]
    <3>1. docs[d] \in Record /\ l \in Record
      BY <1>1, <2>1, ResolvableRecords
    <3>2. legacy[docs'[d].key] = l
      BY <1>2, <3>1, SyncAssumption
    <3>3. /\ Merged(docs', docs', legacy)[d] = Resolve(docs'[d], docs'[d], l)
          /\ Merged(docs, docs, legacy)[d] = Resolve(docs[d], docs[d], l)
      BY <1>1, <1>3, <2>1, <3>2, OutcomeAt
    <3>. QED
      BY <3>1, <3>3, ResolveIsIdempotent
  <2>2. CASE ~Resolvable(docs, d)
    <3>1. docs'[d] = docs[d]
      BY <2>2
    <3>. QED
      BY <1>1, <1>3, <2>2, <3>1, OutcomeAt
  <2>. QED
    BY <2>1, <2>2
<1>6. /\ Merged(docs', docs', legacy) = [d \in Docs |-> Merged(docs', docs', legacy)[d]]
      /\ Merged(docs, docs, legacy) = [d \in Docs |-> Merged(docs, docs, legacy)[d]]
  BY DEF Merged
<1>. QED
  BY <1>2, <1>3, <1>4, <1>5, <1>6 DEF Outcome

\* What was behind stays behind when the records move to their resolutions.
LEMMA BehindKeeps ==
    ASSUME ConvergeInv, TypeOK', legacy' = legacy, NEW s \in [Docs -> Entry],
           \A e \in Docs : Behind(s, docs, e),
           \A d \in Docs : docs'[d] = docs[d]
              \/ (Resolvable(docs, d) /\ docs'[d] = Resolve(docs[d], docs[d], legacy[docs[d].key]))
    PROVE  \A e \in Docs : Behind(s, docs', e)
<1>. SUFFICES ASSUME NEW e \in Docs, s[e] # docs'[e]
              PROVE  Resolvable(s, e) /\ docs'[e] = Resolve(s[e], s[e], legacy[s[e].key])
  BY DEF Behind, Resolvable
<1>1. docs \in [Docs -> Entry] /\ legacy \in [Keys -> Entry] /\ TypeOK
  BY DEF ConvergeInv, TypeOK
<1>2. \A d \in Docs : (s[d] = NoDoc <=> docs[d] = NoDoc) /\ (s[d] # NoDoc => docs[d].key = s[d].key)
  <2>. SUFFICES ASSUME NEW d \in Docs, s[d] # docs[d]
                PROVE  s[d] # NoDoc /\ docs[d] # NoDoc /\ docs[d].key = s[d].key
    OBVIOUS
  <2>1. Resolvable(s, d) /\ docs[d] = Resolve(s[d], s[d], legacy[s[d].key])
    BY DEF Behind
  <2>2. s[d] \in Record /\ legacy[s[d].key] \in Record
    BY <1>1, <2>1, ResolvableRecords
  <2>. QED
    BY <2>1, <2>2, ResolveFields, SyncAssumption
<1>3. \A d \in Docs : Resolvable(s, d) <=> Resolvable(docs, d)
  BY <1>1, <1>2, SameKeysCompareAlike
<1>4. CASE docs'[e] = docs[e]
  BY <1>4 DEF Behind
<1>5. CASE Resolvable(docs, e) /\ docs'[e] = Resolve(docs[e], docs[e], legacy[docs[e].key])
  <2>. DEFINE l == legacy[s[e].key]
  <2>1. Resolvable(s, e) /\ s[e] \in Record /\ l \in Record
    BY <1>1, <1>3, <1>5, ResolvableRecords
  <2>2. legacy[docs[e].key] = l
    BY <1>2, <2>1, SyncAssumption
  <2>3. docs[e] = s[e] \/ docs[e] = Resolve(s[e], s[e], l)
    BY DEF Behind
  <2>. QED
    BY <1>5, <2>1, <2>2, <2>3, ResolveIsIdempotent
<1>. QED
  BY <1>4, <1>5

LEMMA ConvergeInit == Init => ConvergeInv
<1>. SUFFICES ASSUME Init PROVE RunInv
  BY TypeInit DEF ConvergeInv
<1>1. \A c \in Callers : call[c].at = "idle" /\ call[c].old = Forgot
  BY DEF Init, Idle
<1>. QED
  BY <1>1 DEF RunInv

LEMMA ConvergeStep ==
    ASSUME Ops \subseteq {"sync", "fail"}, ConvergeInv, [Next]_vars
    PROVE  ConvergeInv' /\ Outcome' = Outcome
<1>. USE DEF Rest
<1>t. /\ TypeOK /\ TypeOK' /\ RunInv
      /\ docs \in [Docs -> Entry] /\ docs' \in [Docs -> Entry] /\ \A c \in Callers : call[c] \in Call
  BY TypeStep DEF ConvergeInv, TypeOK
<1>l. legacy' = legacy
  BY DEF Next, CallStep, SyncStep, RecordStep, vars, FetchPrimaryRecords, FetchLegacyRecords, ApplyUpdates, SaveSyncReport, CheckIn,
     FindOpen, OpenCorrectionDialog, ImportRow, CheckOut, SaveCorrection, UpdateAttendance, AddAudit,
     ImportAttendanceFromCSV, ImportDone, GiveUp
\* Of the steps that are left, each ends with its caller holding some r.
<1>k. ASSUME NEW c \in Callers, NEW r, Goes(c, r),
             r.at \in {"idle", "legacy", "commit", "report"}, r.old \in {legacy, Forgot},
             r.at # "idle" => \A d \in Docs : Behind(r.seen, docs', d),
             \A d \in Docs : docs'[d] = docs[d]
                \/ (Resolvable(docs, d) /\ docs'[d] = Resolve(docs[d], docs[d], legacy[docs[d].key]))
      PROVE  ConvergeInv' /\ Outcome' = Outcome
  <2>1. Outcome' = Outcome
    BY <1>t, <1>l, <1>k, ResolvingKeepsOutcome
  <2>2. ASSUME NEW e \in Callers
        PROVE  /\ call'[e].at \in {"idle", "legacy", "commit", "report"}
               /\ call'[e].old \in {legacy', Forgot}
               /\ call'[e].at # "idle" => \A d \in Docs : Behind(call'[e].seen, docs', d)
    <3>1. CASE e = c
      BY <1>t, <1>l, <1>k, <3>1 DEF TypeOK, Goes
    <3>2. CASE e # c
      <4>1. call'[e] = call[e] /\ call[e].seen \in [Docs -> Entry]
        BY <1>t, <1>k, <3>2 DEF TypeOK, Goes, Call
      <4>2. call[e].at # "idle" => \A d \in Docs : Behind(call[e].seen, docs, d)
        BY <1>t DEF RunInv
      <4>3. call[e].at # "idle" => \A d \in Docs : Behind(call[e].seen, docs', d)
        BY <1>t, <1>l, <1>k, <4>1, <4>2, BehindKeeps
      <4>. QED
        BY <1>t, <1>l, <4>1, <4>3 DEF RunInv
    <3>. QED
      BY <3>1, <3>2
  <2>. QED
    BY <1>t, <1>l, <2>1, <2>2 DEF ConvergeInv, RunInv, Behind, Resolvable
<1>r. ASSUME NEW c \in Callers, Return(c), UNCHANGED docs PROVE ConvergeInv' /\ Outcome' = Outcome
  BY <1>r, <1>k DEF Return, Idle
<1>1. ASSUME NEW c \in Callers, NEW dry \in BOOLEAN, FetchPrimaryRecords(c, dry)
      PROVE  ConvergeInv' /\ Outcome' = Outcome
  <2>. DEFINE r == [Idle EXCEPT !.at = "legacy", !.dry = dry, !.seen = docs]
  <2>1. r.at = "legacy" /\ r.old = Forgot /\ r.seen = docs
    BY DEF Idle
  <2>2. \A d \in Docs : Behind(r.seen, docs', d)
    BY <1>1, <2>1 DEF FetchPrimaryRecords, Behind
  <2>. QED
    BY <1>1, <1>k, <2>1, <2>2 DEF FetchPrimaryRecords
<1>2. ASSUME NEW c \in Callers, FetchLegacyRecords(c) PROVE ConvergeInv' /\ Outcome' = Outcome
  <2>1. /\ call[c].at = "legacy" /\ UNCHANGED <<docs, legacy>> /\ call[c].old \in {legacy, Forgot}
        /\ \A d \in Docs : Behind(call[c].seen, docs, d)
    BY <1>2, <1>t DEF FetchLegacyRecords, At, RunInv
  <2>2. \A d \in Docs : Behind(call[c].seen, docs', d)
    BY <2>1 DEF Behind, Resolvable
  <2>3. CASE Goes(c, [call[c] EXCEPT !.at = "commit", !.old = legacy])
    BY <1>t, <1>k, <2>1, <2>2, <2>3 DEF Call
  <2>4. CASE Goes(c, [call[c] EXCEPT !.at = "commit"])
    BY <1>t, <1>k, <2>1, <2>2, <2>4 DEF Call
  <2>. QED
    BY <1>2, <2>3, <2>4 DEF FetchLegacyRecords
<1>3. ASSUME NEW c \in Callers, ApplyUpdates(c) PROVE ConvergeInv' /\ Outcome' = Outcome
  <2>1. \A d \in Docs : docs'[d] = docs[d]
           \/ (Resolvable(docs, d) /\ docs'[d] = Resolve(docs[d], docs[d], legacy[docs[d].key]))
    BY <1>3, BatchResolves
  <2>2. /\ call[c].seen \in [Docs -> Entry] /\ call[c].old \in {legacy, Forgot}
        /\ \A d \in Docs : Behind(call[c].seen, docs, d)
    BY <1>3, <1>t DEF ApplyUpdates, At, RunInv, Call
  <2>3. \A d \in Docs : Behind(call[c].seen, docs', d)
    BY <1>t, <1>l, <2>1, <2>2, BehindKeeps
  <2>4. CASE Goes(c, [call[c] EXCEPT !.at = "report"])
    BY <1>t, <1>k, <2>1, <2>2, <2>3, <2>4 DEF Call
  <2>5. CASE Return(c)
    BY <1>k, <2>1, <2>5 DEF Return, Idle
  <2>. QED
    BY <1>3, <2>4, <2>5 DEF ApplyUpdates
<1>4. ASSUME NEW c \in Callers, SaveSyncReport(c) \/ GiveUp(c) PROVE ConvergeInv' /\ Outcome' = Outcome
  BY <1>4, <1>r DEF SaveSyncReport, GiveUp
<1>5. ASSUME NEW c \in Callers, NEW d, NEW k, NEW t, NEW ci, NEW co, NEW s
      PROVE  /\ ~CheckIn(c, d, k, t) /\ ~FindOpen(c, d) /\ ~OpenCorrectionDialog(c, d)
             /\ (\A row \in Rows : ~ImportRow(c, d, row)) /\ ~CheckOut(c, t) /\ ~SaveCorrection(c, ci, co, s)
             /\ ~UpdateAttendance(c) /\ ~AddAudit(c) /\ ~ImportAttendanceFromCSV(c) /\ ~ImportDone(c)
  <2>1. call[c].at \notin {"checkOut", "dialog", "update", "audit", "import"}
    BY <1>t DEF RunInv
  <2>2. "punch" \notin Ops /\ "correct" \notin Ops /\ "import" \notin Ops
    OBVIOUS
  <2>. QED
    BY <2>1, <2>2 DEF At, CheckIn, FindOpen, OpenCorrectionDialog, ImportRow, CheckOut, SaveCorrection,
       UpdateAttendance, AddAudit, ImportAttendanceFromCSV, ImportDone
<1>6. CASE UNCHANGED vars
  BY <1>6, <1>t DEF vars, ConvergeInv, RunInv, Behind, Resolvable, Outcome
<1>7. \A c \in Callers : ~UpdateAttendance(c) /\ ~AddAudit(c) /\ ~ImportAttendanceFromCSV(c) /\ ~ImportDone(c)
  BY <1>5
<1>. QED
  BY <1>1, <1>2, <1>3, <1>4, <1>5, <1>6, <1>7 DEF Next, CallStep, SyncStep, RecordStep

\* However many runs overlap, fail and repeat, no stale batch changes what the
\* records are going to be once a run is complete.
THEOREM OverlappingRunsConverge ==
    ASSUME Ops \subseteq {"sync", "fail"}
    PROVE  Spec => RunsConverge
<1>1. Init => ConvergeInv
  BY ConvergeInit
<1>2. ConvergeInv /\ [Next]_vars => ConvergeInv'
  BY ConvergeStep
<1>3. ConvergeInv /\ [Next]_vars => [Outcome' = Outcome]_vars
  BY ConvergeStep
<1>. QED
  BY <1>1, <1>2, <1>3, PTL DEF Spec, RunsConverge

-----------------------------------------------------------------------------
(* Calls that do not overlap, and calls that hold what is still so *)

\* A record whose duration is the time between its two ends.
Timed(r) == NoTime \notin {r.checkIn, r.checkOut} => r.duration = Minutes(r.checkIn, r.checkOut)

\* Alone, a synchronisation writes to the records it fetched, and an audit tells
\* what the correction wrote.
Undisturbed ==
    \A c \in Callers :
        /\ call[c].at \in {"legacy", "commit"} => call[c].seen = docs
        /\ call[c].at = "audit" => docs[call[c].doc] = Corrected(docs[call[c].doc], call[c].new)

\* What r has read of its record is still so, and what it will write follows
\* from it.
Current(r, ds) ==
    /\ r.at \in {"checkOut", "dialog"} =>
          r.new.checkIn = ds[r.doc].checkIn /\ r.new.checkOut = ds[r.doc].checkOut
    /\ r.at = "update" =>
          /\ r.new.duration = RecomputeDuration(r.new.checkIn, r.new.checkOut)
          /\ r.new.checkIn = NoTime => ds[r.doc].checkIn = NoTime
          /\ r.new.checkOut = NoTime => ds[r.doc].checkOut = NoTime

\* Calls that are not stale hold what is still so, and durations follow.
Followed ==
    /\ \A c \in Callers \ stale : Current(call[c], docs)
    /\ DurationFollowsTimes

HistoryInv ==
    /\ TypeOK
    /\ overlapped \in BOOLEAN
    /\ ~overlapped => Undisturbed
    /\ Followed

LEMMA CorrectedTwice ==
    ASSUME NEW r \in Record, NEW n \in Record
    PROVE  Corrected(r, n) = Corrected(Corrected(r, n), n)
BY DEF Corrected, Record

LEMMA UndisturbedStep ==
    ASSUME TypeOK, Undisturbed, NEW c \in Callers, CallStep(c),
           \A e \in Callers \ {c} : At(e, "idle")
    PROVE  Undisturbed'
<1>. USE DEF Rest
<1>t. call[c] \in Call /\ docs \in [Docs -> Entry]
  BY DEF TypeOK
<1>k. ASSUME NEW r, Goes(c, r), r.at \in {"legacy", "commit"} => r.seen = docs',
             r.at = "audit" => docs'[r.doc] = Corrected(docs'[r.doc], r.new)
      PROVE  Undisturbed'
  <2>1. call'[c] = r /\ \A e \in Callers \ {c} : call'[e] = call[e]
    BY <1>k DEF TypeOK, Goes
  <2>. QED
    BY <1>k, <2>1 DEF Undisturbed, At
<1>r. Return(c) => Undisturbed'
  BY <1>k DEF Return, Idle
<1>1. ASSUME NEW dry \in BOOLEAN, FetchPrimaryRecords(c, dry) PROVE Undisturbed'
  BY <1>1, <1>k DEF FetchPrimaryRecords, Idle
<1>2. CASE FetchLegacyRecords(c)
  <2>1. call[c].seen = docs /\ UNCHANGED docs
    BY <1>2 DEF FetchLegacyRecords, At, Undisturbed
  <2>2. CASE Goes(c, [call[c] EXCEPT !.at = "commit", !.old = legacy])
    BY <1>t, <1>k, <2>1, <2>2 DEF Call
  <2>3. CASE Goes(c, [call[c] EXCEPT !.at = "commit"])
    BY <1>t, <1>k, <2>1, <2>3 DEF Call
  <2>. QED
    BY <1>2, <2>2, <2>3 DEF FetchLegacyRecords
<1>3. CASE ApplyUpdates(c)
  <2>1. CASE Goes(c, [call[c] EXCEPT !.at = "report"])
    BY <1>t, <1>k, <2>1 DEF Call
  <2>. QED
    BY <1>3, <1>r, <2>1 DEF ApplyUpdates
<1>4. CASE UpdateAttendance(c)
  <2>. DEFINE d == call[c].doc
              n == call[c].new
              r == [call[c] EXCEPT !.at = "audit"]
  <2>1. d \in Docs /\ docs[d] \in Record /\ n \in Record
    BY <1>4, <1>t DEF UpdateAttendance, At, TypeOK, Call, Entry
  <2>2. r.at = "audit" /\ r.doc = d /\ r.new = n /\ Goes(c, r)
    BY <1>4, <1>t DEF UpdateAttendance, Call
  <2>3. docs'[d] = Corrected(docs[d], n)
    BY <1>4, <1>t, <2>1 DEF UpdateAttendance
  <2>4. Corrected(docs[d], n) = Corrected(Corrected(docs[d], n), n)
    BY <2>1, CorrectedTwice
  <2>5. docs'[r.doc] = Corrected(docs'[r.doc], r.new)
    BY <2>2, <2>3, <2>4
  <2>. QED
    BY <1>k, <2>2, <2>5
<1>5. ASSUME NEW d \in Docs, NEW k \in Keys, NEW t \in Times, CheckIn(c, d, k, t) PROVE Undisturbed'
  BY <1>5 DEF CheckIn, At, Undisturbed
<1>6. ASSUME NEW d \in Docs, FindOpen(c, d) \/ OpenCorrectionDialog(c, d) PROVE Undisturbed'
  BY <1>6, <1>k DEF FindOpen, OpenCorrectionDialog, Idle
<1>7. ASSUME NEW d \in Docs, NEW row \in Rows, ImportRow(c, d, row) PROVE Undisturbed'
  BY <1>7 DEF ImportRow, At, Undisturbed
<1>8. ASSUME NEW ci, NEW co, NEW s, SaveCorrection(c, ci, co, s) PROVE Undisturbed'
  <2>1. PICK n : Goes(c, [call[c] EXCEPT !.at = "update", !.new = n])
    BY <1>8 DEF SaveCorrection
  <2>. QED
    BY <1>t, <1>k, <2>1 DEF Call
<1>9. CASE ImportAttendanceFromCSV(c)
  BY <1>9, <1>k DEF ImportAttendanceFromCSV, Idle
<1>10. CASE SaveSyncReport(c) \/ GiveUp(c) \/ AddAudit(c) \/ ImportDone(c) \/ \E t \in Times : CheckOut(c, t)
  BY <1>10, <1>r DEF SaveSyncReport, GiveUp, AddAudit, ImportDone, CheckOut
<1>. QED
  BY <1>1, <1>2, <1>3, <1>4, <1>5, <1>6, <1>7, <1>8, <1>9, <1>10 DEF CallStep, SyncStep, RecordStep

LEMMA TimedAreNotMismatched ==
    ASSUME NEW ds \in [Docs -> Entry], NEW d \in Docs, ds[d] # NoDoc => Timed(ds[d])
    PROVE  d \notin Mismatched(ds)
BY DEF Mismatched, HasBothTimes, Timed, Apart, Entry, Record

LEMMA FollowedStep ==
    ASSUME TypeOK, TypeOK', Followed, NEW c \in Callers, CallStep(c),
           stale' = {e \in Callers : /\ Holding(call'[e]) /\ Holding(call[e])
                                     /\ e \in stale \/ Moved(call[e].doc)},
           reworked' = {d \in Docs : IF docs'[d] = docs[d] THEN d \in reworked ELSE ~Direct(c)}
    PROVE  Followed'
<1>. USE DEF Rest
<1>t. /\ docs \in [Docs -> Entry] /\ docs' \in [Docs -> Entry]
      /\ \A e \in Callers : /\ call[e] \in Call
                            /\ Holding(call[e]) => /\ call[e].doc \in Docs /\ docs[call[e].doc] \in Record
                                                   /\ call[e].new \in Record
  BY DEF TypeOK, Call, Entry, Holding
<1>d. ASSUME \A d \in Docs : docs'[d] # docs[d] /\ Direct(c) => Timed(docs'[d])
      PROVE  DurationFollowsTimes'
  <2>. SUFFICES ASSUME NEW d \in Mismatched(docs') PROVE d \in reworked'
    BY DEF DurationFollowsTimes, Mismatched, HasBothTimes
  <2>1. d \in Docs
    BY DEF Mismatched
  <2>2. CASE docs'[d] = docs[d]
    BY <2>1, <2>2 DEF Followed, DurationFollowsTimes, Mismatched, HasBothTimes
  <2>3. CASE docs'[d] # docs[d]
    BY <1>t, <1>d, <2>1, <2>3, TimedAreNotMismatched
  <2>. QED
    BY <2>2, <2>3
<1>e. ASSUME NEW e \in Callers \ stale', call'[e] = call[e]
      PROVE  Current(call'[e], docs')
  <2>1. CASE Holding(call[e])
    <3>1. e \notin stale /\ ~Moved(call[e].doc)
      BY <1>e, <2>1
    <3>. QED
      BY <1>e, <3>1 DEF Followed, Current, Moved
  <2>2. CASE ~Holding(call[e])
    BY <1>e, <2>2 DEF Current, Holding
  <2>. QED
    BY <2>1, <2>2
<1>k. ASSUME NEW r, Goes(c, r), \A d \in Docs : docs'[d] # docs[d] /\ Direct(c) => Timed(docs'[d]),
             c \notin stale' => Current(r, docs')
      PROVE  Followed'
  <2>1. call'[c] = r /\ \A e \in Callers \ {c} : call'[e] = call[e]
    BY <1>k DEF TypeOK, Goes
  <2>. QED
    BY <1>d, <1>e, <1>k, <2>1 DEF Followed
<1>s. ASSUME UNCHANGED docs, NEW r, Goes(c, r), r.at \notin {"checkOut", "dialog", "update"}
      PROVE  Followed'
  BY <1>s, <1>k DEF Current
<1>r. ASSUME Return(c), \A d \in Docs : docs'[d] # docs[d] /\ Direct(c) => Timed(docs'[d])
      PROVE  Followed'
  BY <1>r, <1>k DEF Return, Current, Idle
<1>1. ASSUME NEW dry \in BOOLEAN, FetchPrimaryRecords(c, dry) PROVE Followed'
  BY <1>1, <1>s DEF FetchPrimaryRecords, Idle
<1>2. CASE FetchLegacyRecords(c)
  <2>1. CASE Goes(c, [call[c] EXCEPT !.at = "commit", !.old = legacy])
    BY <1>2, <1>t, <1>s, <2>1 DEF Call, FetchLegacyRecords
  <2>2. CASE Goes(c, [call[c] EXCEPT !.at = "commit"])
    BY <1>2, <1>t, <1>s, <2>2 DEF Call, FetchLegacyRecords
  <2>. QED
    BY <1>2, <2>1, <2>2 DEF FetchLegacyRecords
<1>3. CASE ApplyUpdates(c)
  <2>1. ~Direct(c)
    BY <1>3 DEF ApplyUpdates, At, Direct
  <2>2. CASE Goes(c, [call[c] EXCEPT !.at = "report"])
    BY <1>t, <1>k, <2>1, <2>2 DEF Call, Current
  <2>. QED
    BY <1>3, <1>r, <2>1, <2>2 DEF ApplyUpdates
<1>4. ASSUME NEW d \in Docs, NEW k \in Keys, NEW t \in Times, CheckIn(c, d, k, t) PROVE Followed'
  <2>1. docs' = [docs EXCEPT ![d] = Opened(k, t)] /\ UNCHANGED call
    BY <1>4 DEF CheckIn
  <2>2. Timed(Opened(k, t))
    BY DEF Timed, Opened
  <2>. QED
    BY <1>t, <1>d, <1>e, <2>1, <2>2 DEF Followed
<1>5. ASSUME NEW d \in Docs, FindOpen(c, d) \/ OpenCorrectionDialog(c, d) PROVE Followed'
  <2>1. PICK at \in {"checkOut", "dialog"} : Goes(c, [Idle EXCEPT !.at = at, !.doc = d, !.new = docs[d]])
    BY <1>5 DEF FindOpen, OpenCorrectionDialog
  <2>. DEFINE r == [Idle EXCEPT !.at = at, !.doc = d, !.new = docs[d]]
  <2>2. r.at = at /\ r.doc = d /\ r.new = docs[d] /\ Goes(c, r) /\ UNCHANGED docs
    BY <1>5, <2>1 DEF Idle, FindOpen, OpenCorrectionDialog
  <2>. HIDE DEF r
  <2>3. Current(r, docs')
    BY <2>2 DEF Current
  <2>. QED
    BY <1>k, <2>2, <2>3
<1>6. ASSUME NEW d \in Docs, NEW row \in Rows, ImportRow(c, d, row) PROVE Followed'
  <2>1. ~Direct(c) /\ UNCHANGED call
    BY <1>6 DEF ImportRow, At, Direct
  <2>. QED
    BY <1>d, <1>e, <2>1 DEF Followed
<1>7. ASSUME NEW t \in Times, CheckOut(c, t) PROVE Followed'
  <2>. DEFINE d == call[c].doc
  <2>1. d \in Docs /\ docs[d] \in Record /\ call[c].new \in Record
    BY <1>7, <1>t DEF CheckOut, At, Holding
  <2>2. /\ docs'[d].checkIn = docs[d].checkIn /\ docs'[d].checkOut = t
        /\ docs'[d].duration = Minutes(call[c].new.checkIn, t)
        /\ \A e \in Docs \ {d} : docs'[e] = docs[e]
    BY <1>7, <1>t, <2>1 DEF CheckOut, Closed, Record
  <2>3. Direct(c) => call[c].new.checkIn = docs[d].checkIn
    BY <1>7 DEF CheckOut, At, Direct, Followed, Current
  <2>4. Direct(c) => Timed(docs'[d])
    BY <2>2, <2>3 DEF Timed
  <2>. QED
    BY <1>7, <1>r, <2>2, <2>4 DEF CheckOut
<1>8. ASSUME NEW ci, NEW co, NEW s, SaveCorrection(c, ci, co, s) PROVE Followed'
  <2>. DEFINE n == [call[c].new EXCEPT !.checkIn = ci, !.checkOut = co, !.status = s,
                                       !.duration = RecomputeDuration(ci, co)]
              r == [call[c] EXCEPT !.at = "update", !.new = n]
  <2>1. call[c].new \in Record /\ call[c].at = "dialog" /\ Goes(c, r) /\ UNCHANGED docs
    BY <1>8, <1>t DEF SaveCorrection, At, Holding
  <2>2. /\ r.at = "update" /\ r.doc = call[c].doc /\ r.new = n
        /\ n.checkIn = ci /\ n.checkOut = co /\ n.duration = RecomputeDuration(ci, co)
    BY <1>t, <2>1 DEF Call, Record
  <2>3. /\ ci = NoTime => call[c].new.checkIn = NoTime
        /\ co = NoTime => call[c].new.checkOut = NoTime
    BY <1>8, SyncAssumption DEF SaveCorrection
  <2>. HIDE DEF n, r
  <2>4. c \notin stale' => c \notin stale
    <3>1. call'[c] = r
      BY <2>1 DEF TypeOK, Goes
    <3>. QED
      BY <2>1, <2>2, <3>1 DEF Holding
  <2>5. c \notin stale' => Current(r, docs')
    BY <2>1, <2>2, <2>3, <2>4 DEF Current, Followed
  <2>. QED
    BY <1>k, <2>1, <2>5
<1>9. CASE UpdateAttendance(c)
  <2>. DEFINE d == call[c].doc
              n == call[c].new
  <2>1. d \in Docs /\ docs[d] \in Record /\ n \in Record /\ call[c].at = "update"
    BY <1>9, <1>t DEF UpdateAttendance, At, Holding
  <2>2. docs'[d] = Corrected(docs[d], n) /\ \A e \in Docs \ {d} : docs'[e] = docs[e]
    BY <1>9, <1>t, <2>1 DEF UpdateAttendance
  <2>3. /\ docs'[d].checkIn = IF n.checkIn = NoTime THEN docs[d].checkIn ELSE n.checkIn
        /\ docs'[d].checkOut = IF n.checkOut = NoTime THEN docs[d].checkOut ELSE n.checkOut
        /\ docs'[d].duration = n.duration
    BY <2>1, <2>2 DEF Corrected, Record
  <2>4. ASSUME Direct(c) PROVE Timed(docs'[d])
    <3>1. Current(call[c], docs)
      BY <2>4 DEF Direct, Followed
    <3>. QED
      BY <2>1, <2>3, <3>1 DEF Current, Timed, RecomputeDuration
  <2>5. Goes(c, [call[c] EXCEPT !.at = "audit"])
    BY <1>9 DEF UpdateAttendance
  <2>6. Current([call[c] EXCEPT !.at = "audit"], docs')
    BY <1>t DEF Current, Call
  <2>. QED
    BY <1>k, <2>2, <2>4, <2>5, <2>6
<1>10. CASE SaveSyncReport(c) \/ GiveUp(c) \/ AddAudit(c) \/ ImportDone(c)
  BY <1>10, <1>r DEF SaveSyncReport, GiveUp, AddAudit, ImportDone
<1>11. CASE ImportAttendanceFromCSV(c)
  BY <1>11, <1>s DEF ImportAttendanceFromCSV, Idle
<1>. QED
  BY <1>1, <1>2, <1>3, <1>4, <1>5, <1>6, <1>7, <1>8, <1>9, <1>10, <1>11
     DEF CallStep, SyncStep, RecordStep

LEMMA PunchesAreTimed == \A r \in Punched : Timed(r)
<1>1. ASSUME NEW k \in Keys, NEW t \in Times PROVE Timed(Opened(k, t))
  BY SyncAssumption DEF Timed, Opened
<1>2. ASSUME NEW k \in Keys, NEW t \in Times, NEW u \in Times
      PROVE  Timed(Closed(Opened(k, t), u))
  BY SyncAssumption DEF Timed, Opened, Closed
<1>. QED
  BY <1>1, <1>2 DEF Punched

LEMMA HistoryInit == SerialInit => HistoryInv
<1>. SUFFICES ASSUME SerialInit PROVE HistoryInv
  OBVIOUS
<1>1. TypeOK
  BY TypeInit DEF SerialInit
<1>2. \A c \in Callers : call[c].at = "idle"
  BY DEF SerialInit, Init, Idle
<1>3. Mismatched(docs) = {}
  <2>1. \A d \in Docs : docs[d] # NoDoc => Timed(docs[d])
    BY PunchesAreTimed DEF SerialInit, Init
  <2>. QED
    BY <1>1, <2>1, TimedAreNotMismatched DEF TypeOK, Mismatched
<1>. QED
  BY <1>1, <1>2, <1>3 DEF HistoryInv, Undisturbed, Followed, Current, DurationFollowsTimes, SerialInit

LEMMA HistoryStep == HistoryInv /\ [SerialNext]_<<vars, history>> => HistoryInv'
<1>. SUFFICES ASSUME HistoryInv, [SerialNext]_<<vars, history>> PROVE HistoryInv'
  OBVIOUS
<1>1. CASE UNCHANGED <<vars, history>>
  BY <1>1 DEF vars, history, HistoryInv, TypeOK, Undisturbed, Followed, Current, DurationFollowsTimes,
              Mismatched, HasBothTimes
<1>2. ASSUME NEW c \in Callers, CallStep(c),
             overlapped' = (overlapped \/ \E e \in Callers \ {c} : ~At(e, "idle")),
             stale' = {e \in Callers : /\ Holding(call'[e]) /\ Holding(call[e])
                                       /\ e \in stale \/ Moved(call[e].doc)},
             reworked' = {d \in Docs : IF docs'[d] = docs[d] THEN d \in reworked ELSE ~Direct(c)}
      PROVE  HistoryInv'
  <2>1. TypeOK'
    BY <1>2, TypeStep DEF HistoryInv, Next
  <2>2. overlapped' \in BOOLEAN
    BY <1>2, Zenon
  <2>3. ASSUME ~overlapped' PROVE Undisturbed'
    BY <1>2, <2>3, UndisturbedStep DEF HistoryInv
  <2>4. Followed'
    BY <1>2, <2>1, FollowedStep DEF HistoryInv
  <2>. QED
    BY <2>1, <2>2, <2>3, <2>4 DEF HistoryInv
<1>. QED
  BY <1>1, <1>2 DEF SerialNext

\* Whatever overlaps, a duration that does not follow from its record's times
\* was pasted, left by a synchronisation, or written by a call that had read
\* other times.
THEOREM DurationsFollowTimes == SerialSpec => []DurationFollowsTimes
<1>1. HistoryInv => DurationFollowsTimes
  BY DEF HistoryInv, Followed
<1>. QED
  BY <1>1, HistoryInit, HistoryStep, PTL DEF SerialSpec

\* A batch that finds the records as they were fetched moves no check-in later
\* and no check-out earlier.
LEMMA FreshBatch ==
    ASSUME TypeOK, NEW c \in Callers, ApplyUpdates(c), call[c].seen = docs
    PROVE  /\ Inverted(docs') \subseteq Inverted(docs)
           /\ \A d \in Docs : docs[d] # NoDoc =>
                /\ docs'[d].status = docs[d].status
                /\ HasBothTimes(docs[d]) =>
                      docs'[d].checkIn <= docs[d].checkIn /\ docs'[d].checkOut >= docs[d].checkOut
<1>t. docs \in [Docs -> Entry] /\ call[c].old \in [Keys -> Entry]
  BY DEF TypeOK, Call
<1>1. ASSUME NEW d \in Docs, docs'[d] # docs[d]
      PROVE  \E l \in Record : docs[d] \in Record /\ docs'[d] = Resolve(docs[d], docs[d], l)
  <2>1. docs' = Merged(docs, docs, call[c].old)
    BY <1>1 DEF ApplyUpdates
  <2>2. /\ Compared(docs, d) /\ call[c].old[docs[d].key] # NoDoc
        /\ docs'[d] = Resolve(docs[d], docs[d], call[c].old[docs[d].key])
    BY <1>1, <2>1 DEF Merged
  <2>3. docs[d] \in Record
    BY <1>t, <2>2 DEF Compared, Entry
  <2>4. call[c].old[docs[d].key] \in Record
    BY <1>t, <2>2, <2>3 DEF Entry, Record
  <2>. QED
    BY <2>2, <2>3, <2>4
<1>2. ASSUME NEW r \in Record, NEW l \in Record
      PROVE  LET q == Resolve(r, r, l) IN
             /\ q.status = r.status
             /\ HasBothTimes(q) => HasBothTimes(r)
             /\ HasBothTimes(r) => /\ q.checkIn \in Nat /\ q.checkOut \in Nat
                                   /\ q.checkIn <= r.checkIn /\ q.checkOut >= r.checkOut
  <2>. DEFINE q == Resolve(r, r, l)
  <2>1. /\ q.checkIn = IF ResolvesIn(r, l) THEN Earlier(r.checkIn, l.checkIn) ELSE r.checkIn
        /\ q.checkOut = IF ResolvesOut(r, l) THEN Later(r.checkOut, l.checkOut) ELSE r.checkOut
        /\ q.status = r.status
    BY ResolveFields
  <2>2. r # NoDoc
    BY SyncAssumption
  <2>. HIDE DEF q
  <2>3. HasBothTimes(q) => HasBothTimes(r)
    BY <2>1, <2>2 DEF HasBothTimes, ResolvesIn, ResolvesOut
  <2>4. HasBothTimes(r) => r.checkIn \in Nat /\ r.checkOut \in Nat
    BY SyncAssumption DEF HasBothTimes, Record, MaybeTime
  <2>5. ResolvesIn(r, l) => Earlier(r.checkIn, l.checkIn) \in Nat /\ Earlier(r.checkIn, l.checkIn) <= r.checkIn
    BY ResolvedIn, SyncAssumption
  <2>6. ResolvesOut(r, l) => Later(r.checkOut, l.checkOut) \in Nat /\ Later(r.checkOut, l.checkOut) >= r.checkOut
    BY ResolvedOut, SyncAssumption
  <2>7. HasBothTimes(r) => /\ q.checkIn \in Nat /\ q.checkOut \in Nat
                           /\ q.checkIn <= r.checkIn /\ q.checkOut >= r.checkOut
    BY <2>1, <2>4, <2>5, <2>6
  <2>. QED
    BY <2>1, <2>3, <2>7 DEF q
<1>3. ASSUME NEW d \in Docs, docs[d] # NoDoc
      PROVE  /\ docs'[d].status = docs[d].status
             /\ HasBothTimes(docs'[d]) => HasBothTimes(docs[d])
             /\ HasBothTimes(docs[d]) =>
                   /\ {docs[d].checkIn, docs[d].checkOut, docs'[d].checkIn, docs'[d].checkOut} \subseteq Nat
                   /\ docs'[d].checkIn <= docs[d].checkIn /\ docs'[d].checkOut >= docs[d].checkOut
  <2>1. HasBothTimes(docs[d]) => docs[d].checkIn \in Nat /\ docs[d].checkOut \in Nat
    BY <1>t, <1>3, SyncAssumption DEF HasBothTimes, Entry, Record, MaybeTime
  <2>2. CASE docs'[d] = docs[d]
    BY <2>1, <2>2
  <2>3. CASE docs'[d] # docs[d]
    <3>1. PICK l \in Record : docs[d] \in Record /\ docs'[d] = Resolve(docs[d], docs[d], l)
      BY <1>1, <2>3
    <3>. QED
      BY <1>2, <2>1, <3>1
  <2>. QED
    BY <2>2, <2>3
<1>4. ASSUME NEW d \in Inverted(docs') PROVE d \in Inverted(docs)
  <2>1. d \in Docs /\ HasBothTimes(docs'[d]) /\ docs'[d].checkOut < docs'[d].checkIn
    BY <1>4 DEF Inverted
  <2>2. docs[d] # NoDoc
    BY <1>1, <2>1, SyncAssumption DEF HasBothTimes
  <2>3. docs[d].checkOut < docs[d].checkIn /\ HasBothTimes(docs[d])
    BY <1>3, <2>1, <2>2
  <2>. QED
    BY <2>1, <2>3 DEF Inverted
<1>. QED
  BY <1>3, <1>4

\* A synchronisation that overlaps nothing only ever widens a shift and keeps
\* every status.
THEOREM SerialSyncIsConservative == SerialSpec => SyncIsConservative
<1>. DEFINE Conservative ==
       \A c \in Callers : ApplyUpdates(c) /\ ~overlapped' =>
          /\ Inverted(docs') \subseteq Inverted(docs)
          /\ \A d \in Docs : docs[d] # NoDoc =>
                /\ docs'[d].status = docs[d].status
                /\ HasBothTimes(docs[d]) =>
                      docs'[d].checkIn <= docs[d].checkIn /\ docs'[d].checkOut >= docs[d].checkOut
<1>1. HistoryInv /\ [SerialNext]_<<vars, history>> => [Conservative]_vars
  <2>. SUFFICES ASSUME HistoryInv, SerialNext, NEW c \in Callers, ApplyUpdates(c), ~overlapped'
                PROVE  /\ Inverted(docs') \subseteq Inverted(docs)
                       /\ \A d \in Docs : docs[d] # NoDoc =>
                            /\ docs'[d].status = docs[d].status
                            /\ HasBothTimes(docs[d]) => /\ docs'[d].checkIn <= docs[d].checkIn
                                                        /\ docs'[d].checkOut >= docs[d].checkOut
    BY DEF vars
  <2>1. ~overlapped
    BY DEF SerialNext
  <2>2. call[c].seen = docs
    BY <2>1 DEF HistoryInv, Undisturbed, ApplyUpdates, At
  <2>. QED
    BY <2>2, FreshBatch DEF HistoryInv
<1>. QED
  BY <1>1, HistoryInit, HistoryStep, PTL DEF SerialSpec, SyncIsConservative

\* An audit that overlaps nothing tells what the record holds.
THEOREM SerialAuditMatches == SerialSpec => AuditMatchesRecord
<1>. DEFINE Matches ==
       \A d \in Docs : trail'[d] # trail[d] /\ ~overlapped' =>
          docs'[d] = Corrected(docs'[d], trail'[d])
<1>1. HistoryInv /\ [SerialNext]_<<vars, history>> => [Matches]_vars
  <2>. SUFFICES ASSUME HistoryInv, SerialNext, NEW d \in Docs, trail'[d] # trail[d], ~overlapped'
                PROVE  docs'[d] = Corrected(docs'[d], trail'[d])
    BY DEF vars
  <2>1. PICK c \in Callers : CallStep(c) /\ ~overlapped
    BY DEF SerialNext
  <2>2. AddAudit(c)
    BY <2>1 DEF CallStep, SyncStep, RecordStep, Rest, FetchPrimaryRecords, FetchLegacyRecords,
       ApplyUpdates, SaveSyncReport, GiveUp, CheckIn, FindOpen, OpenCorrectionDialog, ImportRow,
       CheckOut, SaveCorrection, UpdateAttendance, ImportAttendanceFromCSV, ImportDone
  <2>3. d = call[c].doc /\ trail'[d] = call[c].new /\ UNCHANGED docs
    BY <2>2 DEF AddAudit, HistoryInv, TypeOK
  <2>. QED
    BY <2>1, <2>2, <2>3 DEF HistoryInv, Undisturbed, AddAudit, At
<1>. QED
  BY <1>1, HistoryInit, HistoryStep, PTL DEF SerialSpec, AuditMatchesRecord
================================================================================

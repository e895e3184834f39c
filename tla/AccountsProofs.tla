----------------------------- MODULE AccountsProofs -----------------------------
(***************************************************************************)
(* What TLAPS proves of the staff accounts, for any documents, numbers,    *)
(* PINs and callers, whichever operations run.                             *)
(***************************************************************************)
EXTENDS MCAccounts, TLAPS

-----------------------------------------------------------------------------
(* The inductive invariant: an account a lookup is still looking for matches *)
(* it, and is spelled in a way the lookup has yet to try.                    *)

Ahead(r, d) ==
    r.id = None => \A i \in r.there :
        /\ d[i] # None /\ d[i].num = r.num /\ (r.op # "create" => d[i].active)
        /\ d[i].spelling \in ToSet(r.left)

LookupInv == WellFormed /\ \A c \in Callers : Ahead(call[c], docs)

LEMMA SpellingsLeft ==
    /\ Tail(Spellings) = <<"local">> /\ Tail(Tail(Spellings)) = <<>>
    /\ Spellings # <<>> /\ Tail(Spellings) # <<>>
    /\ Head(Spellings) = "storage" /\ Head(Tail(Spellings)) = "local"
    /\ ToSet(Spellings) = {"storage", "local"}
    /\ ToSet(Tail(Spellings)) = {"local"}
    /\ ToSet(<<>>) = {}
<1>1. Tail(Spellings) = <<"local">>
  BY DEF Spellings
<1>2. Tail(Tail(Spellings)) = <<>>
  BY <1>1
<1>3. ToSet(Spellings) = {"storage", "local"}
  BY DEF ToSet, Spellings
<1>4. ToSet(<<"local">>) = {"local"}
  BY DEF ToSet
<1>5. ToSet(<<>>) = {}
  BY DEF ToSet
<1>. QED
  BY <1>1, <1>2, <1>3, <1>4, <1>5 DEF Spellings

LEMMA HashedIsStored ==
    /\ \A p \in Pins : Hash(Plain(p)) \in StoredPin /\ Plain(p) \in StoredPin
    /\ \A s \in StoredPin : s.hashes < MaxHashes => Hash(s) \in StoredPin
BY AccountsAssumption DEF Hash, Plain, StoredPin

LEMMA IdleIsACall == Idle \in Call /\ Holds(Idle) /\ Idle.op = "idle" /\ \A d : Ahead(Idle, d)
BY AccountsAssumption DEF Idle, Call, Holds, Ahead

LEMMA NewDocIsADoc ==
    \A n \in Numbers, role \in Roles :
        /\ \A p \in Pins : NewDoc(n, p, role) \in Doc
        /\ \A how \in AsStored : Typed(n, how, role) \in Doc
BY HashedIsStored, SpellingsLeft DEF NewDoc, Typed, Doc, AsStored

\* A call goes on without a write.
LEMMA GoesKeeps ==
    ASSUME LookupInv, NEW c \in Callers, NEW r \in Call, Holds(r), Ahead(r, docs), Goes(c, r)
    PROVE  LookupInv'
<1>1. docs' = docs /\ call' \in [Callers -> Call]
  BY DEF LookupInv, WellFormed, Goes
<1>2. \A e \in Callers : call'[e] = IF e = c THEN r ELSE call[e]
  BY DEF LookupInv, WellFormed, Goes
<1>3. \A e \in Callers : Holds(call'[e]) /\ Ahead(call'[e], docs)
  BY <1>2 DEF LookupInv, WellFormed
<1>. QED
  BY <1>1, <1>3 DEF LookupInv, WellFormed, Holds, Ahead

\* A call writes one document: the other lookups drop it unless it is settled.
LEMMA PutKeeps ==
    ASSUME LookupInv, NEW c \in Callers, NEW i \in Ids, NEW doc \in Doc \cup {None},
           NEW r \in Call, Holds(r), r = Idle \/ r.id # None, Put(c, i, doc, r)
    PROVE  LookupInv'
<1>. DEFINE d == [docs EXCEPT ![i] = doc]
<1>1. docs' = d /\ d \in [Ids -> Doc \cup {None}]
  BY DEF LookupInv, WellFormed, Put, Write
<1>2. \A e \in Callers : call'[e] = IF e = c THEN r
         ELSE [call[e] EXCEPT !.there = {j \in @ : Settled(d, j)}]
  BY DEF Put, Write
<1>3. ASSUME NEW e \in Callers, e # c
      PROVE  call'[e] \in Call /\ Holds(call'[e]) /\ Ahead(call'[e], d)
  <2>. DEFINE k == call[e]
              l == [k EXCEPT !.there = {j \in @ : Settled(d, j)}]
  <2>1. k \in Call /\ Holds(k) /\ Ahead(k, docs)
    BY DEF LookupInv, WellFormed
  <2>2. l \in Call /\ l.op = k.op /\ l.left = k.left /\ l.num = k.num /\ l.new = k.new
          /\ l.id = k.id /\ l.seen = k.seen /\ l.there = {j \in k.there : Settled(d, j)}
    BY <2>1 DEF Call
  <2>3. Holds(l)
    <3>1. k.op = "idle" => l = k
      <4>1. ASSUME k.op = "idle" PROVE l = k
        <5>1. k.there = {}
          BY <2>1, <4>1 DEF Holds, Idle
        <5>2. {j \in k.there : Settled(d, j)} = k.there
          BY <5>1
        <5>. QED
          BY <2>1, <5>2 DEF Call
      <4>. QED
        BY <4>1
    <3>. QED
      BY <2>1, <2>2, <3>1 DEF Holds
  <2>4. Ahead(l, d)
    BY <2>1, <2>2 DEF Ahead, Settled
  <2>. QED
    BY <1>2, <1>3, <2>2, <2>3, <2>4
<1>4. call'[c] = r /\ Ahead(r, d)
  BY <1>2, IdleIsACall DEF Ahead
<1>5. call' \in [Callers -> Call] /\ \A e \in Callers : Holds(call'[e]) /\ Ahead(call'[e], d)
  <2>1. call' = [e \in Callers |-> call'[e]]
    BY DEF Put, Write
  <2>. QED
    BY <1>3, <1>4, <2>1
<1>. HIDE DEF d
<1>. QED
  BY <1>1, <1>5 DEF LookupInv, WellFormed, Holds, Ahead

-----------------------------------------------------------------------------
(* Queries *)

LEMMA StartsKeeps ==
    ASSUME LookupInv, NEW c \in Callers, NEW op \in {"create", "change", "signIn"},
           NEW n \in Numbers, NEW p \in Pins \cup {None}, NEW q \in Pins, Starts(c, op, n, p, q)
    PROVE  LookupInv'
<1>. DEFINE r == [Idle EXCEPT !.op = op, !.left = Spellings, !.num = n, !.pin = p, !.new = q,
                              !.there = {i \in Ids : Matches(i, op, n)
                                                  /\ docs[i].spelling \in ToSet(Spellings)}]
<1>1. r \in Call /\ r.op = op /\ r.num = n /\ r.new = q /\ r.left = Spellings /\ r.id = None
        /\ r.there = {i \in Ids : Matches(i, op, n) /\ docs[i].spelling \in ToSet(Spellings)}
  BY IdleIsACall DEF Call, Idle
<1>2. Holds(r)
  BY <1>1 DEF Holds
<1>3. Ahead(r, docs)
  BY <1>1 DEF Ahead, Matches
<1>4. Goes(c, r)
  BY DEF Starts
<1>. HIDE DEF r
<1>. QED
  BY <1>1, <1>2, <1>3, <1>4, GoesKeeps

LEMMA ReadsKeeps ==
    ASSUME LookupInv, NEW c \in Callers, NEW op \in {"reset", "default"},
           NEW i \in Ids, NEW p \in Pins, Reads(c, op, i, p)
    PROVE  LookupInv'
<1>. DEFINE r == [Idle EXCEPT !.op = op, !.id = i, !.new = p]
<1>2. r \in Call /\ r.op = op /\ r.id = i /\ r.new = p
  BY IdleIsACall DEF Call, Idle
<1>3. Holds(r) /\ Ahead(r, docs)
  BY <1>2, AccountsAssumption DEF Holds, Ahead
<1>4. Goes(c, r)
  BY DEF Reads
<1>. HIDE DEF r
<1>. QED
  BY <1>2, <1>3, <1>4, GoesKeeps

LEMMA OpenKeeps ==
    ASSUME LookupInv, NEW c \in Callers, OpenEditor(c)
    PROVE  LookupInv'
<1>0. PICK i \in Present : Goes(c, [Idle EXCEPT !.op = "editor", !.id = i, !.seen = docs[i],
                                              !.on = docs[i].active])
  BY DEF OpenEditor
<1>. DEFINE r == [Idle EXCEPT !.op = "editor", !.id = i, !.seen = docs[i], !.on = docs[i].active]
<1>1. i \in Ids /\ docs[i] \in Doc /\ docs[i].active \in BOOLEAN
  BY DEF LookupInv, WellFormed, Present, Doc
<1>2. r \in Call /\ r.op = "editor" /\ r.id = i /\ r.seen = docs[i]
  BY <1>1, IdleIsACall DEF Call, Idle
<1>3. Holds(r) /\ Ahead(r, docs)
  BY <1>1, <1>2, AccountsAssumption DEF Holds, Ahead
<1>4. Goes(c, r)
  BY <1>0
<1>. HIDE DEF r
<1>. QED
  BY <1>2, <1>3, <1>4, GoesKeeps

LEMMA LookUpKeeps ==
    ASSUME LookupInv, NEW c \in Callers, LookUp(c)
    PROVE  LookupInv'
<1>. DEFINE k == call[c]
            hits == {i \in Ids : Matches(i, k.op, k.num) /\ docs[i].spelling = Head(k.left)}
<1>1. k \in Call /\ Holds(k) /\ Ahead(k, docs) /\ k.left # <<>>
  BY DEF LookupInv, WellFormed, LookUp
<1>2. k.left = Spellings \/ k.left = Tail(Spellings)
  BY <1>1 DEF Call
<1>3. k.op # "idle"
  BY <1>1 DEF Holds, Idle
<1>4. ASSUME NEW i \in hits, Goes(c, Found(k, i)) PROVE LookupInv'
  <2>. DEFINE r == [k EXCEPT !.left = <<>>, !.id = i]
  <2>1. r.seen = k.seen
    BY <1>1 DEF Call
  <2>2. r \in Call /\ r.op = k.op /\ r.num = k.num /\ r.new = k.new /\ r.id = i
    BY <1>1 DEF Call
  <2>3. Holds(r) /\ Ahead(r, docs)
    BY <1>1, <1>3, <2>1, <2>2, AccountsAssumption DEF Holds, Ahead
  <2>4. Found(k, i) = Idle \/ Found(k, i) = r
    BY DEF Found
  <2>. HIDE DEF r, k
  <2>. QED
    BY <1>4, <2>2, <2>3, <2>4, IdleIsACall, GoesKeeps
<1>5. ASSUME hits = {}, Goes(c, [k EXCEPT !.left = Tail(@)]) PROVE LookupInv'
  <2>. DEFINE r == [k EXCEPT !.left = Tail(@)]
  <2>1. Tail(k.left) \in {Tail(Spellings), <<>>}
    BY <1>2, SpellingsLeft
  <2>2. r \in Call /\ r.op = k.op /\ r.num = k.num /\ r.new = k.new /\ r.id = k.id
          /\ r.seen = k.seen /\ r.left = Tail(k.left) /\ r.there = k.there
    BY <1>1, <2>1 DEF Call
  <2>3. Holds(r)
    BY <1>1, <1>3, <2>2 DEF Holds
  <2>4. Ahead(r, docs)
    <3>1. SUFFICES ASSUME k.id = None, NEW i \in k.there
                   PROVE  docs[i].spelling \in ToSet(Tail(k.left))
      BY <1>1, <2>2 DEF Ahead
    <3>2. docs[i].spelling \in ToSet(k.left) /\ Matches(i, k.op, k.num) /\ i \in Ids
      BY <1>1, <3>1 DEF Ahead, Matches, Call
    <3>3. docs[i].spelling # Head(k.left)
      BY <1>5, <3>2
    <3>. QED
      BY <1>2, <3>2, <3>3, SpellingsLeft
  <2>5. Goes(c, r)
    BY <1>5
  <2>. HIDE DEF r
  <2>. QED
    BY <2>2, <2>3, <2>4, <2>5, GoesKeeps
<1>6. ASSUME Goes(c, Idle) PROVE LookupInv'
  BY <1>6, IdleIsACall, GoesKeeps
<1>. QED
  BY <1>4, <1>5, <1>6 DEF LookUp

-----------------------------------------------------------------------------
(* auth_service.dart and staff_migration_service.dart *)

LEMMA SetupKeeps ==
    ASSUME LookupInv, NEW c \in Callers, CheckNoAdmin(c)
    PROVE  LookupInv'
<1>1. PICK n \in Numbers, p \in Pins : Goes(c, [Idle EXCEPT !.op = "setup", !.num = n, !.new = p])
  BY DEF CheckNoAdmin
<1>. DEFINE r == [Idle EXCEPT !.op = "setup", !.num = n, !.new = p]
<1>2. r \in Call /\ Holds(r) /\ Ahead(r, docs)
  BY IdleIsACall DEF Call, Idle, Holds, Ahead
<1>. QED
  BY <1>1, <1>2, GoesKeeps

LEMMA AddsKeep ==
    ASSUME LookupInv, NEW c \in Callers, SetInitialAdmin(c) \/ AddAccount(c) \/ AddStaff(c)
    PROVE  LookupInv'
<1>1. Fresh \subseteq Ids /\ "admin" \in Roles
  BY DEF Fresh, Roles
<1>2. Holds(call[c])
  BY DEF LookupInv, WellFormed
<1>3. \E i \in Ids, n \in Numbers, role \in Roles :
         \/ \E p \in Pins : Put(c, i, NewDoc(n, p, role), Idle)
         \/ \E how \in AsStored : Put(c, i, Typed(n, how, role), Idle)
  BY <1>1, <1>2 DEF SetInitialAdmin, AddAccount, AddStaff, Holds
<1>. QED
  BY <1>3, NewDocIsADoc, IdleIsACall, PutKeeps

LEMMA WritePinKeeps ==
    ASSUME LookupInv, NEW c \in Callers, WritePin(c)
    PROVE  LookupInv'
<1>. DEFINE i == call[c].id
            doc == [docs[i] EXCEPT !.pin = Hash(Plain(call[c].new)),
                       !.num      = IF call[c].op = "create" THEN call[c].num ELSE @,
                       !.spelling = IF call[c].op = "create" THEN "storage" ELSE @]
<1>1. i \in Ids /\ call[c].new \in Pins /\ (call[c].op = "create" => call[c].num \in Numbers)
  BY DEF LookupInv, WellFormed, WritePin, PinWriteDue, Call, Holds
<1>2. CASE docs[i] = None
  BY <1>2, IdleIsACall, GoesKeeps DEF WritePin
<1>3. CASE docs[i] # None
  <2>1. docs[i] \in Doc
    BY <1>1, <1>3 DEF LookupInv, WellFormed
  <2>2. doc \in Doc
    BY <1>1, <2>1, HashedIsStored, SpellingsLeft DEF Doc, AsStored
  <2>3. Put(c, i, doc, Idle)
    BY <1>3 DEF WritePin
  <2>. HIDE DEF doc, i
  <2>. QED
    BY <1>1, <2>2, <2>3, IdleIsACall, PutKeeps
<1>. QED
  BY <1>2, <1>3

-----------------------------------------------------------------------------
(* staff_service.dart and its screens *)

LEMMA UpdateStaffKeeps ==
    ASSUME LookupInv, NEW c \in Callers, call[c].op = "editor", NEW staff \in Doc,
           NEW r \in Call, Holds(r), r = Idle \/ r.id # None, UpdateStaff(c, staff, r)
    PROVE  LookupInv'
<1>. DEFINE i == call[c].id
            doc == [staff EXCEPT !.pin = IF @ = None THEN docs[i].pin ELSE Hash(@)]
<1>1. i \in Ids
  BY DEF LookupInv, WellFormed, Holds
<1>2. CASE docs[i] = None
  <2>1. Ahead(r, docs)
    BY IdleIsACall DEF Ahead
  <2>. QED
    BY <1>2, <2>1, GoesKeeps DEF UpdateStaff
<1>3. CASE docs[i] # None
  <2>1. docs[i] \in Doc
    BY <1>1, <1>3 DEF LookupInv, WellFormed
  <2>2. (staff.pin # None => staff.pin.hashes < MaxHashes) /\ Put(c, i, doc, r)
    BY <1>3 DEF UpdateStaff
  <2>3. doc \in Doc
    BY <2>1, <2>2, HashedIsStored DEF Doc
  <2>. HIDE DEF doc, i
  <2>. QED
    BY <1>1, <2>2, <2>3, PutKeeps
<1>. QED
  BY <1>2, <1>3

LEMMA FlipSwitchKeeps ==
    ASSUME LookupInv, NEW c \in Callers, FlipSwitch(c)
    PROVE  LookupInv'
<1>. DEFINE k == call[c]
            r == [k EXCEPT !.on = ~@]
<1>1. k \in Call /\ k.op = "editor" /\ k.id \in Ids /\ k.seen \in Doc
  BY AccountsAssumption DEF LookupInv, WellFormed, FlipSwitch, Holds, Call
<1>2. r \in Call /\ r.op = k.op /\ r.id = k.id /\ r.seen = k.seen
  BY <1>1 DEF Call
<1>3. Holds(r) /\ Ahead(r, docs)
  BY <1>1, <1>2, AccountsAssumption DEF Holds, Ahead
<1>4. Goes(c, r)
  BY DEF FlipSwitch
<1>. HIDE DEF r
<1>. QED
  BY <1>2, <1>3, <1>4, GoesKeeps

LEMMA EditorKeeps ==
    ASSUME LookupInv, NEW c \in Callers, SaveForm(c) \/ ToggleActive(c) \/ SaveProfile(c)
    PROVE  LookupInv'
<1>. DEFINE k == call[c]
<1>1. k \in Call /\ k.op = "editor" /\ k.id \in Ids /\ k.seen \in Doc /\ k.on \in BOOLEAN
  BY AccountsAssumption DEF LookupInv, WellFormed, SaveForm, ToggleActive, SaveProfile, Holds, Call
<1>2. "storage" \in AsStored
  BY SpellingsLeft DEF AsStored
<1>3. CASE SaveForm(c)
  <2>1. PICK n \in Numbers, role \in Roles, p \in {None} \cup {Plain(q) : q \in Pins} :
          UpdateStaff(c, [k.seen EXCEPT !.num = n, !.spelling = "storage", !.role = role,
                                        !.active = k.on, !.pin = p], Idle)
    BY <1>3 DEF SaveForm
  <2>2. p \in StoredPin \cup {None}
    BY HashedIsStored
  <2>3. [k.seen EXCEPT !.num = n, !.spelling = "storage", !.role = role,
                       !.active = k.on, !.pin = p] \in Doc
    BY <1>1, <1>2, <2>2 DEF Doc
  <2>. QED
    BY <1>1, <2>1, <2>3, IdleIsACall, UpdateStaffKeeps
<1>4. CASE ToggleActive(c)
  <2>. DEFINE r == [k EXCEPT !.on = ~@]
  <2>1. r \in Call /\ Holds(r) /\ r.id # None
    <3>1. r \in Call /\ r.op = "editor" /\ r.id = k.id /\ r.seen = k.seen
      BY <1>1 DEF Call
    <3>. QED
      BY <1>1, <3>1, AccountsAssumption DEF Holds
  <2>2. [k.seen EXCEPT !.active = ~k.on] \in Doc
    BY <1>1 DEF Doc
  <2>3. UpdateStaff(c, [k.seen EXCEPT !.active = ~k.on], r)
    BY <1>4 DEF ToggleActive
  <2>. HIDE DEF r
  <2>. QED
    BY <1>1, <2>1, <2>2, <2>3, UpdateStaffKeeps
<1>5. CASE SaveProfile(c)
  <2>1. PICK n \in Numbers :
          UpdateStaff(c, [k.seen EXCEPT !.num = n, !.spelling = "storage"], Idle)
    BY <1>5 DEF SaveProfile
  <2>2. [k.seen EXCEPT !.num = n, !.spelling = "storage"] \in Doc
    BY <1>1, <1>2 DEF Doc
  <2>. QED
    BY <1>1, <2>1, <2>2, IdleIsACall, UpdateStaffKeeps
<1>. QED
  BY <1>3, <1>4, <1>5

-----------------------------------------------------------------------------

LEMMA LookupInit == Init => LookupInv
<1>1. Legacy \subseteq Doc
  BY HashedIsStored DEF Legacy, Doc, Roles
<1>. QED
  BY <1>1, IdleIsACall DEF Init, LookupInv, WellFormed

LEMMA LookupStep == LookupInv /\ [Next]_vars => LookupInv'
<1>. SUFFICES ASSUME LookupInv, [Next]_vars PROVE LookupInv'
  OBVIOUS
<1>1. CASE UNCHANGED vars
  BY <1>1 DEF vars, LookupInv, WellFormed, Holds, Ahead
<1>2. ASSUME NEW c \in Callers, AuthStep(c) PROVE LookupInv'
  <2>1. CASE LookUp(c)
    BY <2>1, LookUpKeeps
  <2>2. CASE CheckNoAdmin(c)
    BY <2>2, SetupKeeps
  <2>3. CASE SetInitialAdmin(c) \/ AddAccount(c)
    BY <2>3, AddsKeep
  <2>4. CASE CreateStaffAccount(c)
    BY <2>4, StartsKeeps DEF CreateStaffAccount
  <2>5. CASE ChangeStaffPin(c)
    BY <2>5, StartsKeeps DEF ChangeStaffPin
  <2>6. CASE SignInStaffWithPin(c)
    BY <2>6, StartsKeeps DEF SignInStaffWithPin
  <2>7. CASE SetStaffPin(c)
    BY <2>7, ReadsKeeps DEF SetStaffPin
  <2>8. CASE WritePin(c)
    BY <2>8, WritePinKeeps
  <2>. QED
    BY <1>2, <2>1, <2>2, <2>3, <2>4, <2>5, <2>6, <2>7, <2>8 DEF AuthStep
<1>3. ASSUME NEW c \in Callers, StaffStep(c) \/ CopyStep(c) PROVE LookupInv'
  <2>1. CASE AddStaff(c)
    BY <2>1, AddsKeep
  <2>2. CASE DeleteStaff(c)
    BY <2>2, IdleIsACall, PutKeeps DEF DeleteStaff, Present
  <2>3. CASE OpenEditor(c)
    BY <2>3, OpenKeeps
  <2>4. CASE SaveForm(c) \/ ToggleActive(c) \/ SaveProfile(c)
    BY <2>4, EditorKeeps
  <2>5. CASE GiveUp(c)
    BY <2>5, IdleIsACall, GoesKeeps DEF GiveUp
  <2>6. CASE FlipSwitch(c)
    BY <2>6, FlipSwitchKeeps
  <2>. QED
    BY <1>3, <2>1, <2>2, <2>3, <2>4, <2>5, <2>6 DEF StaffStep, CopyStep
<1>. QED
  BY <1>1, <1>2, <1>3 DEF Next, CallStep

LEMMA LookupInvHolds == Spec => []LookupInv
BY LookupInit, LookupStep, PTL DEF Spec

\* Documents and calls stay well formed, and a call that may have to write
\* holds what it writes.
THEOREM TypeCorrect == Spec => []TypeOK
<1>1. Init => copied \subseteq Ids
  BY DEF Init
<1>2. LookupInv /\ copied \subseteq Ids /\ [Next]_vars => (copied \subseteq Ids)'
  <2>. SUFFICES ASSUME LookupInv, copied \subseteq Ids, NEW c \in Callers, CopyStep(c)
                PROVE  copied' \subseteq Ids
    BY DEF Next, CallStep, vars
  <2>1. call[c].id \in Ids
    BY AccountsAssumption DEF CopyStep, ToggleActive, SaveProfile, LookupInv, WellFormed, Holds
  <2>. QED
    BY <2>1 DEF CopyStep
<1>3. LookupInv /\ copied \subseteq Ids => TypeOK
  BY DEF LookupInv, TypeOK
<1>. QED
  BY <1>1, <1>2, <1>3, LookupInvHolds, PTL DEF Spec

\* A lookup by phone number (auth_service.dart, _queryStaffByPhone) misses only
\* accounts that were written while it ran, or stored in a spelling it never
\* asks for.
THEOREM LookupsMissOnlyWhatMoves == Spec => []NeverMissesSettled
<1>1. LookupInv => NeverMissesSettled
  BY DEF LookupInv, Ahead, NeverMissesSettled
<1>. QED
  BY <1>1, LookupInvHolds, PTL

-----------------------------------------------------------------------------
(* PINs: nobody hashes what is stored, except where a copy of a staff object *)
(* is written back.                                                          *)

LEMMA PutKeepsPins ==
    ASSUME LookupInv, PinsCanBeTyped, NEW c \in Callers, NEW i \in Ids,
           NEW doc \in Doc \cup {None}, NEW r, Put(c, i, doc, r), copied \subseteq copied',
           i \in copied' \/ (doc # None /\ doc.pin # None => doc.pin.hashes <= 1)
    PROVE  PinsCanBeTyped'
<1>1. \A j \in Ids : docs'[j] = IF j = i THEN doc ELSE docs[j]
  BY DEF Put, Write, LookupInv, WellFormed
<1>. QED
  BY <1>1 DEF PinsCanBeTyped, Present

\* Away from profile saves and activity toggles, which write back a copy of
\* the staff object, every stored PIN is a typed one, hashed at most once: all
\* of auth_service.dart and setStaffPin hash only what was typed.
THEOREM PinsStayTypeable == Spec => []PinsCanBeTyped
<1>1. Init => PinsCanBeTyped
  <2>. SUFFICES ASSUME Init, NEW i \in Ids, docs[i] # None, docs[i].pin # None
                PROVE  docs[i].pin.hashes <= 1
    BY DEF PinsCanBeTyped, Present
  <2>1. docs[i] \in Legacy
    BY DEF Init
  <2>2. PICK p \in Pins : docs[i].pin = Plain(p)
    BY <2>1 DEF Legacy
  <2>. QED
    BY <2>2 DEF Plain
<1>2. LookupInv /\ PinsCanBeTyped /\ [Next]_vars => PinsCanBeTyped'
  <2>. SUFFICES ASSUME LookupInv, PinsCanBeTyped, [Next]_vars PROVE PinsCanBeTyped'
    OBVIOUS
  <2>0. copied \subseteq copied'
    BY DEF Next, CallStep, CopyStep, vars
  <2>1. CASE docs' = docs
    BY <2>0, <2>1 DEF PinsCanBeTyped, Present
  <2>2. ASSUME NEW c \in Callers, SetInitialAdmin(c) \/ AddAccount(c) \/ AddStaff(c)
        PROVE  PinsCanBeTyped'
    <3>1. Fresh \subseteq Ids /\ "admin" \in Roles /\ Holds(call[c])
      BY DEF Fresh, Roles, LookupInv, WellFormed
    <3>2. PICK i \in Ids, n \in Numbers, role \in Roles :
            \/ \E p \in Pins : Put(c, i, NewDoc(n, p, role), Idle)
            \/ \E how \in AsStored : Put(c, i, Typed(n, how, role), Idle)
      BY <2>2, <3>1 DEF SetInitialAdmin, AddAccount, AddStaff, Holds
    <3>3. ASSUME NEW p \in Pins
          PROVE  NewDoc(n, p, role) \in Doc /\ NewDoc(n, p, role).pin.hashes <= 1
      BY NewDocIsADoc DEF NewDoc, Hash, Plain
    <3>4. \A how \in AsStored : Typed(n, how, role) \in Doc /\ Typed(n, how, role).pin = None
      BY NewDocIsADoc DEF Typed
    <3>. QED
      BY <2>0, <3>2, <3>3, <3>4, PutKeepsPins
  <2>3. ASSUME NEW c \in Callers, WritePin(c) PROVE PinsCanBeTyped'
    <3>. DEFINE i == call[c].id
                doc == [docs[i] EXCEPT !.pin = Hash(Plain(call[c].new)),
                           !.num      = IF call[c].op = "create" THEN call[c].num ELSE @,
                           !.spelling = IF call[c].op = "create" THEN "storage" ELSE @]
    <3>1. i \in Ids /\ call[c].new \in Pins /\ (call[c].op = "create" => call[c].num \in Numbers)
      BY <2>3 DEF LookupInv, WellFormed, WritePin, PinWriteDue, Call, Holds
    <3>2. CASE docs[i] = None
      BY <2>3, <2>1, <3>2 DEF WritePin, Goes
    <3>3. CASE docs[i] # None
      <4>1. docs[i] \in Doc
        BY <3>1, <3>3 DEF LookupInv, WellFormed
      <4>2. doc \in Doc /\ doc.pin = Hash(Plain(call[c].new))
        BY <3>1, <4>1, HashedIsStored, SpellingsLeft DEF Doc, AsStored
      <4>3. doc.pin.hashes <= 1
        BY <4>2 DEF Hash, Plain
      <4>4. Put(c, i, doc, Idle)
        BY <2>3, <3>3 DEF WritePin
      <4>. HIDE DEF doc, i
      <4>. QED
        BY <2>0, <3>1, <4>2, <4>3, <4>4, PutKeepsPins
    <3>. QED
      BY <3>2, <3>3
  <2>4. ASSUME NEW c \in Callers, SaveForm(c) PROVE PinsCanBeTyped'
    <3>. DEFINE k == call[c]
                i == call[c].id
    <3>1. k \in Call /\ i \in Ids /\ k.seen \in Doc /\ k.on \in BOOLEAN
      BY <2>4, AccountsAssumption DEF LookupInv, WellFormed, SaveForm, Holds, Call
    <3>2. PICK n \in Numbers, role \in Roles, p \in {None} \cup {Plain(q) : q \in Pins} :
            UpdateStaff(c, [k.seen EXCEPT !.num = n, !.spelling = "storage", !.role = role,
                                          !.active = k.on, !.pin = p], Idle)
      BY <2>4 DEF SaveForm
    <3>. DEFINE staff == [k.seen EXCEPT !.num = n, !.spelling = "storage", !.role = role,
                                        !.active = k.on, !.pin = p]
                doc == [staff EXCEPT !.pin = IF @ = None THEN docs[i].pin ELSE Hash(@)]
    <3>3. p = None \/ \E q \in Pins : p = Plain(q)
      OBVIOUS
    <3>4. staff \in Doc /\ staff.pin = p
      <4>1. p \in StoredPin \cup {None} /\ "storage" \in AsStored
        BY HashedIsStored, SpellingsLeft DEF AsStored
      <4>. QED
        BY <3>1, <4>1 DEF Doc
    <3>5. CASE docs[i] = None
      BY <2>1, <3>2, <3>5 DEF UpdateStaff, Goes
    <3>6. CASE docs[i] # None
      <4>1. docs[i] \in Doc /\ (i \in copied \/ (docs[i].pin # None => docs[i].pin.hashes <= 1))
        BY <3>1, <3>6 DEF LookupInv, WellFormed, PinsCanBeTyped, Present
      <4>2. doc \in Doc /\ doc.pin = IF p = None THEN docs[i].pin ELSE Hash(p)
        BY <3>3, <3>4, <4>1, HashedIsStored DEF Doc
      <4>3. i \in copied \/ (doc.pin # None => doc.pin.hashes <= 1)
        BY <3>3, <4>1, <4>2 DEF Hash, Plain
      <4>4. Put(c, i, doc, Idle)
        BY <3>2, <3>6 DEF UpdateStaff
      <4>. HIDE DEF doc, i
      <4>. QED
        BY <2>0, <3>1, <4>2, <4>3, <4>4, PutKeepsPins
    <3>. QED
      BY <3>5, <3>6
  <2>5. ASSUME NEW c \in Callers, DeleteStaff(c) PROVE PinsCanBeTyped'
    BY <2>0, <2>5, PutKeepsPins DEF DeleteStaff, Present
  <2>6. ASSUME NEW c \in Callers, CopyStep(c) PROVE PinsCanBeTyped'
    <3>1. call[c].id \in copied'
      BY <2>6 DEF CopyStep
    <3>2. \A j \in Ids : j # call[c].id => docs'[j] = docs[j]
      BY <2>6 DEF CopyStep, ToggleActive, SaveProfile, UpdateStaff, Put, Write, Goes, LookupInv,
                  WellFormed
    <3>. QED
      BY <2>0, <3>1, <3>2 DEF PinsCanBeTyped, Present
  <2>7. ASSUME NEW c \in Callers,
               LookUp(c) \/ CheckNoAdmin(c) \/ CreateStaffAccount(c) \/ ChangeStaffPin(c)
                 \/ SignInStaffWithPin(c) \/ SetStaffPin(c) \/ OpenEditor(c) \/ FlipSwitch(c) \/ GiveUp(c)
        PROVE  docs' = docs
    BY <2>7 DEF LookUp, CheckNoAdmin, CreateStaffAccount, ChangeStaffPin, SignInStaffWithPin,
                SetStaffPin, OpenEditor, FlipSwitch, GiveUp, Starts, Reads, Goes
  <2>. QED
    BY <2>1, <2>2, <2>3, <2>4, <2>5, <2>6, <2>7
       DEF Next, CallStep, AuthStep, StaffStep, vars
<1>. QED
  BY <1>1, <1>2, LookupInvHolds, PTL DEF Spec

-----------------------------------------------------------------------------
(* Calls that do not overlap: a lookup has yet to try the spelling of every  *)
(* account with its number, and a sign-in migrates the PIN it found.         *)

Undisturbed(r, d) ==
    /\ r.op = "create" /\ r.id = None =>
         \A i \in Ids : d[i] # None /\ d[i].num = r.num /\ d[i].spelling \in ToSet(Spellings)
                           => d[i].spelling \in ToSet(r.left)
    /\ r.op = "signIn" =>
         r.pin = r.new /\ (r.id # None => d[r.id].pin = Plain(r.new))

SerialInv ==
    /\ overlapped \in BOOLEAN
    /\ ~overlapped => \A c \in Callers : Undisturbed(call[c], docs)

LEMMA SerialStep ==
    ASSUME LookupInv, NEW c \in Callers, CallStep(c), Undisturbed(call[c], docs),
           \A e \in Callers \ {c} : call[e] = Idle
    PROVE  \A e \in Callers : Undisturbed(call'[e], docs')
<1>. DEFINE k == call[c]
            Done == \A e \in Callers : Undisturbed(call'[e], docs')
<1>t. call \in [Callers -> Call] /\ docs \in [Ids -> Doc \cup {None}] /\ k \in Call
  BY DEF LookupInv, WellFormed
<1>o. Idle.op = "idle" /\ Idle.id = None /\ \A r, d : r.op \notin {"create", "signIn"} => Undisturbed(r, d)
  BY DEF Idle, Undisturbed
<1>g. ASSUME NEW r, Goes(c, r), Undisturbed(r, docs) PROVE Done
  <2>1. docs' = docs /\ call'[c] = r /\ \A e \in Callers \ {c} : call'[e] = Idle
    BY <1>t, <1>g DEF Goes
  <2>. QED
    BY <1>o, <1>g, <2>1
<1>w. ASSUME NEW d, NEW r, Write(c, d, r), r.op \notin {"create", "signIn"} PROVE Done
  <2>0. call' = [e \in Callers |->
                   IF e = c THEN r ELSE [call[e] EXCEPT !.there = {i \in @ : Settled(d, i)}]]
    BY <1>w DEF Write
  <2>1. call'[c] = r /\ docs' = d
    BY <1>w, <2>0 DEF Write
  <2>2. ASSUME NEW e \in Callers \ {c} PROVE call'[e].op = "idle"
    <3>. DEFINE T == {i \in call[e].there : Settled(d, i)}
    <3>1. call'[e] = [call[e] EXCEPT !.there = T]
      BY <2>0
    <3>. HIDE DEF T
    <3>2. call'[e] = [Idle EXCEPT !.there = T]
      BY <3>1
    <3>. QED
      BY <3>2 DEF Idle
  <2>. QED
    BY <1>o, <1>w, <2>1, <2>2
<1>p. ASSUME NEW i, NEW doc, NEW r, Put(c, i, doc, r), r.op \notin {"create", "signIn"} PROVE Done
  BY <1>p, <1>w DEF Put
<1>s. ASSUME NEW op, NEW n, NEW p, NEW q, Starts(c, op, n, p, q), op = "signIn" => p = q PROVE Done
  <2>. DEFINE r == [Idle EXCEPT !.op = op, !.left = Spellings, !.num = n, !.pin = p, !.new = q,
                                !.there = {i \in Ids : Matches(i, op, n)
                                                  /\ docs[i].spelling \in ToSet(Spellings)}]
  <2>1. r.op = op /\ r.left = Spellings /\ r.pin = p /\ r.new = q /\ r.id = None
    BY DEF Idle
  <2>2. Goes(c, r)
    BY <1>s DEF Starts
  <2>. HIDE DEF r
  <2>3. Undisturbed(r, docs)
    BY <1>s, <2>1 DEF Undisturbed
  <2>. QED
    BY <1>g, <2>2, <2>3
<1>r. ASSUME NEW op \in {"reset", "default"}, NEW i, NEW p, Reads(c, op, i, p) PROVE Done
  <2>. DEFINE r == [Idle EXCEPT !.op = op, !.id = i, !.new = p]
  <2>1. r.op = op
    BY DEF Idle
  <2>2. Goes(c, r)
    BY <1>r DEF Reads
  <2>. HIDE DEF r
  <2>. QED
    BY <1>g, <1>o, <2>1, <2>2
<1>u. ASSUME NEW staff, NEW r, UpdateStaff(c, staff, r), r.op \notin {"create", "signIn"} PROVE Done
  <2>1. CASE Goes(c, r)
    BY <1>u, <1>g, <1>o, <2>1
  <2>. QED
    BY <1>u, <1>p, <2>1 DEF UpdateStaff
<1>i. Goes(c, Idle) => Done
  BY <1>g, <1>o
<1>1. CASE LookUp(c)
  <2>. DEFINE hits == {i \in Ids : Matches(i, k.op, k.num) /\ docs[i].spelling = Head(k.left)}
  <2>0. k.left = Spellings \/ k.left = Tail(Spellings)
    BY <1>1, <1>t DEF LookUp, Call
  <2>1. ASSUME NEW i \in hits, Goes(c, Found(k, i)) PROVE Done
    <3>. DEFINE r == [k EXCEPT !.left = <<>>, !.id = i]
    <3>1. CASE Found(k, i) = Idle
      BY <1>i, <2>1, <3>1
    <3>2. CASE Found(k, i) # Idle
      <4>1. Found(k, i) = r /\ (k.op = "signIn" => docs[i].pin = Plain(k.pin))
        BY <3>2 DEF Found
      <4>2. r.op = k.op /\ r.id = i /\ r.pin = k.pin /\ r.new = k.new /\ i # None
        BY <1>t, <2>1, AccountsAssumption DEF Call
      <4>. HIDE DEF r
      <4>3. Undisturbed(r, docs)
        BY <4>1, <4>2 DEF Undisturbed
      <4>. QED
        BY <1>g, <2>1, <4>1, <4>3
    <3>. QED
      BY <3>1, <3>2
  <2>2. ASSUME hits = {}, Goes(c, [k EXCEPT !.left = Tail(@)]) PROVE Done
    <3>. DEFINE r == [k EXCEPT !.left = Tail(@)]
    <3>1. /\ r.op = k.op /\ r.num = k.num /\ r.id = k.id /\ r.pin = k.pin /\ r.new = k.new
          /\ r.left = Tail(k.left)
      BY <1>t DEF Call
    <3>. HIDE DEF r
    <3>2. ASSUME k.op = "create", k.id = None, NEW i \in Ids, docs[i] # None, docs[i].num = k.num,
                 docs[i].spelling \in ToSet(Spellings)
          PROVE  docs[i].spelling \in ToSet(Tail(k.left))
      <4>1. docs[i].spelling # Head(k.left)
        BY <2>2, <3>2 DEF Matches
      <4>2. docs[i].spelling \in ToSet(k.left)
        BY <3>2 DEF Undisturbed
      <4>. QED
        BY <2>0, <4>1, <4>2, SpellingsLeft
    <3>3. Undisturbed(r, docs)
      BY <3>1, <3>2 DEF Undisturbed
    <3>. QED
      BY <1>g, <2>2, <3>3 DEF r
  <2>. QED
    BY <1>1, <1>i, <2>1, <2>2 DEF LookUp
<1>2. CASE CheckNoAdmin(c)
  <2>1. PICK n \in Numbers, p \in Pins : Goes(c, [Idle EXCEPT !.op = "setup", !.num = n, !.new = p])
    BY <1>2 DEF CheckNoAdmin
  <2>2. [Idle EXCEPT !.op = "setup", !.num = n, !.new = p].op = "setup"
    BY DEF Idle
  <2>. QED
    BY <1>g, <1>o, <2>1, <2>2
<1>3. CASE CreateStaffAccount(c) \/ ChangeStaffPin(c) \/ SignInStaffWithPin(c)
  BY <1>3, <1>s DEF CreateStaffAccount, ChangeStaffPin, SignInStaffWithPin
<1>4. CASE SetStaffPin(c)
  BY <1>4, <1>r DEF SetStaffPin
<1>e. CASE OpenEditor(c)
  <2>1. PICK i \in Present : Goes(c, [Idle EXCEPT !.op = "editor", !.id = i, !.seen = docs[i],
                                                !.on = docs[i].active])
    BY <1>e DEF OpenEditor
  <2>. DEFINE r == [Idle EXCEPT !.op = "editor", !.id = i, !.seen = docs[i], !.on = docs[i].active]
  <2>2. r.op = "editor"
    BY DEF Idle
  <2>3. Goes(c, r)
    BY <2>1
  <2>. HIDE DEF r
  <2>. QED
    BY <1>g, <1>o, <2>2, <2>3
<1>5. CASE WritePin(c)
  BY <1>5, <1>i, <1>p, <1>o DEF WritePin
<1>6. CASE SetInitialAdmin(c) \/ AddAccount(c) \/ AddStaff(c) \/ DeleteStaff(c)
  BY <1>6, <1>p, <1>o DEF SetInitialAdmin, AddAccount, AddStaff, DeleteStaff
<1>7. CASE SaveForm(c) \/ SaveProfile(c)
  BY <1>7, <1>u, <1>o DEF SaveForm, SaveProfile
<1>8. ASSUME FlipSwitch(c) \/ ToggleActive(c) PROVE Done
  <2>. DEFINE r == [k EXCEPT !.on = ~@]
  <2>1. r.op = "editor"
    BY <1>8, <1>t DEF FlipSwitch, ToggleActive, Call
  <2>2. Goes(c, r) \/ UpdateStaff(c, [k.seen EXCEPT !.active = ~k.on], r)
    BY <1>8 DEF FlipSwitch, ToggleActive
  <2>. HIDE DEF r
  <2>. QED
    BY <1>g, <1>o, <1>u, <2>1, <2>2
<1>9. CASE GiveUp(c)
  BY <1>9, <1>i DEF GiveUp
<1>. QED
  BY <1>1, <1>2, <1>3, <1>4, <1>5, <1>6, <1>7, <1>8, <1>9, <1>e DEF CallStep, AuthStep, StaffStep, CopyStep

LEMMA SerialInvariant == MCSpec => [](LookupInv /\ SerialInv)
<1>1. MCInit => LookupInv /\ SerialInv
  <2>1. \A d : Undisturbed(Idle, d)
    BY DEF Undisturbed, Idle
  <2>. QED
    BY <2>1, LookupInit DEF MCInit, Init, SerialInv
<1>2. LookupInv /\ SerialInv /\ [MCNext]_<<vars, overlapped>> => (LookupInv /\ SerialInv)'
  <2>. SUFFICES ASSUME LookupInv, SerialInv, [MCNext]_<<vars, overlapped>>
                PROVE  LookupInv' /\ SerialInv'
    OBVIOUS
  <2>1. CASE UNCHANGED <<vars, overlapped>>
    BY <2>1, LookupStep DEF vars, SerialInv, Undisturbed
  <2>2. ASSUME NEW c \in Callers, CallStep(c),
               overlapped' = (overlapped \/ \E e \in Callers \ {c} : call[e] # Idle)
        PROVE  LookupInv' /\ SerialInv'
    <3>1. LookupInv'
      BY <2>2, LookupStep DEF Next
    <3>2. overlapped' \in BOOLEAN
      BY <2>2, Zenon
    <3>3. ASSUME ~overlapped' PROVE \A e \in Callers : Undisturbed(call'[e], docs')
      BY <2>2, <3>3, SerialStep DEF SerialInv
    <3>. QED
      BY <3>1, <3>2, <3>3 DEF SerialInv
  <2>. QED
    BY <2>1, <2>2 DEF MCNext
<1>. QED
  BY <1>1, <1>2, PTL DEF MCSpec

\* When calls do not overlap, createStaffAccount adds no account for a number
\* that has one in any spelling its lookup asks for.
THEOREM SerialCreateFindsAccounts == MCSpec => NoSecondAccount
<1>1. LookupInv /\ SerialInv /\ [MCNext]_<<vars, overlapped>> =>
         [\A c \in Callers : AddAccount(c) /\ ~overlapped =>
             ~\E i \in Present : docs[i].num = call[c].num
                                  /\ docs[i].spelling \in ToSet(Spellings)]_vars
  <2>. SUFFICES ASSUME SerialInv, NEW c \in Callers, AddAccount(c), ~overlapped,
                       NEW i \in Present, docs[i].num = call[c].num,
                       docs[i].spelling \in ToSet(Spellings)
                PROVE  FALSE
    OBVIOUS
  <2>1. docs[i].spelling \in ToSet(<<>>)
    BY DEF SerialInv, Undisturbed, AddAccount, Present
  <2>. QED
    BY <2>1, SpellingsLeft
<1>. QED
  BY <1>1, SerialInvariant, PTL DEF MCSpec, NoSecondAccount

\* When calls do not overlap, a sign-in that migrates a PIN keeps it.
THEOREM SerialMigrationKeepsPin == MCSpec => MigrationKeepsPin
<1>1. LookupInv /\ SerialInv /\ [MCNext]_<<vars, overlapped>> =>
         [\A c \in Callers : call[c].op = "signIn" /\ WritePin(c) /\ ~overlapped =>
            \A p \in Pins : Opens(p, docs[call[c].id].pin) => Opens(p, docs'[call[c].id].pin)]_vars
  <2>. SUFFICES ASSUME LookupInv, SerialInv, NEW c \in Callers, call[c].op = "signIn", WritePin(c),
                       ~overlapped, NEW p \in Pins, Opens(p, docs[call[c].id].pin)
                PROVE  Opens(p, docs'[call[c].id].pin)
    OBVIOUS
  <2>. DEFINE i == call[c].id
  <2>1. i \in Ids /\ docs \in [Ids -> Doc \cup {None}] /\ call[c].new \in Pins /\ i # None
    BY DEF LookupInv, WellFormed, WritePin, PinWriteDue, Call, Holds
  <2>2. CASE docs[i] = None
    BY <2>2 DEF WritePin, Goes
  <2>3. CASE docs[i] # None
    <3>1. docs[i].pin = Plain(call[c].new)
      BY <2>1 DEF SerialInv, Undisturbed
    <3>2. p = call[c].new
      BY <3>1 DEF Opens, Hash, Plain
    <3>3. docs'[i].pin = Hash(Plain(call[c].new))
      BY <2>1, <2>3 DEF WritePin, Put, Write, Doc
    <3>4. docs'[i].pin # None
      BY <2>1, <3>3, HashedIsStored, NoPinAssumption
    <3>. QED
      BY <3>2, <3>3, <3>4 DEF Opens
  <2>. QED
    BY <2>2, <2>3
<1>. QED
  BY <1>1, SerialInvariant, PTL DEF MCSpec, MigrationKeepsPin
=================================================================================

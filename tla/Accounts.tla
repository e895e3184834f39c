-------------------------------- MODULE Accounts --------------------------------
(***************************************************************************)
(* The staff accounts: documents of the staff collection, looked up by     *)
(* phone number and opened with a PIN.                                     *)
(*                                                                         *)
(*   lib/services/auth_service.dart            sign-in, accounts, PINs     *)
(*   lib/services/staff_migration_service.dart setStaffPin                 *)
(*   lib/services/staff_service.dart           add, update, delete         *)
(*   lib/screens/staff_management/edit_staff_screen.dart,                  *)
(*   lib/screens/staff/update_profile_screen.dart   what an update holds   *)
(*                                                                         *)
(* Every call reads first and writes after an await.  A lookup asks for    *)
(* one spelling of the number after the other, each in a query of its own. *)
(***************************************************************************)
EXTENDS Integers, Sequences, FiniteSets, SequencesExt

CONSTANTS
    Ids,          \* names of documents that may exist
    Numbers,      \* phone numbers
    Pins,         \* PINs people type
    Callers,      \* calls in flight
    Ops,          \* the operations this instance runs
    MaxHashes,    \* bound: how often a stored PIN is hashed again
    None

Spellings == <<"storage", "local">>   \* the lookup variants, in their order
AsStored  == ToSet(Spellings) \cup {"typed"}   \* or as typed into a form, which no lookup asks for
Roles     == {"admin", "staff"}
AllOps    == {"setup", "create", "change", "signIn", "reset", "default", "edit", "toggle", "profile", "add", "delete"}

ASSUME AccountsAssumption ==
    /\ Ops \subseteq AllOps
    /\ MaxHashes \in Nat \ {0}
    /\ None \notin Ids \cup Pins

VARIABLES
    docs,         \* the staff collection
    call,         \* what each caller has read and has still to write
    copied        \* history: accounts a whole staff object was written back to

vars == <<docs, call, copied>>

-----------------------------------------------------------------------------
(* PINs *)

\* A stored PIN: what was typed, and how many times it went through SHA-256.
StoredPin == [secret : Pins, hashes : 0..MaxHashes]
Plain(p)  == [secret |-> p, hashes |-> 0]
Hash(s)   == [s EXCEPT !.hashes = @ + 1]

\* An account without a PIN has none of these.
ASSUME NoPinAssumption == None \notin StoredPin

\* A typed PIN opens its hash, and a legacy plain one.
Opens(p, s) == s # None /\ (s = Hash(Plain(p)) \/ s = Plain(p))

-----------------------------------------------------------------------------

Doc == [num : Numbers, spelling : AsStored, pin : StoredPin \cup {None},
        role : Roles, active : BOOLEAN]

Idle == [op |-> "idle", left |-> <<>>, num |-> None, pin |-> None, new |-> None,
         id |-> None, seen |-> None, on |-> FALSE, there |-> {}]

Call == [op   : {"idle", "setup", "create", "change", "signIn", "reset", "default", "editor"},
         left : {Spellings, Tail(Spellings), <<>>},
         num  : Numbers \cup {None}, pin : Pins \cup {None}, new : Pins \cup {None},
         id   : Ids \cup {None}, seen : Doc \cup {None}, on : BOOLEAN, there : SUBSET Ids]

\* A call holds what it may have to write.
Holds(r) ==
    /\ r.op = "idle" => r = Idle
    /\ r.op \in {"setup", "create", "change", "signIn"} => r.num \in Numbers /\ r.new \in Pins
    /\ r.op \in {"reset", "default"} => r.id \in Ids /\ r.new \in Pins
    /\ r.op = "editor" => r.id \in Ids /\ r.seen \in Doc

WellFormed ==
    /\ docs \in [Ids -> Doc \cup {None}]
    /\ call \in [Callers -> Call]
    /\ \A c \in Callers : Holds(call[c])

TypeOK == WellFormed /\ copied \subseteq Ids

Present == {i \in Ids : docs[i] # None}
Fresh   == Ids \ Present
Admins  == {i \in Present : docs[i].role = "admin"}

\* Documents imported before PINs were hashed and numbers normalised.
Legacy == [num : Numbers, spelling : AsStored, pin : {Plain(p) : p \in Pins} \cup {None},
           role : {"staff"}, active : {TRUE}]

Init ==
    /\ docs \in [Ids -> Legacy \cup {None}]
    /\ call = [c \in Callers |-> Idle]
    /\ copied = {}

-----------------------------------------------------------------------------
(* Queries *)

\* What a lookup of n is about, however it is spelled; all but createStaffAccount ask
\* for active staff only.
Matches(i, op, n) == docs[i] # None /\ docs[i].num = n /\ (op # "create" => docs[i].active)

\* An account a lookup has been looking for is settled as long as nobody
\* changes what it is looked up by; a write takes it off every lookup's list.
Settled(d, i) == docs[i] # None /\ d[i] # None /\ d[i].num = docs[i].num
                    /\ d[i].spelling = docs[i].spelling /\ d[i].active = docs[i].active

\* The collection becomes d and the call of c becomes r.
Write(c, d, r) ==
    /\ docs' = d
    /\ call' = [e \in Callers |->
                  IF e = c THEN r
                  ELSE [call[e] EXCEPT !.there = {i \in @ : Settled(d, i)}]]

Put(c, i, doc, r) == Write(c, [docs EXCEPT ![i] = doc], r)
Goes(c, r)        == docs' = docs /\ call' = [call EXCEPT ![c] = r]

Starts(c, op, n, p, q) ==
    /\ call[c] = Idle
    /\ Goes(c, [Idle EXCEPT !.op = op, !.left = Spellings, !.num = n, !.pin = p, !.new = q,
                            !.there = {i \in Ids : Matches(i, op, n)
                                                     /\ docs[i].spelling \in ToSet(Spellings)}])

Reads(c, op, i, p) ==
    /\ call[c] = Idle
    /\ docs[i] # None
    /\ Goes(c, [Idle EXCEPT !.op = op, !.id = i, !.new = p])

\* Mutant: the PIN is not checked.
MutantFound(r, i) == [r EXCEPT !.left = <<>>, !.id = i]

\* What follows once the document has been read: the PIN is checked, and a
\* sign-in has a write left only if the stored PIN is plain.
Found(r, i) ==
    IF \/ r.op = "change" /\ ~Opens(r.pin, docs[i].pin)
       \/ r.op = "signIn" /\ docs[i].pin # Plain(r.pin)
    THEN Idle
    ELSE [r EXCEPT !.left = <<>>, !.id = i]

\* Mutant: only the first spelling is tried.
MutantLookUp(c) ==
    /\ call[c].left # <<>>
    /\ LET hits == {i \in Ids : Matches(i, call[c].op, call[c].num)
                                  /\ docs[i].spelling = Head(call[c].left)}
       IN \/ \E i \in hits : Goes(c, Found(call[c], i))
          \/ /\ hits = {}
             /\ Goes(c, IF call[c].op = "create" THEN [call[c] EXCEPT !.left = <<>>] ELSE Idle)

\* _queryStaffByPhone: one spelling.  When the last one finds nobody,
\* createStaffAccount goes on to add, and the others throw.
LookUp(c) ==
    /\ call[c].left # <<>>
    /\ LET hits == {i \in Ids : Matches(i, call[c].op, call[c].num)
                                  /\ docs[i].spelling = Head(call[c].left)}
       IN \/ \E i \in hits : Goes(c, Found(call[c], i))
          \/ /\ hits = {}
             /\ Goes(c, IF Len(call[c].left) > 1 \/ call[c].op = "create"
                          THEN [call[c] EXCEPT !.left = Tail(@)] ELSE Idle)

-----------------------------------------------------------------------------
(* auth_service.dart *)

NewDoc(n, p, role) == [num |-> n, spelling |-> "storage", pin |-> Hash(Plain(p)),
                       role |-> role, active |-> TRUE]

\* Mutant: nobody looks for an admin first.
MutantCheckNoAdmin(c) ==
    /\ "setup" \in Ops
    /\ call[c] = Idle
    /\ \E n \in Numbers, p \in Pins : Goes(c, [Idle EXCEPT !.op = "setup", !.num = n, !.new = p])

\* createInitialAdmin: no admin yet?
CheckNoAdmin(c) ==
    /\ "setup" \in Ops
    /\ call[c] = Idle
    /\ Admins = {}
    /\ \E n \in Numbers, p \in Pins : Goes(c, [Idle EXCEPT !.op = "setup", !.num = n, !.new = p])

SetInitialAdmin(c) ==
    /\ call[c].op = "setup"
    /\ \E i \in Fresh : Put(c, i, NewDoc(call[c].num, call[c].new, "admin"), Idle)

CreateStaffAccount(c) ==
    "create" \in Ops /\ \E n \in Numbers, p \in Pins : Starts(c, "create", n, None, p)

\* createStaffAccount found nobody.
AddAccount(c) ==
    /\ call[c].op = "create" /\ call[c].left = <<>> /\ call[c].id = None
    /\ \E i \in Fresh, role \in Roles : Put(c, i, NewDoc(call[c].num, call[c].new, role), Idle)

\* The dialog insists on a new PIN that differs.
ChangeStaffPin(c) ==
    /\ "change" \in Ops
    /\ \E n \in Numbers, p, q \in Pins : p # q /\ Starts(c, "change", n, p, q)

SignInStaffWithPin(c) ==
    "signIn" \in Ops /\ \E n \in Numbers, p \in Pins : Starts(c, "signIn", n, p, p)

\* Mutant: whatever PIN is there, it is replaced by the default.
MutantSetStaffPin(c) ==
    \E i \in Ids, p \in Pins :
        \/ "reset" \in Ops /\ Reads(c, "reset", i, p)
        \/ "default" \in Ops /\ docs[i] # None /\ docs[i].active /\ Reads(c, "default", i, p)

\* staff_migration_service.dart: setStaffPin, overwriting or, for the default
\* PIN, only if there is none.
SetStaffPin(c) ==
    \E i \in Ids, p \in Pins :
        \/ "reset" \in Ops /\ Reads(c, "reset", i, p)
        \/ "default" \in Ops /\ docs[i] # None /\ docs[i].pin = None /\ docs[i].active
             /\ Reads(c, "default", i, p)

\* The PIN write of a call that has read its document, which for
\* createStaffAccount writes the number too; the update fails if that document
\* is gone.
PinWriteDue(c) ==
    call[c].op \in {"create", "change", "signIn", "reset", "default"} /\ call[c].left = <<>> /\ call[c].id # None

WritePin(c) ==
    /\ PinWriteDue(c)
    /\ LET i == call[c].id
       IN IF docs[i] = None THEN Goes(c, Idle)
          ELSE Put(c, i, [docs[i] EXCEPT !.pin = Hash(Plain(call[c].new)),
                             !.num      = IF call[c].op = "create" THEN call[c].num ELSE @,
                             !.spelling = IF call[c].op = "create" THEN "storage" ELSE @], Idle)

-----------------------------------------------------------------------------
(* staff_service.dart and the screens over it *)

\* One form asks for a PIN and normalises the number; the other has no PIN and
\* stores the number as it was typed.
Typed(n, how, role) == [num |-> n, spelling |-> how, pin |-> None, role |-> role, active |-> TRUE]

AddStaff(c) ==
    /\ "add" \in Ops
    /\ call[c] = Idle
    /\ \E i \in Fresh, n \in Numbers, role \in Roles :
          \/ \E p \in Pins : Put(c, i, NewDoc(n, p, role), Idle)
          \/ \E how \in AsStored : Put(c, i, Typed(n, how, role), Idle)

DeleteStaff(c) ==
    /\ "delete" \in Ops
    /\ call[c] = Idle
    /\ \E i \in Present : Put(c, i, None, Idle)

\* An editor keeps the staff object it was opened with.
OpenEditor(c) ==
    /\ Ops \cap {"edit", "toggle", "profile"} # {}
    /\ call[c] = Idle
    /\ \E i \in Present : Goes(c, [Idle EXCEPT !.op = "editor", !.id = i, !.seen = docs[i],
                                               !.on = docs[i].active])

\* updateStaff writes every field of the staff object; its PIN is hashed,
\* and left alone if there is none.  Bound: MaxHashes.
UpdateStaff(c, staff, r) ==
    LET i == call[c].id
    IN IF docs[i] = None THEN Goes(c, r)
       ELSE /\ staff.pin # None => staff.pin.hashes < MaxHashes
            /\ Put(c, i, [staff EXCEPT !.pin = IF @ = None THEN docs[i].pin ELSE Hash(@)], r)

\* Mutant: an empty PIN field keeps the PIN of the staff object.
MutantSaveForm(c) ==
    /\ "edit" \in Ops
    /\ call[c].op = "editor"
    /\ \E n \in Numbers, role \in Roles :
          UpdateStaff(c, [call[c].seen EXCEPT !.num = n, !.spelling = "storage", !.role = role,
                                              !.active = call[c].on], Idle)

\* The form's active switch.
FlipSwitch(c) ==
    /\ "edit" \in Ops
    /\ call[c].op = "editor"
    /\ Goes(c, [call[c] EXCEPT !.on = ~@])

\* Saving the form: the PIN is what was typed into it, or none.
SaveForm(c) ==
    /\ "edit" \in Ops
    /\ call[c].op = "editor"
    /\ \E n \in Numbers, role \in Roles, p \in {None} \cup {Plain(q) : q \in Pins} :
          UpdateStaff(c, [call[c].seen EXCEPT !.num = n, !.spelling = "storage", !.role = role,
                                              !.active = call[c].on, !.pin = p], Idle)

\* Deactivating or reactivating writes a copy of the staff object; the editor
\* stays open.
ToggleActive(c) ==
    /\ "toggle" \in Ops
    /\ call[c].op = "editor"
    /\ UpdateStaff(c, [call[c].seen EXCEPT !.active = ~call[c].on], [call[c] EXCEPT !.on = ~@])

\* A staff member's own profile form writes a copy too.
SaveProfile(c) ==
    /\ "profile" \in Ops
    /\ call[c].op = "editor"
    /\ \E n \in Numbers : UpdateStaff(c, [call[c].seen EXCEPT !.num = n, !.spelling = "storage"], Idle)

\* The editor is closed, or an await throws before the call has written.
GiveUp(c) == call[c] # Idle /\ Goes(c, Idle)

-----------------------------------------------------------------------------

AuthStep(c) ==
    \/ LookUp(c)
    \/ CheckNoAdmin(c)
    \/ SetInitialAdmin(c)
    \/ CreateStaffAccount(c)
    \/ AddAccount(c)
    \/ ChangeStaffPin(c)
    \/ SignInStaffWithPin(c)
    \/ SetStaffPin(c)
    \/ WritePin(c)

StaffStep(c) ==
    \/ AddStaff(c)
    \/ DeleteStaff(c)
    \/ OpenEditor(c)
    \/ FlipSwitch(c)
    \/ SaveForm(c)
    \/ GiveUp(c)

CopyStep(c) ==
    /\ ToggleActive(c) \/ SaveProfile(c)
    /\ copied' = copied \cup {call[c].id}

CallStep(c) == CopyStep(c) \/ ((AuthStep(c) \/ StaffStep(c)) /\ UNCHANGED copied)

Next == \E c \in Callers : CallStep(c)

Spec == Init /\ [][Next]_vars

-----------------------------------------------------------------------------
(* Safety *)

\* However calls interleave, a lookup that has tried every spelling and found
\* nobody missed only accounts that were written while it ran, or whose number
\* was stored as a form had it typed (main.dart:4163), in none of the spellings
\* that _queryStaffByPhone asks for.
NeverMissesSettled ==
    \A c \in Callers : \A i \in call[c].there :
        call[c].id = None => docs[i] # None /\ docs[i].spelling \in ToSet(call[c].left)

\* Every stored PIN can be typed: it was hashed at most once, whichever calls
\* race to set, change, migrate or edit it.  (Not so where a copy of the staff
\* object was written back: see ReactivationRestoresAccess.)
PinsCanBeTyped ==
    \A i \in Present \ copied : docs[i].pin # None => docs[i].pin.hashes <= 1

-----------------------------------------------------------------------------
(* What a dialog of the code says *)

\* "Do you want to reactivate ...?  This keeps the account data but restores
\* sign-in access." (edit_staff_screen.dart:723): whoever could sign in with a
\* PIN when the editor was opened can do so once reactivated.
ReactivationRestoresAccess ==
    [][\A c \in Callers : ToggleActive(c) /\ ~call[c].on /\ docs[call[c].id] # None =>
          \A p \in Pins : Opens(p, call[c].seen.pin) => Opens(p, docs'[call[c].id].pin)]_vars
=============================================================================

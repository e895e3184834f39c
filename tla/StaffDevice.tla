------------------------------ MODULE StaffDevice ------------------------------
(***************************************************************************)
(* One device: its session, the Firestore listeners its StaffProvider      *)
(* keeps, and the home tab that shows the current staff member and checks  *)
(* them in.                                                                *)
(*                                                                         *)
(*   lib/providers/staff_provider.dart                StaffProvider        *)
(*   lib/screens/staff/staff_dashboard_screen.dart    StaffHomeTab, logout *)
(*   lib/screens/auth/staff_pin_screen.dart           what login persists  *)
(*                                                                         *)
(* A call of the provider is a program: the list of what it does between   *)
(* one await and the next.  Programs of several tasks interleave at every  *)
(* await; nothing in the provider keeps two of them apart.                 *)
(***************************************************************************)
EXTENDS Integers, Sequences, FiniteSets, SequencesExt

CONSTANTS
    Staff,        \* who may log in on this device
    FirstStaff,   \* the first of getAllStaff, sorted by name
    Kept,         \* the streams of the provider that this instance keeps
    Tasks,        \* slots for provider calls in flight
    MaxSubs,      \* bound: listeners ever created
    Nobody, NoSub

AllStreams == <<"staff", "dashboard", "today", "status", "current">>
Kinds      == ToSet(AllStreams) \cap Kept
Subs       == 1..MaxSubs

ASSUME DeviceAssumption ==
    /\ FirstStaff \in Staff /\ Nobody \notin Staff
    /\ MaxSubs \in Nat /\ NoSub \notin Nat

VARIABLES
    session,      \* who is logged in, or Nobody
    savedId,      \* SharedPreferences currentStaffId
    created,      \* the listeners created so far: the stream and staff of each
    live,         \* those that are not cancelled
    handle,       \* _staffSub, _dashboardSub, ...: the listener of each stream
    currentId,    \* _currentStaffId
    current,      \* _currentStaff
    listed,       \* has the staff list arrived?
    loading,      \* _isLoading
    task,         \* what each call in flight has still to do, and for whom
    overlapped,   \* history: have two calls ever been in flight together?
    departed,     \* history: has a logout ever begun?
    since         \* history, since the last logout began with no call in flight:
                  \* have two calls been, and how many listeners had been created

vars == <<session, savedId, created, live, handle, currentId, current, listed, loading, task,
          overlapped, departed, since>>

-----------------------------------------------------------------------------
(* The programs *)

Step(d, k) == [do |-> d, stream |-> k]

\* await _sub?.cancel(), then _sub = stream.listen(...)
LoadOf(k) ==
    IF k \notin Kinds THEN <<>>
    ELSE IF k = "staff" THEN <<Step("loadStaff", k), Step("listen", k)>>
    ELSE <<Step("cancel", k), Step("listen", k)>>

\* initializeCurrentStaff: await the preferences, then setCurrentStaffId.
CurrentLoad ==
    IF "current" \notin Kinds THEN <<>>
    ELSE <<Step("resolve", "current"), Step("set", "current"), Step("listen", "current")>>

Initialize ==
    LoadOf("staff") \o LoadOf("dashboard") \o LoadOf("today") \o LoadOf("status")
        \o CurrentLoad

\* checkInStaff / checkOutStaff: the service, then two of the loads.
CheckInOut ==
    <<Step("service", "none")>> \o LoadOf("today") \o LoadOf("dashboard")
        \o <<Step("done", "none")>>

\* clearListeners, then AuthService.signOut.
Cancels(k) == IF k \in Kinds THEN <<Step("clear", k)>> ELSE <<>>
Logout ==
    Cancels("staff") \o Cancels("dashboard") \o Cancels("today") \o Cancels("status")
        \o Cancels("current") \o <<Step("forget", "none"), Step("signOut", "none")>>

Programs == {Initialize, CurrentLoad, CheckInOut, Logout}

Idle(t)    == task[t].todo = <<>>
Quiet      == \A t \in Tasks : Idle(t)
Doing(t, d) == ~Idle(t) /\ Head(task[t].todo).do = d
Stream(t)  == Head(task[t].todo).stream

Used       == Len(created)
Listens(p) == Cardinality({i \in 1..Len(p) : p[i].do = "listen"})

\* Bound: a call starts only if all its listeners can still be created (at
\* most two calls are in flight in the instances checked).
RoomFor(p) ==
    \A t \in Tasks : \A u \in Tasks \ {t} :
        Idle(t) => Used + Listens(task[u].todo) + Listens(p) <= MaxSubs

Begin(t, p) ==
    /\ Idle(t)
    /\ Used + Listens(p) <= MaxSubs /\ RoomFor(p)
    /\ task' = [task EXCEPT ![t] = [todo |-> p, who |-> Nobody]]

Continue(t) == task' = [task EXCEPT ![t].todo = Tail(@)]

-----------------------------------------------------------------------------

Deeds   == {"loadStaff", "cancel", "listen", "resolve", "set", "service", "done", "clear",
            "forget", "signOut"}
Streams == {"staff", "dashboard", "today", "status", "current", "none"}
Steps   == {r \in [do : Deeds, stream : Streams] : r.do = "listen" => r.stream \in Kinds}
Person  == Staff \cup {Nobody}

TasksOK     == task \in [Tasks -> [todo : Seq(Steps), who : Person]]
ListenersOK == created \in Seq([stream : Kinds, who : Person])
PeopleOK    == {session, savedId, currentId, current} \subseteq Person /\ live \subseteq 1..Used
HandlesOK   == handle \in [Kinds -> Nat \cup {NoSub}]
FlagsOK     == {listed, loading} \subseteq BOOLEAN
HistoryOK   == /\ {overlapped, departed} \subseteq BOOLEAN
               /\ since \in [overlapped : BOOLEAN, created : Nat]

TypeOK == TasksOK /\ ListenersOK /\ PeopleOK /\ HandlesOK /\ FlagsOK /\ HistoryOK

Init ==
    /\ session = Nobody /\ savedId = Nobody
    /\ created = <<>> /\ live = {}
    /\ handle = [k \in Kinds |-> NoSub]
    /\ currentId = Nobody /\ current = Nobody
    /\ listed = FALSE /\ loading = FALSE
    /\ task = [t \in Tasks |-> [todo |-> <<>>, who |-> Nobody]]
    /\ overlapped = FALSE /\ departed = FALSE /\ since = [overlapped |-> FALSE, created |-> 0]

-----------------------------------------------------------------------------
(* The user *)

\* The PIN screen persists the id and opens the dashboard, which initializes.
Login(t, s) ==
    /\ session = Nobody
    /\ session' = s /\ savedId' = s
    /\ Begin(t, Initialize)
    /\ UNCHANGED <<created, live, handle, currentId, current, listed, loading>>

\* Pulling to refresh, or opening another tab, initializes all or the current
\* staff again.
Refresh(t, p) ==
    /\ session # Nobody
    /\ p \in {Initialize, CurrentLoad} \ {<<>>}
    /\ Begin(t, p)
    /\ UNCHANGED <<session, savedId, created, live, handle, currentId, current, listed, loading>>

\* The home tab shows the current staff member, or the first of the list.
Shown == IF current # Nobody THEN current ELSE IF listed THEN FirstStaff ELSE Nobody

\* The button is disabled while the provider is loading.
Press(t) ==
    /\ session # Nobody /\ Shown # Nobody
    /\ ~loading
    /\ Idle(t)
    /\ Used + Listens(CheckInOut) <= MaxSubs /\ RoomFor(CheckInOut)
    /\ loading' = TRUE
    /\ task' = [task EXCEPT ![t] = [todo |-> CheckInOut, who |-> Shown]]
    /\ UNCHANGED <<session, savedId, created, live, handle, currentId, current, listed>>

LogOut(t) ==
    /\ session # Nobody
    /\ \A u \in Tasks : ~Doing(u, "clear") /\ ~Doing(u, "forget") /\ ~Doing(u, "signOut")
    /\ Begin(t, Logout)
    /\ UNCHANGED <<session, savedId, created, live, handle, currentId, current, listed, loading>>

-----------------------------------------------------------------------------
(* The provider *)

CancelHandle(k) == live' = live \ {handle[k]}

CancelStream(t) ==
    /\ Doing(t, "cancel") \/ Doing(t, "clear")
    /\ CancelHandle(Stream(t))
    /\ Continue(t)
    /\ UNCHANGED <<session, savedId, created, handle, currentId, current, listed, loading>>

\* loadStaff also raises the loading flag, and lowers it when it has listened.
LoadStaff(t) ==
    /\ Doing(t, "loadStaff")
    /\ loading' = TRUE
    /\ CancelHandle("staff")
    /\ Continue(t)
    /\ UNCHANGED <<session, savedId, created, handle, currentId, current, listed>>

\* Mutant: only the first listener gets the handle.
MutantListen(t) ==
    /\ Doing(t, "listen")
    /\ created' = Append(created, [stream |-> Stream(t), who |-> task[t].who])
    /\ live' = live \cup {Used + 1}
    /\ handle' = IF handle[Stream(t)] = NoSub
                   THEN [handle EXCEPT ![Stream(t)] = Used + 1] ELSE handle
    /\ loading' = IF Stream(t) = "staff" THEN FALSE ELSE loading
    /\ Continue(t)
    /\ UNCHANGED <<session, savedId, currentId, current, listed>>

Listen(t) ==
    /\ Doing(t, "listen")
    /\ created' = Append(created, [stream |-> Stream(t), who |-> task[t].who])
    /\ live' = live \cup {Used + 1}
    /\ handle' = [handle EXCEPT ![Stream(t)] = Used + 1]
    /\ loading' = IF Stream(t) = "staff" THEN FALSE ELSE loading
    /\ Continue(t)
    /\ UNCHANGED <<session, savedId, currentId, current, listed>>

\* initializeCurrentStaff reads the saved id.
Resolve(t) ==
    /\ Doing(t, "resolve")
    /\ task' = [task EXCEPT ![t] = [todo |-> Tail(@.todo), who |-> savedId]]
    /\ UNCHANGED <<session, savedId, created, live, handle, currentId, current, listed, loading>>

\* Mutant: the id alone decides, not whether there is a listener.
MutantAlreadySubscribed(t) == currentId = task[t].who

\* "Already subscribed"
AlreadySubscribed(t) == currentId = task[t].who /\ handle["current"] # NoSub

SetCurrentStaffId(t) ==
    /\ Doing(t, "set")
    /\ IF AlreadySubscribed(t)
         THEN /\ task' = [task EXCEPT ![t].todo = <<>>]
              /\ UNCHANGED <<live, currentId>>
         ELSE /\ currentId' = task[t].who
              /\ CancelHandle("current")
              /\ Continue(t)
    /\ UNCHANGED <<session, savedId, created, handle, current, listed, loading>>

\* StaffService.checkIn or checkOut has answered, or thrown, which skips the loads.
ServiceReturns(t) ==
    /\ Doing(t, "service")
    /\ \/ Continue(t) /\ UNCHANGED loading
       \/ task' = [task EXCEPT ![t].todo = <<>>] /\ loading' = FALSE
    /\ UNCHANGED <<session, savedId, created, live, handle, currentId, current, listed>>

CheckDone(t) ==
    /\ Doing(t, "done")
    /\ loading' = FALSE
    /\ Continue(t)
    /\ UNCHANGED <<session, savedId, created, live, handle, currentId, current, listed>>

\* Mutant: the handles of the cancelled listeners are kept.
MutantForget(t) ==
    /\ Doing(t, "forget")
    /\ Continue(t)
    /\ UNCHANGED <<session, savedId, created, live, handle, currentId, current, listed, loading>>

\* The end of clearListeners: every handle is dropped.
Forget(t) ==
    /\ Doing(t, "forget")
    /\ handle' = [k \in Kinds |-> NoSub]
    /\ Continue(t)
    /\ UNCHANGED <<session, savedId, created, live, currentId, current, listed, loading>>

SignOut(t) ==
    /\ Doing(t, "signOut")
    /\ session' = Nobody
    /\ Continue(t)
    /\ UNCHANGED <<savedId, created, live, handle, currentId, current, listed, loading>>

\* A live listener delivers: the staff list, or the document of its staff.
Deliver(n) ==
    /\ n \in live
    /\ \/ created[n].stream = "staff" /\ listed' = TRUE /\ UNCHANGED current
       \/ created[n].stream = "current" /\ current' = created[n].who /\ UNCHANGED listed
    /\ UNCHANGED <<session, savedId, created, live, handle, currentId, loading, task>>

-----------------------------------------------------------------------------

UserStep(t) ==
    \/ \E s \in Staff : Login(t, s)
    \/ \E p \in Programs : Refresh(t, p)
    \/ Press(t)
    \/ LogOut(t)

ProviderStep(t) ==
    \/ CancelStream(t)
    \/ LoadStaff(t)
    \/ Listen(t)
    \/ Resolve(t)
    \/ SetCurrentStaffId(t)
    \/ ServiceReturns(t)
    \/ CheckDone(t)
    \/ Forget(t)
    \/ SignOut(t)

Move ==
    \/ \E t \in Tasks : UserStep(t) \/ ProviderStep(t)
    \/ \E n \in Subs : Deliver(n)

Departs == \E t \in Tasks : LogOut(t)

Next ==
    /\ Move
    /\ overlapped' = (overlapped \/ \E t, u \in Tasks : t # u /\ ~Idle(t)' /\ ~Idle(u)')
    /\ departed' = (departed \/ Departs)
    /\ since' = IF Quiet /\ Departs THEN [overlapped |-> FALSE, created |-> Used]
                ELSE [since EXCEPT !.overlapped =
                        @ \/ \E t, u \in Tasks : t # u /\ ~Idle(t)' /\ ~Idle(u)']

Spec == Init /\ [][Next]_vars

-----------------------------------------------------------------------------
(* Safety *)

Of(k) == {n \in 1..Used : created[n].stream = k}

\* As long as nobody logs out, overlapping refreshes never leave a stream deaf:
\* when no call is in flight every stream that was ever loaded has a live
\* listener behind its handle, and that of the current staff listens to them.
NeverDeaf ==
    ~departed /\ Quiet => \A k \in Kinds : Of(k) # {} =>
        /\ handle[k] \in live
        /\ k = "current" => created[handle[k]].who = currentId

\* As long as calls do not overlap, a finished initialize listens to the staff
\* member who is logged in, whoever used the device before; no stream has a
\* second listener beside the one its handle names, and none outlives the
\* session (staff_provider.dart:81, 437).
FollowsSession ==
    ~overlapped =>
        /\ \A k \in Kinds : \A n \in Of(k) \cap live : handle[k] = n
        /\ Quiet => IF session = Nobody THEN live = {}
                    ELSE /\ currentId = session
                         /\ handle["current"] \in live
                         /\ created[handle["current"]].who = session

\* A logout that overlaps no other call puts right whatever overlapping calls
\* left before it (staff_provider.dart:157, 443): from there on, while calls do
\* not overlap, no further listener is lost, and a finished initialize listens
\* to whoever has logged in, although the id of an earlier user is still set
\* (staff_provider.dart:120).
LogoutRecovers ==
    ~since.overlapped =>
        LET fresh == {n \in live : n > since.created}
        IN  /\ \A k \in Kinds : \A n \in Of(k) \cap fresh : handle[k] = n
            /\ Quiet => IF session = Nobody THEN fresh = {}
                        ELSE /\ currentId = session
                             /\ handle["current"] \in fresh
                             /\ created[handle["current"]].who = session
=============================================================================

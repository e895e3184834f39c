--------------------------- MODULE StaffDeviceProofs ---------------------------
(***************************************************************************)
(* What TLAPS proves of the provider's listeners, for any staff, streams   *)
(* and number of calls in flight, logouts included.                        *)
(***************************************************************************)
EXTENDS StaffDevice, TLAPS

-----------------------------------------------------------------------------
(* Every program listens to streams this instance keeps. *)

LEMMA ShortPrograms ==
    /\ <<>> \in Seq(Steps)
    /\ \A a \in Steps : <<a>> \in Seq(Steps)
    /\ \A a, b \in Steps : <<a, b>> \in Seq(Steps)
    /\ \A a, b, c \in Steps : <<a, b, c>> \in Seq(Steps)
    /\ \A p, q \in Seq(Steps) : p \o q \in Seq(Steps)
OBVIOUS

LEMMA LoadsAreSteps ==
    \A k \in {"staff", "dashboard", "today", "status"} :
        LoadOf(k) \in Seq(Steps) /\ Cancels(k) \in Seq(Steps)
<1>. TAKE k \in {"staff", "dashboard", "today", "status"}
<1>1. CASE k \notin Kinds
  BY <1>1, ShortPrograms DEF LoadOf, Cancels
<1>2. CASE k \in Kinds
  <2>1. /\ Step("loadStaff", k) \in Steps /\ Step("cancel", k) \in Steps
        /\ Step("clear", k) \in Steps /\ Step("listen", k) \in Steps
    BY <1>2 DEF Step, Steps, Deeds, Streams
  <2>. QED
    BY <1>2, <2>1, ShortPrograms DEF LoadOf, Cancels
<1>. QED
  BY <1>1, <1>2

LEMMA CurrentIsSteps == CurrentLoad \in Seq(Steps) /\ Cancels("current") \in Seq(Steps)
<1>1. CASE "current" \notin Kinds
  BY <1>1, ShortPrograms DEF CurrentLoad, Cancels
<1>2. CASE "current" \in Kinds
  <2>1. /\ Step("resolve", "current") \in Steps /\ Step("set", "current") \in Steps
        /\ Step("listen", "current") \in Steps /\ Step("clear", "current") \in Steps
    BY <1>2 DEF Step, Steps, Deeds, Streams
  <2>. QED
    BY <1>2, <2>1, ShortPrograms DEF CurrentLoad, Cancels
<1>. QED
  BY <1>1, <1>2

LEMMA ProgramsAreSteps == Programs \subseteq Seq(Steps)
<1>. DEFINE S == Seq(Steps)
<1>0. \A s, t \in S : s \o t \in S
  BY ShortPrograms
<1>1. /\ Step("service", "none") \in Steps /\ Step("done", "none") \in Steps
      /\ Step("forget", "none") \in Steps /\ Step("signOut", "none") \in Steps
  BY DEF Step, Steps, Deeds, Streams
<1>2. /\ <<Step("service", "none")>> \in S /\ <<Step("done", "none")>> \in S
      /\ <<Step("forget", "none"), Step("signOut", "none")>> \in S
  BY <1>1, ShortPrograms
<1>. HIDE DEF S
<1>3. Initialize \in S
  BY <1>0, LoadsAreSteps, CurrentIsSteps DEF Initialize, S
<1>4. CheckInOut \in S
  BY <1>0, <1>2, LoadsAreSteps DEF CheckInOut, S
<1>5. Logout \in S
  BY <1>0, <1>2, LoadsAreSteps, CurrentIsSteps DEF Logout, S
<1>. QED
  BY <1>3, <1>4, <1>5, CurrentIsSteps DEF Programs, S

-----------------------------------------------------------------------------
(* The inductive invariant *)

\* A handle that is set belongs to the newest listener of its stream.
HandleIsNewest ==
    \A k \in Kinds : handle[k] # NoSub =>
        handle[k] \in Of(k) /\ \A n \in Of(k) : n <= handle[k]

DeviceInv == TasksOK /\ ListenersOK /\ PeopleOK /\ HandlesOK /\ FlagsOK /\ HandleIsNewest

LEMMA SameListeners ==
    ASSUME DeviceInv, UNCHANGED <<created, handle>>
    PROVE  ListenersOK' /\ HandlesOK' /\ HandleIsNewest'
BY DEF DeviceInv, ListenersOK, HandlesOK, HandleIsNewest, Of, Used

LEMMA BeginKeeps ==
    ASSUME DeviceInv, NEW t \in Tasks, NEW p \in Programs, Begin(t, p)
    PROVE  TasksOK'
BY ProgramsAreSteps DEF DeviceInv, TasksOK, Begin, Person

LEMMA TodoIsSteps ==
    ASSUME DeviceInv, NEW t \in Tasks, ~Idle(t)
    PROVE  /\ Head(task[t].todo) \in Steps /\ Tail(task[t].todo) \in Seq(Steps)
           /\ task[t].who \in Person
<1>1. task[t].todo \in Seq(Steps) /\ task[t].who \in Person /\ task[t].todo # <<>>
  BY DEF DeviceInv, TasksOK, Idle
<1>. QED
  BY <1>1

LEMMA ContinueKeeps ==
    ASSUME DeviceInv, NEW t \in Tasks, ~Idle(t), Continue(t)
    PROVE  TasksOK'
BY TodoIsSteps DEF DeviceInv, TasksOK, Continue

LEMMA StopKeeps ==
    ASSUME DeviceInv, NEW t \in Tasks, task' = [task EXCEPT ![t].todo = <<>>]
    PROVE  TasksOK'
BY ShortPrograms DEF DeviceInv, TasksOK

LEMMA UserStepKeeps ==
    ASSUME DeviceInv, NEW t \in Tasks, UserStep(t)
    PROVE  DeviceInv'
<1>1. UNCHANGED <<created, handle, live, current>>
  BY DEF UserStep, Login, Refresh, Press, LogOut
<1>2. ListenersOK' /\ HandlesOK' /\ HandleIsNewest'
  BY <1>1, SameListeners
<1>3. PeopleOK'
  BY <1>1 DEF DeviceInv, PeopleOK, UserStep, Login, Refresh, Press, LogOut, Person, Used
<1>5. FlagsOK'
  BY DEF DeviceInv, FlagsOK, UserStep, Login, Refresh, Press, LogOut
<1>4. TasksOK'
  <2>0. {Initialize, CurrentLoad, CheckInOut, Logout} \subseteq Programs
    BY DEF Programs
  <2>1. CASE \E s \in Staff : Login(t, s)
    BY <2>0, <2>1, BeginKeeps DEF Login
  <2>2. CASE \E p \in Programs : Refresh(t, p)
    BY <2>2, BeginKeeps DEF Refresh
  <2>3. CASE LogOut(t)
    BY <2>0, <2>3, BeginKeeps DEF LogOut
  <2>4. CASE Press(t)
    <3>1. Shown \in Person
      BY DeviceAssumption DEF Shown, DeviceInv, PeopleOK, Person
    <3>2. CheckInOut \in Seq(Steps)
      BY <2>0, ProgramsAreSteps
    <3>. QED
      BY <2>4, <3>1, <3>2 DEF Press, DeviceInv, TasksOK
  <2>. QED
    BY <2>1, <2>2, <2>3, <2>4 DEF UserStep
<1>. QED
  BY <1>2, <1>3, <1>4, <1>5 DEF DeviceInv

\* The one step that matters: a new listener takes the handle of its stream.
LEMMA ListenKeeps ==
    ASSUME DeviceInv, NEW t \in Tasks, Listen(t)
    PROVE  DeviceInv'
<1>. DEFINE k == Stream(t)
            l == [stream |-> k, who |-> task[t].who]
<1>1. k \in Kinds /\ task[t].who \in Person
  BY TodoIsSteps DEF Listen, Doing, Stream, Steps
<1>2. /\ created' = Append(created, l)
      /\ handle' = [handle EXCEPT ![k] = Used + 1]
      /\ live' = live \cup {Used + 1}
      /\ UNCHANGED <<session, savedId, currentId, current>>
  BY DEF Listen
<1>3. l \in [stream : Kinds, who : Person] /\ l.stream = k
  BY <1>1
<1>. HIDE DEF k, l
<1>4. /\ ListenersOK'
      /\ Used \in Nat /\ Used' = Used + 1
      /\ \A n \in 1..Used : created'[n] = created[n]
      /\ created'[Used + 1] = l
  BY <1>2, <1>3 DEF DeviceInv, ListenersOK, Used
<1>5. TasksOK'
  BY ContinueKeeps DEF Listen, Doing
<1>6. PeopleOK'
  <2>1. {session, savedId, currentId, current}' \subseteq Person
    BY <1>2 DEF DeviceInv, PeopleOK
  <2>2. live' \subseteq 1..Used'
    <3>1. live \subseteq 1..Used /\ live' = live \cup {Used + 1}
      BY <1>2 DEF DeviceInv, PeopleOK
    <3>2. Used \in Nat /\ Used' = Used + 1
      BY <1>4
    <3>3. 1..Used \subseteq 1..(Used + 1) /\ Used + 1 \in 1..(Used + 1)
      BY <3>2
    <3>. QED
      BY <3>1, <3>2, <3>3, Zenon
  <2>. QED
    BY <2>1, <2>2 DEF PeopleOK
<1>7. HandlesOK'
  BY <1>1, <1>2, <1>4 DEF DeviceInv, HandlesOK
<1>9. FlagsOK'
  <2>1. listed' = listed /\ (loading' = FALSE \/ loading' = loading)
    BY DEF Listen
  <2>. QED
    BY <2>1 DEF DeviceInv, FlagsOK
<1>8. HandleIsNewest'
  <2>. SUFFICES ASSUME NEW j \in Kinds, handle'[j] # NoSub
                PROVE  handle'[j] \in Of(j)' /\ \A n \in Of(j)' : n <= handle'[j]
    BY DEF HandleIsNewest
  <2>1. Of(j)' = {n \in 1..Used + 1 : created'[n].stream = j}
    BY <1>4 DEF Of
  <2>2. CASE j = k
    <3>1. handle'[j] = Used + 1
      BY <1>1, <1>2, <2>2 DEF DeviceInv, HandlesOK
    <3>. QED
      BY <1>3, <1>4, <2>1, <2>2, <3>1
  <2>3. CASE j # k
    <3>1. handle'[j] = handle[j]
      BY <1>1, <1>2, <2>3 DEF DeviceInv, HandlesOK
    <3>2. Of(j)' = Of(j)
      BY <1>3, <1>4, <2>1, <2>3 DEF Of
    <3>. QED
      BY <3>1, <3>2 DEF DeviceInv, HandleIsNewest
  <2>. QED
    BY <2>2, <2>3
<1>. QED
  BY <1>4, <1>5, <1>6, <1>7, <1>8, <1>9 DEF DeviceInv

LEMMA ProviderStepKeeps ==
    ASSUME DeviceInv, NEW t \in Tasks, ProviderStep(t)
    PROVE  DeviceInv'
<1>1. CASE Listen(t)
  BY <1>1, ListenKeeps
<1>2. CASE CancelStream(t) \/ LoadStaff(t) \/ SetCurrentStaffId(t) \/ ServiceReturns(t)
             \/ CheckDone(t) \/ SignOut(t)
  <2>1. /\ UNCHANGED <<created, handle, current, savedId>> /\ live' \subseteq live
        /\ session' \in Person
    BY <1>2 DEF CancelStream, LoadStaff, SetCurrentStaffId, ServiceReturns, CheckDone, SignOut,
                CancelHandle, DeviceInv, PeopleOK, Person
  <2>4. currentId' \in Person
    BY <1>2, TodoIsSteps
    DEF CancelStream, LoadStaff, SetCurrentStaffId, ServiceReturns, CheckDone, SignOut, Doing,
        DeviceInv, PeopleOK
  <2>5. FlagsOK'
    BY <1>2 DEF CancelStream, LoadStaff, SetCurrentStaffId, ServiceReturns, CheckDone, SignOut,
                DeviceInv, FlagsOK
  <2>2. TasksOK'
    BY <1>2, ContinueKeeps, StopKeeps
    DEF CancelStream, LoadStaff, SetCurrentStaffId, ServiceReturns, CheckDone, SignOut, Doing
  <2>3. PeopleOK'
    BY <2>1, <2>4 DEF DeviceInv, PeopleOK, Used
  <2>. QED
    BY <2>1, <2>2, <2>3, <2>5, SameListeners DEF DeviceInv
<1>3. CASE Resolve(t)
  <2>1. UNCHANGED <<created, handle, currentId, current, savedId, live, session, listed, loading>>
    BY <1>3 DEF Resolve
  <2>2. PeopleOK' /\ FlagsOK'
    BY <2>1 DEF DeviceInv, PeopleOK, FlagsOK, Used
  <2>3. Tail(task[t].todo) \in Seq(Steps) /\ savedId \in Person
    BY <1>3, TodoIsSteps DEF Resolve, Doing, DeviceInv, PeopleOK
  <2>4. TasksOK'
    BY <1>3, <2>3 DEF Resolve, DeviceInv, TasksOK
  <2>. QED
    BY <2>1, <2>2, <2>4, SameListeners DEF DeviceInv
<1>4. CASE Forget(t)
  <2>1. /\ UNCHANGED <<created, currentId, current, savedId, live, session, listed, loading>>
        /\ handle' = [k \in Kinds |-> NoSub]
    BY <1>4 DEF Forget
  <2>2. PeopleOK' /\ FlagsOK' /\ ListenersOK' /\ HandlesOK' /\ HandleIsNewest'
    BY <2>1 DEF DeviceInv, PeopleOK, FlagsOK, ListenersOK, HandlesOK, HandleIsNewest, Used
  <2>3. TasksOK'
    BY <1>4, ContinueKeeps DEF Forget, Doing
  <2>. QED
    BY <2>2, <2>3 DEF DeviceInv
<1>. QED
  BY <1>1, <1>2, <1>3, <1>4 DEF ProviderStep

LEMMA MembersOfSeq ==
    ASSUME NEW R, NEW s \in Seq(R), NEW n \in 1..Len(s)
    PROVE  s[n] \in R
OBVIOUS

LEMMA DeliverKeeps ==
    ASSUME DeviceInv, NEW n \in Subs, Deliver(n)
    PROVE  DeviceInv'
<1>1. UNCHANGED <<created, handle, task, savedId, currentId, live, session, loading>>
  BY DEF Deliver
<1>2. current' \in Person
  <2>1. n \in 1..Used
    BY DEF Deliver, DeviceInv, PeopleOK
  <2>2. created[n].who \in Person
    <3>1. created \in Seq([stream : Kinds, who : Person])
      BY DEF DeviceInv, ListenersOK
    <3>2. created[n] \in [stream : Kinds, who : Person]
      BY <2>1, <3>1, MembersOfSeq DEF Used
    <3>. QED
      BY <3>2
  <2>. QED
    BY <2>2 DEF Deliver, DeviceInv, PeopleOK
<1>3. PeopleOK' /\ TasksOK'
  BY <1>1, <1>2 DEF DeviceInv, PeopleOK, TasksOK, Used
<1>4. FlagsOK'
  BY <1>1 DEF Deliver, DeviceInv, FlagsOK
<1>. QED
  BY <1>1, <1>3, <1>4, SameListeners DEF DeviceInv

LEMMA DeviceInvariant == Spec => []DeviceInv
<1>1. Init => DeviceInv
  <2>. SUFFICES ASSUME Init PROVE DeviceInv
    OBVIOUS
  <2>1. TasksOK
    BY ShortPrograms DEF Init, TasksOK, Person
  <2>2. ListenersOK /\ HandlesOK /\ HandleIsNewest
    BY DEF Init, ListenersOK, HandlesOK, HandleIsNewest
  <2>3. PeopleOK
    BY DEF Init, PeopleOK, Person
  <2>4. FlagsOK
    BY DEF Init, FlagsOK
  <2>. QED
    BY <2>1, <2>2, <2>3, <2>4 DEF DeviceInv
<1>2. DeviceInv /\ [Next]_vars => DeviceInv'
  <2>. SUFFICES ASSUME DeviceInv, [Next]_vars PROVE DeviceInv'
    OBVIOUS
  <2>1. CASE UNCHANGED vars
    <3>1. TasksOK' /\ PeopleOK' /\ FlagsOK'
      BY <2>1 DEF vars, DeviceInv, TasksOK, PeopleOK, FlagsOK, Used
    <3>. QED
      BY <2>1, <3>1, SameListeners DEF vars, DeviceInv
  <2>2. CASE Next
    BY <2>2, UserStepKeeps, ProviderStepKeeps, DeliverKeeps DEF Next, Move
  <2>. QED
    BY <2>1, <2>2
<1>. QED
  BY <1>1, <1>2, PTL DEF Spec

\* Every variable keeps its type; no call goes on to a step its program has not.
THEOREM DeviceTypeCorrect == Spec => []TypeOK
<1>1. Init => HistoryOK
  <2>. SUFFICES ASSUME Init PROVE HistoryOK
    OBVIOUS
  <2>1. since \in [overlapped : BOOLEAN, created : Nat]
    BY DEF Init
  <2>2. overlapped = FALSE /\ departed = FALSE
    BY DEF Init
  <2>. QED
    BY <2>1, <2>2 DEF HistoryOK
<1>2. DeviceInv /\ HistoryOK /\ [Next]_vars => HistoryOK'
  <2>. SUFFICES ASSUME DeviceInv, HistoryOK, [Next]_vars PROVE HistoryOK'
    OBVIOUS
  <2>1. CASE UNCHANGED vars
    BY <2>1 DEF HistoryOK, vars
  <2>2. CASE Next
    <3>1. overlapped' = (overlapped \/ \E t, u \in Tasks : t # u /\ ~Idle(t)' /\ ~Idle(u)')
      BY <2>2 DEF Next
    <3>2. departed' = (departed \/ Departs)
      BY <2>2 DEF Next
    <3>3. overlapped' \in BOOLEAN
      BY <3>1, Zenon
    <3>4. departed' \in BOOLEAN
      BY <3>2, Zenon
    <3>5. since' \in [overlapped : BOOLEAN, created : Nat]
      <4>1. since' = IF Quiet /\ Departs THEN [overlapped |-> FALSE, created |-> Used]
                     ELSE [since EXCEPT !.overlapped =
                             @ \/ \E t, u \in Tasks : t # u /\ ~Idle(t)' /\ ~Idle(u)']
        BY <2>2 DEF Next
      <4>2. since \in [overlapped : BOOLEAN, created : Nat] /\ Used \in Nat
        BY DEF HistoryOK, DeviceInv, ListenersOK, Used
      <4>. HIDE DEF Departs
      <4>. QED
        BY <4>1, <4>2, Zenon
    <3>. QED
      BY <3>3, <3>4, <3>5 DEF HistoryOK
  <2>. QED
    BY <2>1, <2>2
<1>3. Spec => []HistoryOK
  BY <1>1, <1>2, DeviceInvariant, PTL DEF Spec
<1>4. DeviceInv /\ HistoryOK => TypeOK
  BY DEF DeviceInv, TypeOK
<1>. QED
  BY <1>3, <1>4, DeviceInvariant, PTL

-----------------------------------------------------------------------------
(* The shape of a program, and of what is left of it *)

\* What one step of a program tells of the next: a listener follows the
\* cancelling of the same stream, "set" the reading of the saved id, the
\* sign-out the dropping of the handles, and nothing the sign-out.
Linked(a, b) ==
    /\ b.do = "listen"  <=> a.do \in {"loadStaff", "cancel", "set"}
    /\ b.do = "listen"   => b.stream = a.stream
    /\ b.do = "set"     <=> a.do = "resolve"
    /\ b.do = "signOut" <=> a.do = "forget"
    /\ a.do # "signOut"

Sound(a) ==
    /\ a.do = "loadStaff" => a.stream = "staff"
    /\ a.do = "set"       => a.stream = "current"
    /\ a.do = "cancel"    => a.stream # "current"

Ending(p)    == p[Len(p)]
Within(p, D) == \A i \in 1..Len(p) : p[i].do \in D
Has(p, a)    == \E i \in 1..Len(p) : p[i] = a

Chained(p) == /\ \A i \in 1..Len(p)-1 : Linked(p[i], p[i+1])
              /\ \A i \in 1..Len(p) : Sound(p[i])

Departure == {"clear", "forget", "signOut"}

Shaped(p) ==
    /\ Chained(p)
    /\ p # <<>> =>
         /\ Ending(p).do \in {"listen", "done", "signOut"}
         /\ \A i \in 1..Len(p) :
              /\ p[i].do \in Departure <=> Ending(p).do = "signOut"
              /\ p[i].do = "service" => Ending(p).do = "done"

ShapeInv == \A t \in Tasks : Shaped(task[t].todo)

\* A block neither starts in the middle of a pair of linked steps nor ends there.
Start(p) ==
    /\ p \in Seq(Steps)
    /\ Chained(p)
    /\ p # <<>> => p[1].do \notin {"listen", "set", "signOut"}
Block(p) ==
    /\ Start(p)
    /\ p # <<>> => Ending(p).do \notin {"loadStaff", "cancel", "set", "resolve", "forget", "signOut"}

LEMMA Joining ==
    ASSUME NEW p \in Seq(Steps), NEW q \in Seq(Steps)
    PROVE  /\ p \o q \in Seq(Steps)
           /\ Len(p \o q) = Len(p) + Len(q)
           /\ \A i \in 1..Len(p) : (p \o q)[i] = p[i]
           /\ \A i \in 1..Len(q) : (p \o q)[Len(p) + i] = q[i]
           /\ \A i \in 1..Len(p \o q) : i \in 1..Len(p) \/ i - Len(p) \in 1..Len(q)
           /\ \A i \in 1..Len(p \o q) :
                 (p \o q)[i] = IF i \in 1..Len(p) THEN p[i] ELSE q[i - Len(p)]
OBVIOUS

LEMMA JoinStart ==
    ASSUME NEW p, NEW q, Block(p), Start(q)
    PROVE  Start(p \o q)
<1>. DEFINE r == p \o q
<1>1. p \in Seq(Steps) /\ q \in Seq(Steps) /\ Len(p) \in Nat /\ Len(q) \in Nat
  BY DEF Block, Start
<1>2. CASE p = <<>>
  BY <1>1, <1>2 DEF Block, Start
<1>3. CASE q = <<>>
  BY <1>1, <1>3 DEF Block, Start
<1>4. CASE p # <<>> /\ q # <<>>
  <2>1. Len(p) > 0 /\ Len(q) > 0
    BY <1>1, <1>4
  <2>2. /\ r \in Seq(Steps) /\ Len(r) = Len(p) + Len(q)
        /\ \A i \in 1..Len(p) : r[i] = p[i]
        /\ \A i \in 1..Len(q) : r[Len(p) + i] = q[i]
    BY <1>1, Joining
  <2>. HIDE DEF r
  <2>3. r[1] = p[1] /\ r[Len(p)] = Ending(p) /\ r[Len(p) + 1] = q[1] /\ Ending(r) = Ending(q)
    BY <1>1, <2>1, <2>2 DEF Ending
  <2>4. ASSUME NEW i \in 1..Len(r)-1 PROVE Linked(r[i], r[i+1])
    <3>1. CASE i < Len(p)
      <4>1. i \in 1..Len(p)-1 /\ r[i] = p[i] /\ r[i+1] = p[i+1]
        BY <1>1, <2>2, <3>1
      <4>. QED
        BY <4>1 DEF Block, Start, Chained
    <3>2. CASE i = Len(p)
      BY <1>4, <2>3, <3>2 DEF Block, Start, Linked
    <3>3. CASE i > Len(p)
      <4>. DEFINE j == i - Len(p)
      <4>1. j \in 1..Len(q)-1 /\ j \in 1..Len(q) /\ j+1 \in 1..Len(q)
            /\ i = Len(p) + j /\ i+1 = Len(p) + (j+1)
        BY <1>1, <2>2, <3>3
      <4>. HIDE DEF j
      <4>2. r[i] = q[j] /\ r[i+1] = q[j+1]
        BY <1>1, <2>2, <4>1
      <4>. QED
        BY <4>1, <4>2 DEF Block, Start, Chained
    <3>. QED
      BY <1>1, <2>2, <3>1, <3>2, <3>3
  <2>5. ASSUME NEW i \in 1..Len(r) PROVE Sound(r[i])
    <3>1. CASE i <= Len(p)
      BY <1>1, <2>2, <3>1 DEF Block, Start, Chained
    <3>2. CASE i > Len(p)
      <4>. DEFINE j == i - Len(p)
      <4>1. j \in 1..Len(q) /\ i = Len(p) + j
        BY <1>1, <2>2, <3>2
      <4>. HIDE DEF j
      <4>. QED
        BY <2>2, <4>1 DEF Block, Start, Chained
    <3>. QED
      BY <1>1, <2>2, <3>1, <3>2
  <2>6. Start(r)
    BY <1>4, <2>2, <2>3, <2>4, <2>5 DEF Block, Start, Chained
  <2>. QED
    BY <2>6 DEF r
<1>. QED
  BY <1>2, <1>3, <1>4

LEMMA JoinWithin ==
    ASSUME NEW p \in Seq(Steps), NEW q \in Seq(Steps), NEW D, Within(p, D), Within(q, D)
    PROVE  Within(p \o q, D)
BY Joining DEF Within

LEMMA JoinEnding ==
    ASSUME NEW p \in Seq(Steps), NEW q \in Seq(Steps)
    PROVE  /\ q = <<>> => p \o q = p
           /\ q # <<>> => p \o q # <<>> /\ Ending(p \o q) = Ending(q)
<1>1. CASE q = <<>>
  BY <1>1
<1>2. CASE q # <<>>
  BY <1>2, Joining DEF Ending
<1>. QED
  BY <1>1, <1>2

LEMMA JoinBlocks ==
    ASSUME NEW p, NEW q, Block(p), Block(q)
    PROVE  Block(p \o q)
<1>1. p \in Seq(Steps) /\ q \in Seq(Steps)
  BY DEF Block, Start
<1>2. Start(p \o q)
  BY JoinStart DEF Block
<1>. QED
  BY <1>1, <1>2, JoinEnding DEF Block

LEMMA JoinHas ==
    ASSUME NEW p \in Seq(Steps), NEW q \in Seq(Steps), NEW a, Has(p, a) \/ Has(q, a)
    PROVE  Has(p \o q, a)
<1>1. CASE Has(p, a)
  BY <1>1, Joining DEF Has
<1>2. CASE Has(q, a)
  <2>1. PICK i \in 1..Len(q) : q[i] = a
    BY <1>2 DEF Has
  <2>2. Len(p) + i \in 1..Len(p \o q) /\ (p \o q)[Len(p) + i] = a
    BY <2>1, Joining
  <2>. QED
    BY <2>2 DEF Has
<1>. QED
  BY <1>1, <1>2

\* A load: it listens last, and does nothing a check-in or a logout does.
LoadDeeds == {"loadStaff", "cancel", "listen", "resolve", "set"}
Load(p) ==
    Block(p) /\ Within(p, LoadDeeds) /\ (p # <<>> => Ending(p).do = "listen")

LEMMA JoinLoads ==
    ASSUME NEW p, NEW q, Load(p), Load(q)
    PROVE  Load(p \o q)
<1>1. p \in Seq(Steps) /\ q \in Seq(Steps)
  BY DEF Load, Block, Start
<1>2. Block(p \o q) /\ Within(p \o q, LoadDeeds)
  BY <1>1, JoinBlocks, JoinWithin DEF Load
<1>3. p \o q # <<>> => Ending(p \o q).do = "listen"
  BY <1>1, JoinEnding DEF Load
<1>. QED
  BY <1>2, <1>3 DEF Load

LEMMA LoadsAreLoads ==
    \A k \in {"staff", "dashboard", "today", "status"} : Load(LoadOf(k))
<1>. TAKE k \in {"staff", "dashboard", "today", "status"}
<1>1. CASE k \notin Kinds
  BY <1>1, ShortPrograms DEF LoadOf, Load, Block, Start, Chained, Within
<1>2. CASE k \in Kinds
  <2>1. PICK d \in {"loadStaff", "cancel"} :
          /\ LoadOf(k) = <<Step(d, k), Step("listen", k)>>
          /\ d = "loadStaff" => k = "staff"
    BY <1>2 DEF LoadOf
  <2>. DEFINE p == <<Step(d, k), Step("listen", k)>>
  <2>2. Step(d, k) \in Steps /\ Step("listen", k) \in Steps
    BY <1>2 DEF Step, Steps, Deeds, Streams
  <2>3. p \in Seq(Steps) /\ Len(p) = 2 /\ p[1] = Step(d, k) /\ p[2] = Step("listen", k) /\ p # <<>>
    BY <2>2
  <2>. HIDE DEF p
  <2>4. Linked(p[1], p[2]) /\ Sound(p[1]) /\ Sound(p[2])
    BY <2>1, <2>3 DEF Linked, Sound, Step
  <2>5. p[1].do = d /\ p[2].do = "listen"
    BY <2>3 DEF Step
  <2>6. Chained(p) /\ Within(p, LoadDeeds) /\ Ending(p) = p[2]
    BY <2>3, <2>4, <2>5 DEF Chained, Within, LoadDeeds, Ending
  <2>7. Load(p)
    BY <2>3, <2>5, <2>6 DEF Load, Block, Start
  <2>. QED
    BY <2>1, <2>7 DEF p
<1>. QED
  BY <1>1, <1>2

LEMMA CurrentIsLoad ==
    /\ Load(CurrentLoad)
    /\ "current" \in Kinds => CurrentLoad # <<>> /\ Ending(CurrentLoad) = Step("listen", "current")
<1>1. CASE "current" \notin Kinds
  BY <1>1, ShortPrograms DEF CurrentLoad, Load, Block, Start, Chained, Within
<1>2. CASE "current" \in Kinds
  <2>. DEFINE p == <<Step("resolve", "current"), Step("set", "current"), Step("listen", "current")>>
  <2>1. CurrentLoad = p
    BY <1>2 DEF CurrentLoad
  <2>2. /\ Step("resolve", "current") \in Steps /\ Step("set", "current") \in Steps
        /\ Step("listen", "current") \in Steps
    BY <1>2 DEF Step, Steps, Deeds, Streams
  <2>3. /\ p \in Seq(Steps) /\ Len(p) = 3 /\ p # <<>>
        /\ p[1] = Step("resolve", "current") /\ p[2] = Step("set", "current")
        /\ p[3] = Step("listen", "current")
    BY <2>2
  <2>. HIDE DEF p
  <2>4. /\ Linked(p[1], p[2]) /\ Linked(p[2], p[3])
        /\ Sound(p[1]) /\ Sound(p[2]) /\ Sound(p[3])
    BY <2>3 DEF Linked, Sound, Step
  <2>5. p[1].do = "resolve" /\ p[2].do = "set" /\ p[3].do = "listen"
    BY <2>3 DEF Step
  <2>6. Chained(p) /\ Within(p, LoadDeeds) /\ Ending(p) = p[3]
    BY <2>3, <2>4, <2>5 DEF Chained, Within, LoadDeeds, Ending
  <2>7. Load(p)
    BY <2>3, <2>5, <2>6 DEF Load, Block, Start
  <2>. QED
    BY <2>1, <2>3, <2>6, <2>7
<1>. QED
  BY <1>1, <1>2

LEMMA InitializeIsLoad ==
    /\ Load(Initialize)
    /\ "current" \in Kinds => Initialize # <<>> /\ Ending(Initialize) = Step("listen", "current")
<1>. DEFINE p == ((LoadOf("staff") \o LoadOf("dashboard")) \o LoadOf("today")) \o LoadOf("status")
<1>1. Load(p)
  BY LoadsAreLoads, JoinLoads
<1>2. Initialize = p \o CurrentLoad
  BY DEF Initialize
<1>. HIDE DEF p
<1>3. Load(Initialize)
  BY <1>1, <1>2, CurrentIsLoad, JoinLoads
<1>4. p \in Seq(Steps) /\ CurrentLoad \in Seq(Steps)
  BY <1>1, CurrentIsLoad DEF Load, Block, Start
<1>. QED
  BY <1>2, <1>3, <1>4, CurrentIsLoad, JoinEnding

\* One step that neither opens a pair nor closes one.
LEMMA SingleBlock ==
    ASSUME NEW d \in {"service", "done", "clear"}, NEW k, Step(d, k) \in Steps
    PROVE  /\ Block(<<Step(d, k)>>) /\ Within(<<Step(d, k)>>, {d})
           /\ Ending(<<Step(d, k)>>) = Step(d, k)
<1>. DEFINE p == <<Step(d, k)>>
<1>1. p \in Seq(Steps) /\ Len(p) = 1 /\ p[1] = Step(d, k) /\ Step(d, k).do = d
  BY DEF Step
<1>. HIDE DEF p
<1>2. Ending(p) = p[1] /\ Sound(p[1])
  BY <1>1 DEF Ending, Sound
<1>3. Block(p)
  BY <1>1, <1>2 DEF Block, Start, Chained
<1>4. Within(p, {d})
  BY <1>1 DEF Within
<1>. QED
  BY <1>1, <1>2, <1>3, <1>4 DEF p

LEMMA LoadIsShaped == \A p : Load(p) => Shaped(p)
<1>. SUFFICES ASSUME NEW p, Load(p) PROVE Shaped(p)
  OBVIOUS
<1>1. Chained(p) /\ p \in Seq(Steps)
  BY DEF Load, Block, Start
<1>2. ASSUME p # <<>>
      PROVE  /\ Ending(p).do = "listen"
             /\ \A i \in 1..Len(p) : p[i].do \notin Departure /\ p[i].do # "service"
  BY <1>2 DEF Load, Within, LoadDeeds, Departure
<1>. QED
  BY <1>1, <1>2 DEF Shaped

LEMMA CheckInOutIsShaped ==
    /\ CheckInOut \in Seq(Steps) /\ CheckInOut # <<>>
    /\ Shaped(CheckInOut) /\ Ending(CheckInOut).do = "done" /\ Block(CheckInOut)
<1>. DEFINE a == <<Step("service", "none")>>
            z == <<Step("done", "none")>>
            m == (a \o LoadOf("today")) \o LoadOf("dashboard")
            D == LoadDeeds \cup {"service"} \cup {"done"}
<1>1. Step("service", "none") \in Steps /\ Step("done", "none") \in Steps
  BY DEF Step, Steps, Deeds, Streams
<1>2. /\ Block(a) /\ Within(a, {"service"})
      /\ Block(z) /\ Within(z, {"done"}) /\ Ending(z) = Step("done", "none") /\ z # <<>>
  BY <1>1, SingleBlock
<1>3. /\ Load(LoadOf("today")) /\ Load(LoadOf("dashboard"))
  BY LoadsAreLoads
<1>4. CheckInOut = m \o z
  BY DEF CheckInOut
<1>. HIDE DEF a, z
<1>5. /\ Block(LoadOf("today")) /\ Within(LoadOf("today"), D)
      /\ Block(LoadOf("dashboard")) /\ Within(LoadOf("dashboard"), D)
      /\ Within(a, D) /\ Within(z, D)
  BY <1>2, <1>3 DEF Load, Within
<1>. HIDE DEF D
<1>6. Block(a \o LoadOf("today")) /\ Within(a \o LoadOf("today"), D)
  BY <1>2, <1>5, JoinBlocks, JoinWithin DEF Block, Start
<1>7. Block(m) /\ Within(m, D)
  BY <1>5, <1>6, JoinBlocks, JoinWithin DEF Block, Start
<1>. HIDE DEF m
<1>8. Block(CheckInOut) /\ Within(CheckInOut, D)
  BY <1>2, <1>4, <1>5, <1>7, JoinBlocks, JoinWithin DEF Block, Start
<1>9. CheckInOut # <<>> /\ Ending(CheckInOut) = Step("done", "none")
  BY <1>2, <1>4, <1>7, JoinEnding DEF Block, Start
<1>10. Ending(CheckInOut).do = "done"
  BY <1>9 DEF Step
<1>11. \A i \in 1..Len(CheckInOut) : CheckInOut[i].do \notin Departure
  BY <1>8 DEF Within, D, LoadDeeds, Departure
<1>. QED
  BY <1>8, <1>9, <1>10, <1>11 DEF Shaped, Block, Start

LEMMA CancelsAreBlocks ==
    \A k \in {"staff", "dashboard", "today", "status", "current"} :
        /\ Block(Cancels(k)) /\ Within(Cancels(k), Departure)
        /\ k \in Kinds => Has(Cancels(k), Step("clear", k))
<1>. TAKE k \in {"staff", "dashboard", "today", "status", "current"}
<1>1. CASE k \notin Kinds
  BY <1>1, ShortPrograms DEF Cancels, Block, Start, Chained, Within
<1>2. CASE k \in Kinds
  <2>1. Step("clear", k) \in Steps
    BY DEF Step, Steps, Deeds, Streams
  <2>2. Block(<<Step("clear", k)>>) /\ Within(<<Step("clear", k)>>, {"clear"})
    BY <2>1, SingleBlock
  <2>3. Has(<<Step("clear", k)>>, Step("clear", k))
    BY DEF Has
  <2>4. Cancels(k) = <<Step("clear", k)>>
    BY <1>2 DEF Cancels
  <2>. QED
    BY <2>2, <2>3, <2>4 DEF Within, Departure
<1>. QED
  BY <1>1, <1>2

LEMMA LogoutIsShaped ==
    /\ Logout \in Seq(Steps) /\ Logout # <<>>
    /\ Shaped(Logout) /\ Ending(Logout).do = "signOut" /\ Logout[1].do # "signOut"
    /\ \A k \in Kinds : Has(Logout, Step("clear", k))
<1>. DEFINE f  == Step("forget", "none")
            o  == Step("signOut", "none")
            z  == <<f, o>>
            p1 == Cancels("staff") \o Cancels("dashboard")
            p2 == p1 \o Cancels("today")
            p3 == p2 \o Cancels("status")
            p4 == p3 \o Cancels("current")
            Q(p) == Block(p) /\ Within(p, Departure)
<1>1. f \in Steps /\ o \in Steps /\ f.do = "forget" /\ o.do = "signOut"
  BY DEF Step, Steps, Deeds, Streams
<1>2. Start(z) /\ Within(z, Departure) /\ z # <<>> /\ Ending(z) = o /\ z \in Seq(Steps)
  <2>. HIDE DEF f, o
  <2>1. z \in Seq(Steps) /\ Len(z) = 2 /\ z[1] = f /\ z[2] = o
    BY <1>1
  <2>. HIDE DEF z
  <2>2. Linked(z[1], z[2]) /\ Sound(z[1]) /\ Sound(z[2])
    BY <1>1, <2>1 DEF Linked, Sound
  <2>. QED
    BY <1>1, <2>1, <2>2 DEF Start, Chained, Within, Departure, Ending
<1>3. Logout = p4 \o z
  BY DEF Logout
<1>. HIDE DEF z, f, o
<1>4. \A p, q : Q(p) /\ Q(q) => Q(p \o q)
  BY JoinBlocks, JoinWithin DEF Block, Start
<1>5. /\ Q(Cancels("staff")) /\ Q(Cancels("dashboard")) /\ Q(Cancels("today"))
      /\ Q(Cancels("status")) /\ Q(Cancels("current"))
  BY CancelsAreBlocks
<1>6. /\ Q(p1) /\ Q(p2) /\ Q(p3) /\ Q(p4)
  <2>. HIDE DEF Q
  <2>. QED
    BY <1>4, <1>5
<1>7. \A k \in Kinds : Has(p4, Step("clear", k))
  <2>1. Kinds \subseteq {"staff", "dashboard", "today", "status", "current"}
    BY DEF Kinds, AllStreams, ToSet
  <2>2. \A p, q, a : Q(p) /\ Q(q) /\ (Has(p, a) \/ Has(q, a)) => Has(p \o q, a)
    BY JoinHas DEF Block, Start
  <2>3. \A k \in Kinds : Has(Cancels(k), Step("clear", k))
    BY <2>1, CancelsAreBlocks
  <2>. HIDE DEF Q
  <2>. QED
    BY <1>5, <1>6, <2>1, <2>2, <2>3
<1>. HIDE DEF p4
<1>8. Start(Logout) /\ Within(Logout, Departure)
  BY <1>2, <1>3, <1>6, JoinStart, JoinWithin DEF Block, Start
<1>9. Logout # <<>> /\ Ending(Logout) = o
  BY <1>2, <1>3, <1>6, JoinEnding DEF Block, Start
<1>10. \A k \in Kinds : Has(Logout, Step("clear", k))
  BY <1>2, <1>3, <1>6, <1>7, JoinHas DEF Block, Start
<1>11. Shaped(Logout)
  BY <1>1, <1>8, <1>9 DEF Shaped, Start, Within, Departure
<1>. QED
  BY <1>1, <1>8, <1>9, <1>10, <1>11 DEF Start

LEMMA ProgramsAreShaped == \A p \in Programs : Shaped(p)
BY InitializeIsLoad, CurrentIsLoad, LoadIsShaped, CheckInOutIsShaped, LogoutIsShaped DEF Programs

\* What is left after a step keeps the shape, the ending and all but the head.
LEMMA TailFacts ==
    ASSUME NEW p \in Seq(Steps), p # <<>>
    PROVE  /\ Tail(p) \in Seq(Steps) /\ Len(Tail(p)) = Len(p) - 1
           /\ \A i \in 1..Len(Tail(p)) : Tail(p)[i] = p[i+1]
           /\ Tail(p) # <<>> => Ending(Tail(p)) = Ending(p) /\ Head(Tail(p)) = p[2] /\ Len(p) > 1
           /\ Tail(p) = <<>> => Ending(p) = Head(p)
           /\ Head(p) = p[1] /\ Len(p) > 0
<1>. DEFINE q == Tail(p)
<1>1. Len(p) \in Nat /\ Len(p) > 0 /\ Head(p) = p[1]
  OBVIOUS
<1>2. /\ q \in Seq(Steps) /\ Len(q) = Len(p) - 1 /\ Len(q) \in Nat
      /\ \A i \in 1..Len(q) : q[i] = p[i+1]
  OBVIOUS
<1>3. q # <<>> <=> Len(q) > 0
  BY <1>2
<1>4. q # <<>> => Head(q) = q[1]
  BY <1>2
<1>. HIDE DEF q
<1>5. ASSUME q # <<>> PROVE Ending(q) = Ending(p) /\ Head(q) = p[2] /\ Len(p) > 1
  <2>1. 1 \in 1..Len(q) /\ Len(q) \in 1..Len(q) /\ Len(q) + 1 = Len(p) /\ 1+1 = 2 /\ Len(p) > 1
    BY <1>1, <1>2, <1>3, <1>5
  <2>2. q[1] = p[1+1] /\ q[Len(q)] = p[Len(q) + 1]
    BY <1>2, <2>1
  <2>. QED
    BY <1>4, <1>5, <2>1, <2>2 DEF Ending
<1>6. ASSUME q = <<>> PROVE Ending(p) = Head(p)
  <2>1. Len(p) = 1
    BY <1>1, <1>2, <1>3, <1>6
  <2>. QED
    BY <1>1, <2>1 DEF Ending
<1>. QED
  BY <1>1, <1>2, <1>5, <1>6 DEF q

LEMMA TailIsShaped ==
    ASSUME NEW p \in Seq(Steps), p # <<>>, Shaped(p)
    PROVE  /\ Shaped(Tail(p))
           /\ Tail(p) # <<>> => Linked(Head(p), Head(Tail(p)))
           /\ \A a : Has(p, a) /\ a # Head(p) => Has(Tail(p), a)
<1>. DEFINE q == Tail(p)
<1>1. /\ q \in Seq(Steps) /\ Len(q) = Len(p) - 1 /\ Len(p) \in Nat /\ Len(p) > 0
      /\ \A i \in 1..Len(q) : q[i] = p[i+1] /\ i+1 \in 1..Len(p)
      /\ q # <<>> => Ending(q) = Ending(p) /\ Head(q) = p[2] /\ Len(p) > 1
      /\ Head(p) = p[1]
  BY TailFacts
<1>. HIDE DEF q
<1>2. Chained(q)
  <2>1. ASSUME NEW i \in 1..Len(q)-1 PROVE Linked(q[i], q[i+1])
    <3>1. q[i] = p[i+1] /\ q[i+1] = p[i+2] /\ i+1 \in 1..Len(p)-1 /\ (i+1)+1 = i+2
      BY <1>1
    <3>2. Linked(p[i+1], p[(i+1)+1])
      BY <3>1 DEF Shaped, Chained
    <3>. QED
      BY <3>1, <3>2
  <2>2. ASSUME NEW i \in 1..Len(q) PROVE Sound(q[i])
    BY <1>1 DEF Shaped, Chained
  <2>. QED
    BY <2>1, <2>2 DEF Chained
<1>3. Shaped(q)
  BY <1>1, <1>2 DEF Shaped
<1>4. ASSUME q # <<>> PROVE Linked(Head(p), Head(q))
  <2>1. 1 \in 1..Len(p)-1 /\ 1+1 = 2
    BY <1>1, <1>4
  <2>2. Linked(p[1], p[1+1])
    BY <2>1 DEF Shaped, Chained
  <2>. QED
    BY <1>1, <1>4, <2>1, <2>2
<1>5. ASSUME NEW a, Has(p, a), a # Head(p) PROVE Has(q, a)
  <2>1. PICK i \in 1..Len(p) : p[i] = a
    BY <1>5 DEF Has
  <2>2. i # 1
    BY <1>1, <1>5, <2>1
  <2>3. i - 1 \in 1..Len(q) /\ (i - 1) + 1 = i
    BY <1>1, <2>1, <2>2
  <2>4. q[i - 1] = a
    BY <1>1, <2>1, <2>3
  <2>. QED
    BY <2>3, <2>4 DEF Has
<1>. QED
  BY <1>3, <1>4, <1>5 DEF q

\* How one call moves: it goes on to its next step, or it stops at an id that
\* is already subscribed or a service that threw.
Moves(t) ==
    \/ task'[t].todo = Tail(task[t].todo)
    \/ task'[t].todo = <<>> /\ (Doing(t, "set") \/ Doing(t, "service"))

LEMMA ProviderMoves ==
    ASSUME DeviceInv, NEW t \in Tasks, ProviderStep(t)
    PROVE  /\ ~Idle(t) /\ Moves(t)
           /\ ~Doing(t, "resolve") => task'[t].who = task[t].who
           /\ \A u \in Tasks \ {t} : task'[u] = task[u]
<1>1. task \in [Tasks -> [todo : Seq(Steps), who : Person]]
  BY DEF DeviceInv, TasksOK
<1>2. CASE Continue(t) /\ ~Idle(t)
  BY <1>1, <1>2 DEF Continue, Moves
<1>3. CASE task' = [task EXCEPT ![t].todo = <<>>] /\ (Doing(t, "set") \/ Doing(t, "service"))
  BY <1>1, <1>3 DEF Moves, Doing
<1>4. CASE Resolve(t)
  BY <1>1, <1>4 DEF Resolve, Doing, Moves
<1>. QED
  BY <1>2, <1>3, <1>4 DEF ProviderStep, CancelStream, LoadStaff, Listen, SetCurrentStaffId,
     ServiceReturns, CheckDone, Forget, SignOut, Doing

\* A call that begins was idle, and has a whole program to do.
LEMMA UserBegins ==
    ASSUME DeviceInv, NEW t \in Tasks, UserStep(t)
    PROVE  /\ Idle(t) /\ task'[t].todo \in Programs
           /\ \A u \in Tasks \ {t} : task'[u] = task[u]
<1>1. task \in [Tasks -> [todo : Seq(Steps), who : Person]]
  BY DEF DeviceInv, TasksOK
<1>2. ASSUME NEW p \in Programs, Begin(t, p)
      PROVE  /\ Idle(t) /\ task'[t].todo = p
             /\ \A u \in Tasks \ {t} : task'[u] = task[u]
  BY <1>1, <1>2 DEF Begin
<1>3. {Initialize, CheckInOut, Logout} \subseteq Programs
  BY DEF Programs
<1>4. CASE Press(t)
  BY <1>1, <1>3, <1>4 DEF Press
<1>. QED
  BY <1>2, <1>3, <1>4 DEF UserStep, Login, Refresh, LogOut

LEMMA ShapeInvariant == Spec => []ShapeInv
<1>1. Init => ShapeInv
  BY DEF Init, ShapeInv, Shaped, Chained
<1>2. DeviceInv /\ ShapeInv /\ [Next]_vars => ShapeInv'
  <2>. SUFFICES ASSUME DeviceInv, ShapeInv, [Next]_vars, NEW u \in Tasks
                PROVE  Shaped(task'[u].todo)
    BY DEF ShapeInv
  <2>1. Shaped(task[u].todo)
    BY DEF ShapeInv
  <2>2. CASE task'[u] = task[u]
    BY <2>1, <2>2
  <2>3. ASSUME NEW t \in Tasks, ProviderStep(t) PROVE Shaped(task'[u].todo)
    <3>1. CASE u # t
      BY <2>1, <2>3, <3>1, ProviderMoves
    <3>2. CASE u = t
      <4>1. ~Idle(u) /\ Moves(u) /\ task[u].todo \in Seq(Steps)
        BY <2>3, <3>2, ProviderMoves DEF DeviceInv, TasksOK
      <4>2. Shaped(Tail(task[u].todo)) /\ Shaped(<<>>)
        <5>1. task[u].todo # <<>>
          BY <4>1 DEF Idle
        <5>2. Shaped(<<>>)
          BY DEF Shaped, Chained
        <5>. QED
          BY <2>1, <4>1, <5>1, <5>2, TailIsShaped
      <4>. QED
        BY <4>1, <4>2 DEF Moves
    <3>. QED
      BY <3>1, <3>2
  <2>4. ASSUME NEW t \in Tasks, UserStep(t) PROVE Shaped(task'[u].todo)
    BY <2>1, <2>4, UserBegins, ProgramsAreShaped
  <2>5. CASE UNCHANGED task
    BY <2>2, <2>5
  <2>. QED
    BY <2>3, <2>4, <2>5 DEF Next, Move, Deliver, vars
<1>. QED
  BY <1>1, <1>2, DeviceInvariant, PTL DEF Spec

-----------------------------------------------------------------------------
(* As long as nobody logs out, no stream goes deaf *)

Listening(t, k) == Doing(t, "listen") /\ Stream(t) = k
Leaving(t)      == ~Idle(t) /\ Ending(task[t].todo).do = "signOut"

\* Before the first logout every call works for the id that was saved at the
\* only login, and a stream that has ever been listened to is heard, or some
\* call is about to listen to it.
Staying ==
    /\ \A t \in Tasks : ~Leaving(t)
    /\ session = Nobody => Quiet /\ created = <<>>
    /\ savedId = session
    /\ \A t \in Tasks :
         /\ Doing(t, "set") => task[t].who = savedId
         /\ Listening(t, "current") => task[t].who = savedId /\ currentId = savedId
    /\ \A n \in Of("current") : created[n].who = savedId /\ currentId = savedId
    /\ \A k \in Kinds : Of(k) # {} =>
         handle[k] \in live \/ \E t \in Tasks : Listening(t, k)

\* What the shape says of the step a call is about to take.
LEMMA StepFacts ==
    ASSUME DeviceInv, ShapeInv, NEW t \in Tasks, ~Idle(t)
    PROVE  LET p == task[t].todo IN
           /\ p \in Seq(Steps) /\ p # <<>>
           /\ Sound(Head(p))
           /\ Head(p).do \in Departure <=> Leaving(t)
           /\ Head(p).do = "service" => Ending(p).do = "done"
           /\ Tail(p) # <<>> => /\ Linked(Head(p), Head(Tail(p)))
                                /\ Ending(Tail(p)) = Ending(p)
           /\ Tail(p) = <<>> => Head(p).do \in {"listen", "done", "signOut"}
<1>. DEFINE p == task[t].todo
<1>1. p \in Seq(Steps) /\ p # <<>> /\ Shaped(p)
  BY DEF Idle, ShapeInv, DeviceInv, TasksOK
<1>2. Leaving(t) <=> Ending(p).do = "signOut"
  BY DEF Leaving
<1>. HIDE DEF p
<1>3. Len(p) \in Nat /\ 1 \in 1..Len(p) /\ Head(p) = p[1]
  BY <1>1
<1>4. /\ Sound(Head(p))
      /\ Head(p).do \in Departure <=> Leaving(t)
      /\ Head(p).do = "service" => Ending(p).do = "done"
  BY <1>1, <1>2, <1>3 DEF Shaped, Chained
<1>5. Tail(p) # <<>> => Linked(Head(p), Head(Tail(p))) /\ Ending(Tail(p)) = Ending(p)
  BY <1>1, TailIsShaped, TailFacts
<1>6. Tail(p) = <<>> => Head(p).do \in {"listen", "done", "signOut"}
  BY <1>1, TailFacts DEF Shaped
<1>. QED
  BY <1>1, <1>4, <1>5, <1>6 DEF p

LEMMA SameStays ==
    ASSUME Staying, UNCHANGED <<session, savedId, created, live, handle, currentId, task>>
    PROVE  Staying'
BY DEF Staying, Leaving, Idle, Quiet, Doing, Stream, Listening, Of, Used

\* How programs start.
LEMMA ProgramsStart ==
    /\ \A p \in {Initialize, CurrentLoad, CheckInOut} :
         p # <<>> => Head(p).do \notin {"listen", "set", "signOut"} /\ Ending(p).do # "signOut"
    /\ Head(Logout).do \in Departure \ {"signOut"}
<1>1. \A p \in Seq(Steps) : p # <<>> => Head(p) = p[1] /\ 1 \in 1..Len(p)
  OBVIOUS
<1>2. ASSUME NEW p \in {Initialize, CurrentLoad}, p # <<>>
      PROVE  Head(p).do \notin {"listen", "set", "signOut"} /\ Ending(p).do # "signOut"
  BY <1>1, <1>2, InitializeIsLoad, CurrentIsLoad DEF Load, Block, Start
<1>3. Head(CheckInOut).do \notin {"listen", "set", "signOut"} /\ Ending(CheckInOut).do # "signOut"
  <2>1. Block(CheckInOut)
    BY CheckInOutIsShaped
  <2>. QED
    BY <1>1, <2>1, CheckInOutIsShaped DEF Block, Start
<1>4. Head(Logout).do \in Departure \ {"signOut"}
  BY <1>1, LogoutIsShaped DEF Shaped
<1>. QED
  BY <1>2, <1>3, <1>4

LEMMA UserStepStays ==
    ASSUME DeviceInv, Staying, NEW t \in Tasks, UserStep(t), ~LogOut(t)
    PROVE  Staying'
<1>. DEFINE p == task'[t].todo
<1>1. /\ Idle(t) /\ p \in {Initialize, CurrentLoad, CheckInOut}
      /\ \A u \in Tasks \ {t} : task'[u] = task[u]
      /\ UNCHANGED <<created, live, handle, currentId>>
  <2>1. task \in [Tasks -> [todo : Seq(Steps), who : Person]]
    BY DEF DeviceInv, TasksOK
  <2>. QED
    BY <2>1 DEF UserStep, Login, Refresh, Press, Begin
<1>2. ~Leaving(t)' /\ ~Doing(t, "set")' /\ ~Doing(t, "listen")'
  BY <1>1, ProgramsStart DEF Leaving, Idle, Doing
<1>3. \A u \in Tasks \ {t}, d \in {"set", "listen"} :
         /\ Leaving(u)' <=> Leaving(u)
         /\ Doing(u, d)' <=> Doing(u, d)
         /\ Stream(u)' = Stream(u)
         /\ task'[u].who = task[u].who
  BY <1>1 DEF Leaving, Idle, Doing, Stream
<1>4. \A k \in Kinds : Of(k)' = Of(k)
  BY <1>1 DEF Of, Used
<1>5. Of("current")' = Of("current")
  BY <1>1 DEF Of, Used
<1>6. CASE session' = session /\ savedId' = savedId /\ session # Nobody
  <2>1. \A k \in Kinds : \A u \in Tasks : Listening(u, k) => Listening(u, k)'
    BY <1>1, <1>3 DEF Listening, Doing
  <2>. QED
    BY <1>1, <1>2, <1>3, <1>4, <1>5, <1>6, <2>1 DEF Staying, Listening
<1>7. CASE \E s \in Staff : Login(t, s)
  <2>1. session = Nobody /\ session' # Nobody /\ savedId' = session'
    BY <1>7, DeviceAssumption DEF Login
  <2>2. Quiet /\ created = <<>>
    BY <2>1 DEF Staying
  <2>3. \A k : Of(k)' = {}
    BY <1>1, <2>2 DEF Of, Used
  <2>4. \A u \in Tasks : ~Leaving(u)' /\ ~Doing(u, "set")' /\ ~Doing(u, "listen")'
    BY <1>2, <1>3, <2>2 DEF Quiet, Leaving, Doing
  <2>. QED
    BY <2>1, <2>3, <2>4 DEF Staying, Listening
<1>. QED
  BY <1>6, <1>7 DEF UserStep, Refresh, Press

\* A live handle is one of the stream's listeners.
LEMMA LiveHandle ==
    ASSUME DeviceInv, NEW k \in Kinds, handle[k] \in live
    PROVE  handle[k] # NoSub /\ handle[k] \in Of(k)
<1>1. live \subseteq 1..Used /\ Used \in Nat
  BY DEF DeviceInv, PeopleOK, ListenersOK, Used
<1>2. handle[k] \in 1..Used
  BY <1>1, Zenon
<1>3. handle[k] # NoSub
  BY <1>1, <1>2, DeviceAssumption
<1>4. handle[k] \in Of(k)
  BY <1>3 DEF DeviceInv, HandleIsNewest
<1>. QED
  BY <1>3, <1>4

\* The listeners of two streams differ, so cancelling one leaves the other.
LEMMA HandlesDiffer ==
    ASSUME DeviceInv, NEW j \in Kinds, NEW k \in Kinds, j # k, handle[k] \in live
    PROVE  handle[k] # handle[j]
<1>. SUFFICES ASSUME handle[k] = handle[j] PROVE FALSE
  OBVIOUS
<1>1. handle[k] \in Of(k) /\ handle[j] \in Of(j)
  BY LiveHandle
<1>. QED
  BY <1>1 DEF Of

\* Every step but Listen and a logout's only ever cancels the stream at its head.
LEMMA Cancelling ==
    ASSUME DeviceInv, ShapeInv, NEW t \in Tasks, ProviderStep(t), ~Listen(t), ~Leaving(t)
    PROVE  /\ UNCHANGED <<session, savedId, created, handle>>
           /\ \/ /\ live' = live
                 /\ \/ ~Doing(t, "cancel") /\ ~Doing(t, "loadStaff") /\ ~Doing(t, "set")
                    \/ task'[t].todo = <<>>
              \/ /\ live' = live \ {handle[Stream(t)]}
                 /\ Doing(t, "cancel") \/ Doing(t, "loadStaff") \/ Doing(t, "set")
                 /\ task'[t].todo = Tail(task[t].todo)
<1>1. ~Idle(t) /\ task \in [Tasks -> [todo : Seq(Steps), who : Person]]
  BY ProviderMoves DEF DeviceInv, TasksOK
<1>2. ~Doing(t, "clear") /\ ~Doing(t, "forget") /\ ~Doing(t, "signOut")
  BY <1>1, StepFacts DEF Departure, Doing
<1>3. Sound(Head(task[t].todo))
  BY <1>1, StepFacts
<1>4. CASE CancelStream(t)
  BY <1>1, <1>2, <1>4 DEF CancelStream, CancelHandle, Continue
<1>5. CASE LoadStaff(t)
  <2>1. Stream(t) = "staff"
    BY <1>3, <1>5 DEF LoadStaff, Doing, Stream, Sound
  <2>. QED
    BY <1>1, <1>5, <2>1 DEF LoadStaff, CancelHandle, Continue
<1>6. CASE SetCurrentStaffId(t)
  <2>1. Stream(t) = "current"
    BY <1>3, <1>6 DEF SetCurrentStaffId, Doing, Stream, Sound
  <2>. QED
    BY <1>1, <1>6, <2>1 DEF SetCurrentStaffId, CancelHandle, Continue
<1>7. CASE Resolve(t) \/ ServiceReturns(t) \/ CheckDone(t)
  BY <1>7 DEF Resolve, ServiceReturns, CheckDone, Doing
<1>. QED
  BY <1>2, <1>4, <1>5, <1>6, <1>7 DEF ProviderStep, Forget, SignOut

LEMMA ProviderStepStays ==
    ASSUME DeviceInv, ShapeInv, Staying, NEW t \in Tasks, ProviderStep(t)
    PROVE  Staying'
<1>. DEFINE p == task[t].todo
            q == task'[t].todo
<1>0. task \in [Tasks -> [todo : Seq(Steps), who : Person]]
  BY DEF DeviceInv, TasksOK
<1>1. /\ ~Idle(t) /\ ~Leaving(t) /\ Moves(t)
      /\ ~Doing(t, "resolve") => task'[t].who = task[t].who
      /\ \A u \in Tasks \ {t} : task'[u] = task[u]
  BY ProviderMoves DEF Staying
<1>2. /\ p \in Seq(Steps) /\ p # <<>> /\ Sound(Head(p)) /\ Head(p).do \notin Departure
      /\ Tail(p) # <<>> => Linked(Head(p), Head(Tail(p))) /\ Ending(Tail(p)) = Ending(p)
      /\ Tail(p) = <<>> => Head(p).do \in {"listen", "done", "signOut"}
  BY <1>1, StepFacts
<1>3. session # Nobody
  BY <1>1 DEF Staying, Quiet
<1>4. UNCHANGED <<session, savedId>>
  BY <1>1, Cancelling DEF Listen
<1>5. q = Tail(p) \/ (q = <<>> /\ (Doing(t, "set") \/ Doing(t, "service")))
  BY <1>1 DEF Moves
<1>6. \A u \in Tasks : ~Leaving(u)'
  <2>1. ~Leaving(t)'
    BY <1>1, <1>2, <1>5 DEF Leaving, Idle
  <2>. QED
    BY <1>1, <2>1 DEF Staying, Leaving, Idle
<1>7. \A u \in Tasks \ {t}, k \in Streams :
         /\ Listening(u, k)' <=> Listening(u, k)
         /\ Doing(u, "set")' <=> Doing(u, "set")
         /\ task'[u].who = task[u].who
  BY <1>1 DEF Listening, Doing, Stream, Idle
<1>8. currentId' = currentId \/ (currentId' = savedId /\ Doing(t, "set"))
  BY DEF Staying, ProviderStep, CancelStream, LoadStaff, Listen, Resolve, SetCurrentStaffId,
         ServiceReturns, CheckDone, Forget, SignOut
<1>9. Doing(t, "set")' => task'[t].who = savedId'
  <2>. SUFFICES ASSUME Doing(t, "set")' PROVE task'[t].who = savedId
    BY <1>4
  <2>1. q = Tail(p) /\ q # <<>> /\ Head(q).do = "set"
    BY <1>5 DEF Doing, Idle
  <2>2. Doing(t, "resolve")
    BY <1>1, <1>2, <2>1 DEF Linked, Doing
  <2>3. Resolve(t)
    BY <2>2 DEF Doing, ProviderStep, CancelStream, LoadStaff, Listen, SetCurrentStaffId,
                ServiceReturns, CheckDone, Forget, SignOut
  <2>. QED
    BY <1>0, <2>3 DEF Resolve
<1>10. Listening(t, "current")' => task'[t].who = savedId' /\ currentId' = savedId'
  <2>. SUFFICES ASSUME Listening(t, "current")'
                PROVE  task'[t].who = savedId /\ currentId' = savedId
    BY <1>4
  <2>1. q = Tail(p) /\ q # <<>> /\ Head(q).do = "listen" /\ Head(q).stream = "current"
    BY <1>5 DEF Listening, Doing, Idle, Stream
  <2>2. Head(p).do = "set"
    BY <1>2, <2>1 DEF Linked, Sound
  <2>3. Doing(t, "set") /\ ~Doing(t, "resolve") /\ SetCurrentStaffId(t)
    BY <1>1, <2>2 DEF Doing, ProviderStep, CancelStream, LoadStaff, Listen, Resolve,
                ServiceReturns, CheckDone, Forget, SignOut
  <2>4. ~AlreadySubscribed(t)
    BY <1>0, <2>1, <2>3 DEF SetCurrentStaffId
  <2>5. currentId' = task[t].who /\ task[t].who = savedId
    BY <2>3, <2>4 DEF SetCurrentStaffId, Staying
  <2>. QED
    BY <1>1, <2>3, <2>5
<1>11. CASE Listen(t)
  <2>. DEFINE j == Stream(t)
  <2>1. /\ Doing(t, "listen") /\ handle' = [handle EXCEPT ![j] = Used + 1]
        /\ live' = live \cup {Used + 1}
        /\ created' = Append(created, [stream |-> j, who |-> task[t].who])
        /\ UNCHANGED currentId
    BY <1>11 DEF Listen
  <2>2. j \in Kinds
    BY <1>1, <2>1, TodoIsSteps DEF Doing, Stream, Steps
  <2>. HIDE DEF j
  <2>3. /\ Used \in Nat /\ Used' = Used + 1
        /\ \A n \in 1..Used : created'[n] = created[n]
        /\ created'[Used + 1] = [stream |-> j, who |-> task[t].who]
    BY <2>1 DEF DeviceInv, ListenersOK, Used
  <2>4. \A k : \A n \in Of(k)' : n \in Of(k) \/ (n = Used + 1 /\ k = j)
    BY <2>3 DEF Of
  <2>5. ASSUME NEW n \in Of("current")'
        PROVE  created'[n].who = savedId /\ currentId = savedId
    <3>1. CASE n \in Of("current")
      BY <2>3, <3>1 DEF Staying, Of
    <3>2. CASE n = Used + 1 /\ j = "current"
      <4>1. Listening(t, "current")
        BY <2>1, <3>2 DEF Listening, j
      <4>2. task[t].who = savedId /\ currentId = savedId
        BY <4>1 DEF Staying
      <4>3. created'[n].who = task[t].who
        BY <2>3, <3>2
      <4>. QED
        BY <4>2, <4>3
    <3>. QED
      BY <2>4, <2>5, <3>1, <3>2
  <2>6. ASSUME NEW k \in Kinds, Of(k)' # {}
        PROVE  handle'[k] \in live' \/ \E u \in Tasks : Listening(u, k)'
    <3>1. CASE k = j
      BY <2>1, <2>2, <3>1 DEF DeviceInv, HandlesOK
    <3>2. CASE k # j
      <4>1. Of(k) # {}
        BY <2>4, <2>6, <3>2
      <4>2. handle'[k] = handle[k]
        BY <2>1, <2>2, <3>2 DEF DeviceInv, HandlesOK
      <4>3. ASSUME NEW u \in Tasks, Listening(u, k) PROVE Listening(u, k)'
        <5>1. u # t
          BY <3>2, <4>3 DEF Listening, j
        <5>. QED
          BY <1>1, <4>3, <5>1 DEF Listening, Doing, Stream, Idle
      <4>. QED
        BY <2>1, <4>1, <4>2, <4>3 DEF Staying
    <3>. QED
      BY <3>1, <3>2
  <2>. QED
    BY <1>3, <1>4, <1>6, <1>7, <1>9, <1>10, <2>1, <2>5, <2>6 DEF Staying, Streams
<1>12. CASE ~Listen(t)
  <2>1. UNCHANGED <<created, handle>>
    BY <1>1, <1>12, Cancelling
  <2>2. Of("current")' = Of("current") /\ \A k \in Kinds : Of(k)' = Of(k)
    BY <2>1 DEF Of, Used
  <2>3. \A n \in Of("current")' : created'[n].who = savedId /\ currentId' = savedId
    BY <1>8, <2>1, <2>2 DEF Staying
  <2>4. ~Doing(t, "listen")
    BY <1>12 DEF Doing, ProviderStep, CancelStream, LoadStaff, Resolve, SetCurrentStaffId,
                 ServiceReturns, CheckDone, Forget, SignOut
  <2>5. ASSUME NEW k \in Kinds, NEW u \in Tasks, Listening(u, k) PROVE Listening(u, k)'
    <3>1. u # t
      BY <2>4, <2>5 DEF Listening
    <3>. QED
      BY <1>1, <2>5, <3>1 DEF Listening, Doing, Stream, Idle
  <2>6. ASSUME NEW k \in Kinds, handle[k] \in live
        PROVE  handle'[k] \in live' \/ \E u \in Tasks : Listening(u, k)'
    <3>1. CASE live' = live
      BY <2>1, <2>6, <3>1
    <3>2. CASE /\ live' = live \ {handle[Stream(t)]}
               /\ Doing(t, "cancel") \/ Doing(t, "loadStaff") \/ Doing(t, "set")
               /\ q = Tail(p)
      <4>1. Head(p).do \in {"cancel", "loadStaff", "set"}
        BY <3>2 DEF Doing
      <4>2. Tail(p) # <<>> /\ Head(Tail(p)).do = "listen" /\ Head(Tail(p)).stream = Head(p).stream
        BY <1>2, <4>1 DEF Linked
      <4>3. Listening(t, Stream(t))'
        BY <3>2, <4>2 DEF Listening, Doing, Idle, Stream
      <4>4. CASE k = Stream(t)
        BY <3>2, <4>2, <4>4 DEF Listening, Doing, Idle, Stream
      <4>5. CASE k # Stream(t)
        <5>1. Stream(t) \in Kinds
          <6>1. Head(q) \in Steps /\ Head(q).do = "listen" /\ Head(q).stream = Stream(t)
            <7>1. Tail(p) \in Seq(Steps)
              BY <1>2
            <7>. QED
              BY <3>2, <4>2, <7>1 DEF Stream
          <6>. QED
            BY <6>1 DEF Steps
        <5>2. handle[k] # handle[Stream(t)]
          BY <2>6, <4>5, <5>1, HandlesDiffer
        <5>. QED
          BY <2>1, <2>6, <3>2, <5>2
      <4>. QED
        BY <4>4, <4>5
    <3>. QED
      BY <1>1, <1>12, <3>1, <3>2, Cancelling
  <2>7. \A k \in Kinds : Of(k)' # {} =>
           handle'[k] \in live' \/ \E u \in Tasks : Listening(u, k)'
    BY <2>2, <2>5, <2>6 DEF Staying
  <2>. QED
    BY <1>3, <1>4, <1>6, <1>7, <1>8, <1>9, <1>10, <2>3, <2>7 DEF Staying, Streams
<1>. QED
  BY <1>11, <1>12

LEMMA StayingInvariant == Spec => [](~departed => Staying)
<1>. DEFINE Inv == departed \in BOOLEAN /\ (~departed => Staying)
<1>1. Init => Inv
  <2>. SUFFICES ASSUME Init PROVE Inv
    OBVIOUS
  <2>1. \A k : Of(k) = {}
    BY DEF Init, Of, Used
  <2>2. \A t \in Tasks : Idle(t)
    BY DEF Init, Idle
  <2>. QED
    BY <2>1, <2>2 DEF Init, Staying, Leaving, Listening, Doing, Quiet
<1>2. DeviceInv /\ ShapeInv /\ Inv /\ [Next]_vars => Inv'
  <2>. SUFFICES ASSUME DeviceInv, ShapeInv, Inv, [Next]_vars PROVE Inv'
    OBVIOUS
  <2>1. CASE UNCHANGED vars
    BY <2>1, SameStays DEF vars
  <2>2. CASE Next
    <3>1. departed' = (departed \/ Departs)
      BY <2>2 DEF Next
    <3>2. departed' \in BOOLEAN
      BY <3>1, Zenon
    <3>3. ASSUME ~departed' PROVE Staying'
      <4>1. Staying /\ \A t \in Tasks : ~LogOut(t)
        BY <3>1, <3>3 DEF Departs
      <4>2. ASSUME NEW n \in Subs, Deliver(n) PROVE Staying'
        BY <4>1, <4>2, SameStays DEF Deliver
      <4>. QED
        BY <2>2, <4>1, <4>2, UserStepStays, ProviderStepStays DEF Next, Move
    <3>. QED
      BY <3>2, <3>3
  <2>. QED
    BY <2>1, <2>2
<1>. QED
  BY <1>1, <1>2, DeviceInvariant, ShapeInvariant, PTL DEF Spec

\* As long as nobody logs out, overlapping refreshes leave no stream deaf: with
\* no call in flight every stream ever loaded has a live listener behind its
\* handle, and that of the current staff is the one of the current id.
THEOREM NoStreamGoesDeaf == Spec => []NeverDeaf
<1>1. DeviceInv /\ (~departed => Staying) => NeverDeaf
  <2>. SUFFICES ASSUME DeviceInv, Staying, Quiet, NEW k \in Kinds, Of(k) # {}
                PROVE  /\ handle[k] \in live
                       /\ k = "current" => created[handle[k]].who = currentId
    BY DEF NeverDeaf
  <2>1. handle[k] \in live
    BY DEF Staying, Quiet, Listening, Doing
  <2>2. handle[k] \in Of(k)
    BY <2>1, LiveHandle
  <2>. QED
    BY <2>1, <2>2 DEF Staying
<1>. QED
  BY <1>1, DeviceInvariant, StayingInvariant, PTL

-----------------------------------------------------------------------------
(* As long as no two calls overlap, the device follows its session *)

Lone == \A t, u \in Tasks : ~Idle(t) /\ ~Idle(u) => t = u

\* The live listeners that are newer than the first b.
Fresh(b) == {n \in live : n > b}

Ours(b) ==
    /\ handle["current"] \in Fresh(b)
    /\ created[handle["current"]].who = session
    /\ currentId = session

\* One call at a time: a handle names the only live listener of its stream, what
\* a logout has still to cancel is in its program, and the current staff member
\* is listened to unless the call in flight is about to see to it.  Listeners among
\* the first b, lost while calls overlapped, do not count.
Serial(b) ==
    /\ Lone
    /\ session = Nobody  => Quiet /\ Fresh(b) = {} /\ \A k \in Kinds : handle[k] = NoSub
    /\ session # Nobody  => savedId = session
    /\ \A k \in Kinds : \A n \in Of(k) \cap Fresh(b) : handle[k] = n
    /\ \A t \in Tasks :
         /\ Doing(t, "listen") => Of(Stream(t)) \cap Fresh(b) = {}
         /\ Doing(t, "set") => task[t].who = session
         /\ Listening(t, "current") => task[t].who = session /\ currentId = session
         /\ Leaving(t) =>
              \A k \in Kinds : Of(k) \cap Fresh(b) # {} => Has(task[t].todo, Step("clear", k))
         /\ Doing(t, "signOut") => \A k \in Kinds : handle[k] = NoSub
    /\ handle["current"] # NoSub =>
         Ours(b) \/ \E t \in Tasks : Leaving(t) \/ Listening(t, "current")
    /\ session # Nobody /\ handle["current"] = NoSub =>
         \E t \in Tasks :
            ~Idle(t) /\ (Leaving(t) \/ Ending(task[t].todo) = Step("listen", "current"))

LEMMA SameIsSerial ==
    ASSUME NEW b, Serial(b),
           UNCHANGED <<session, savedId, created, live, handle, currentId, task>>
    PROVE  Serial(b)'
BY DEF Fresh, Serial, Lone, Ours, Leaving, Idle, Quiet, Doing, Stream, Listening, Of, Used

\* Once the handles are dropped nothing is left to cancel.
LEMMA DoneCancelling ==
    ASSUME NEW p \in Seq(Steps), p # <<>>, Shaped(p), Head(p).do \in {"forget", "signOut"},
           NEW k
    PROVE  ~Has(p, Step("clear", k))
<1>. SUFFICES ASSUME NEW i \in 1..Len(p), p[i].do = "clear" PROVE FALSE
  BY DEF Has, Step
<1>1. Len(p) \in Nat /\ Len(p) > 0 /\ p[1] = Head(p)
  OBVIOUS
<1>2. \A n \in 1..Len(p)-1 : Linked(p[n], p[n+1])
  BY DEF Shaped, Chained
<1>3. i # 1
  BY <1>1
<1>4. 1 \in 1..Len(p)-1 /\ 1+1 = 2
  BY <1>1, <1>3
<1>5. Linked(p[1], p[2])
  BY <1>2, <1>4
<1>6. p[2].do = "signOut"
  BY <1>1, <1>5 DEF Linked
<1>7. i # 2
  BY <1>6
<1>8. 2 \in 1..Len(p)-1 /\ 2+1 = 3
  BY <1>1, <1>3, <1>7
<1>9. Linked(p[2], p[3])
  BY <1>2, <1>8
<1>. QED
  BY <1>6, <1>9 DEF Linked

LEMMA UserStepIsSerial ==
    ASSUME "current" \in Kinds, NEW b, DeviceInv, Serial(b), Lone', NEW t \in Tasks, UserStep(t)
    PROVE  Serial(b)'
<1>. DEFINE p == task'[t].todo
<1>1. /\ Idle(t) /\ p \in {Initialize, CurrentLoad, CheckInOut, Logout} /\ p # <<>>
      /\ \A u \in Tasks \ {t} : task'[u] = task[u]
      /\ UNCHANGED <<created, live, handle, currentId>>
  <2>1. task \in [Tasks -> [todo : Seq(Steps), who : Person]]
    BY DEF DeviceInv, TasksOK
  <2>2. Initialize # <<>> /\ CheckInOut # <<>> /\ Logout # <<>>
    BY InitializeIsLoad, CheckInOutIsShaped, LogoutIsShaped
  <2>. QED
    BY <2>1, <2>2 DEF UserStep, Login, Refresh, Press, LogOut, Begin
<1>2. Quiet /\ ~Idle(t)' /\ \A u \in Tasks \ {t} : Idle(u)'
  BY <1>1 DEF Lone, Idle, Quiet
<1>3. /\ ~Doing(t, "set")' /\ ~Doing(t, "listen")' /\ ~Doing(t, "signOut")'
      /\ Leaving(t)' => p = Logout
  BY <1>1, ProgramsStart DEF Leaving, Idle, Doing, Departure
<1>4. \A k : Of(k)' = Of(k)
  BY <1>1 DEF Of, Used
<1>5. \/ UNCHANGED <<session, savedId>> /\ session # Nobody
      \/ /\ session = Nobody /\ session' # Nobody /\ savedId' = session'
         /\ p = Initialize
  <2>1. task \in [Tasks -> [todo : Seq(Steps), who : Person]]
    BY DEF DeviceInv, TasksOK
  <2>. QED
    BY <2>1, DeviceAssumption DEF UserStep, Login, Refresh, Press, LogOut, Begin
<1>6. \A u \in Tasks :
         /\ ~Doing(u, "listen")' /\ ~Doing(u, "set")' /\ ~Doing(u, "signOut")'
         /\ ~Listening(u, "current")'
         /\ Leaving(u)' => \A k \in Kinds : Has(task'[u].todo, Step("clear", k))
  BY <1>1, <1>2, <1>3, LogoutIsShaped DEF Doing, Listening, Leaving
<1>7. ASSUME handle["current"] # NoSub PROVE Ours(b)' /\ session # Nobody
  <2>1. session # Nobody
    BY <1>7 DEF Serial
  <2>2. Ours(b)
    BY <1>2, <1>7 DEF Serial, Quiet, Leaving, Listening, Doing
  <2>. QED
    BY <1>1, <1>5, <2>1, <2>2 DEF Ours, Fresh
<1>8. ASSUME handle["current"] = NoSub
      PROVE  ~Idle(t)' /\ Ending(task'[t].todo) = Step("listen", "current")
  <2>1. session = Nobody
    BY <1>2, <1>8 DEF Serial, Quiet
  <2>. QED
    BY <1>2, <1>5, <2>1, InitializeIsLoad
<1>9. savedId' = session' /\ session' # Nobody
  BY <1>5 DEF Serial
<1>. QED
  BY <1>1, <1>4, <1>6, <1>7, <1>8, <1>9 DEF Serial, Fresh

\* A listener is of a stream this instance keeps.
LEMMA ListenersHaveStreams ==
    ASSUME DeviceInv, NEW n \in live
    PROVE  n \in 1..Used /\ created[n].stream \in Kinds /\ n \in Of(created[n].stream)
<1>1. n \in 1..Used /\ created \in Seq([stream : Kinds, who : Person])
  BY DEF DeviceInv, PeopleOK, ListenersOK
<1>2. created[n] \in [stream : Kinds, who : Person]
  BY <1>1, MembersOfSeq DEF Used
<1>. QED
  BY <1>1, <1>2 DEF Of

\* A logout cancels what its program names, and only then drops the handles and
\* ends the session.
LEMMA LeavingIsSerial ==
    ASSUME "current" \in Kinds, NEW b, DeviceInv, ShapeInv, Serial(b), Lone',
           NEW t \in Tasks, ProviderStep(t), Leaving(t)
    PROVE  Serial(b)'
<1>. DEFINE p == task[t].todo
            q == task'[t].todo
<1>1. /\ ~Idle(t) /\ Moves(t)
      /\ \A u \in Tasks \ {t} : task'[u] = task[u]
      /\ \A u \in Tasks \ {t} : Idle(u) /\ Idle(u)'
  BY ProviderMoves DEF Serial, Lone, Idle
<1>2. session # Nobody
  BY <1>1 DEF Serial, Quiet
<1>3. /\ p \in Seq(Steps) /\ p # <<>> /\ Head(p).do \in Departure
      /\ Tail(p) # <<>> => Linked(Head(p), Head(Tail(p))) /\ Ending(Tail(p)) = Ending(p)
      /\ Tail(p) = <<>> => Head(p).do \in {"listen", "done", "signOut"}
  BY <1>1, StepFacts
<1>4. q = Tail(p)
  BY <1>1, <1>3 DEF Moves, Doing, Departure
<1>5. \A a : Has(p, a) /\ a # Head(p) => Has(q, a)
  BY <1>3, <1>4, TailIsShaped DEF ShapeInv
<1>6. CASE Doing(t, "clear")
  <2>1. CancelStream(t)
    BY <1>6 DEF Doing, ProviderStep, CancelStream, LoadStaff, Listen, Resolve,
                SetCurrentStaffId, ServiceReturns, CheckDone, Forget, SignOut
  <2>2. /\ live' = live \ {handle[Stream(t)]}
        /\ UNCHANGED <<session, savedId, created, handle, currentId>>
    BY <2>1 DEF CancelStream, CancelHandle
  <2>. /\ Fresh(b)' = Fresh(b) \ {handle[Stream(t)]}
       /\ UNCHANGED <<session, savedId, created, handle, currentId>>
    BY <2>2 DEF Fresh
  <2>3. q # <<>> /\ Ending(q) = Ending(p) /\ Linked(Head(p), Head(q))
    BY <1>3, <1>4, <1>6 DEF Doing
  <2>4. ~Doing(t, "listen")' /\ ~Doing(t, "set")' /\ ~Doing(t, "signOut")' /\ Leaving(t)'
    BY <1>6, <2>3 DEF Linked, Doing, Leaving, Idle
  <2>5. \A k : Of(k)' = Of(k)
    BY <2>2 DEF Of, Used
  <2>6. ASSUME NEW k \in Kinds, Of(k) \cap Fresh(b)' # {} PROVE Has(q, Step("clear", k))
    <3>1. Has(p, Step("clear", k))
      BY <2>6 DEF Serial
    <3>2. Stream(t) # k
      BY <2>6 DEF Serial
    <3>3. Step("clear", k) # Head(p)
      BY <3>2 DEF Step, Stream
    <3>. QED
      BY <1>5, <3>1, <3>3
  <2>7. ~Idle(t)'
    BY <2>3 DEF Idle
  <2>8. \A u \in Tasks \ {t} : /\ ~Doing(u, "listen")' /\ ~Doing(u, "set")' /\ ~Doing(u, "signOut")'
                               /\ ~Leaving(u)' /\ ~Listening(u, "current")'
    BY <1>1 DEF Doing, Leaving, Listening
  <2>9. ~Listening(t, "current")'
    BY <2>4 DEF Listening
  <2>. QED
    BY <1>2, <2>2, <2>4, <2>5, <2>6, <2>7, <2>8, <2>9 DEF Serial
<1>7. ASSUME ~Doing(t, "clear") PROVE \A k \in Kinds : Of(k) \cap Fresh(b) = {}
  <2>1. Head(p).do \in {"forget", "signOut"}
    BY <1>1, <1>3, <1>7 DEF Departure, Doing
  <2>2. \A k \in Kinds : ~Has(p, Step("clear", k))
    BY <1>3, <2>1, DoneCancelling DEF ShapeInv
  <2>. QED
    BY <2>2 DEF Serial
<1>8. CASE Doing(t, "forget")
  <2>1. Forget(t)
    BY <1>8 DEF Doing, ProviderStep, CancelStream, LoadStaff, Listen, Resolve,
                SetCurrentStaffId, ServiceReturns, CheckDone, Forget, SignOut
  <2>2. /\ \A k \in Kinds : handle'[k] = NoSub
        /\ UNCHANGED <<session, savedId, created, live, currentId, Fresh(b)>>
    BY <2>1 DEF Forget, Fresh
  <2>3. q # <<>> /\ Ending(q) = Ending(p) /\ Linked(Head(p), Head(q))
    BY <1>3, <1>4, <1>8 DEF Doing
  <2>4. ~Doing(t, "listen")' /\ ~Doing(t, "set")' /\ Leaving(t)'
    BY <1>8, <2>3 DEF Linked, Doing, Leaving, Idle
  <2>5. \A k : Of(k)' = Of(k)
    BY <2>2 DEF Of, Used
  <2>6. \A k \in Kinds : Of(k)' \cap Fresh(b)' = {}
    BY <1>7, <1>8, <2>2, <2>5 DEF Doing
  <2>7. ~Idle(t)'
    BY <2>3 DEF Idle
  <2>8. \A u \in Tasks \ {t} : /\ ~Doing(u, "listen")' /\ ~Doing(u, "set")' /\ ~Doing(u, "signOut")'
                               /\ ~Leaving(u)' /\ ~Listening(u, "current")'
    BY <1>1 DEF Doing, Leaving, Listening
  <2>9. ~Listening(t, "current")'
    BY <2>4 DEF Listening
  <2>10. handle'["current"] # NoSub => Leaving(t)'
    BY <2>4
  <2>. QED
    BY <1>2, <2>2, <2>4, <2>6, <2>7, <2>8, <2>9, <2>10 DEF Serial
<1>9. CASE Doing(t, "signOut")
  <2>1. SignOut(t)
    BY <1>9 DEF Doing, ProviderStep, CancelStream, LoadStaff, Listen, Resolve,
                SetCurrentStaffId, ServiceReturns, CheckDone, Forget, SignOut
  <2>2. /\ session' = Nobody
        /\ UNCHANGED <<created, live, handle, Fresh(b)>>
    BY <2>1 DEF SignOut, Fresh
  <2>3. q = <<>>
    BY <1>3, <1>4, <1>9 DEF Linked, Doing
  <2>4. Fresh(b) = {}
    BY <1>7, <1>9, ListenersHaveStreams DEF Doing, Fresh
  <2>5. \A k \in Kinds : handle[k] = NoSub
    BY <1>9 DEF Serial
  <2>6. Quiet' /\ \A u \in Tasks : Idle(u)'
    BY <1>1, <2>3 DEF Quiet, Idle
  <2>7. \A u \in Tasks : /\ ~Doing(u, "listen")' /\ ~Doing(u, "set")' /\ ~Doing(u, "signOut")'
                         /\ ~Leaving(u)' /\ ~Listening(u, "current")'
    BY <2>6 DEF Doing, Leaving, Listening
  <2>8. handle'["current"] # NoSub => "current" \notin Kinds
    BY <2>2, <2>5
  <2>9. Fresh(b)' = {} /\ \A k \in Kinds : handle'[k] = NoSub
    BY <2>2, <2>4, <2>5
  <2>. QED
    BY <2>2, <2>6, <2>7, <2>8, <2>9 DEF Serial
<1>. QED
  BY <1>1, <1>3, <1>6, <1>8, <1>9 DEF Departure, Doing

\* Any other call: it listens to a stream only when nobody hears it, and to the
\* current staff member for whoever is logged in.
LEMMA OthersAreSerial ==
    ASSUME "current" \in Kinds, NEW b \in Nat, b <= Used, DeviceInv, ShapeInv, Serial(b),
           Lone', NEW t \in Tasks, ProviderStep(t), ~Leaving(t)
    PROVE  Serial(b)'
<1>. DEFINE p == task[t].todo
            q == task'[t].todo
            j == Stream(t)
<1>0. task \in [Tasks -> [todo : Seq(Steps), who : Person]]
  BY DEF DeviceInv, TasksOK
<1>1. /\ ~Idle(t) /\ Moves(t)
      /\ ~Doing(t, "resolve") => task'[t].who = task[t].who
      /\ \A u \in Tasks \ {t} : task'[u] = task[u]
      /\ \A u \in Tasks \ {t} : Idle(u) /\ Idle(u)'
  BY ProviderMoves DEF Serial, Lone, Idle
<1>2. session # Nobody /\ savedId = session
  BY <1>1 DEF Serial, Quiet
<1>3. /\ p \in Seq(Steps) /\ p # <<>> /\ Sound(Head(p)) /\ Head(p).do \notin Departure
      /\ Head(p).do = "service" => Ending(p).do = "done"
      /\ Tail(p) # <<>> => Linked(Head(p), Head(Tail(p))) /\ Ending(Tail(p)) = Ending(p)
      /\ Tail(p) = <<>> => Head(p).do \in {"listen", "done", "signOut"} /\ Ending(p) = Head(p)
  BY <1>1, StepFacts, TailFacts
<1>4. UNCHANGED <<session, savedId>>
  BY Cancelling DEF Listen
<1>5. q = Tail(p) \/ (q = <<>> /\ (Doing(t, "set") \/ Doing(t, "service")))
  BY <1>1 DEF Moves
<1>6. ~Leaving(t)' /\ ~Doing(t, "signOut")'
  BY <1>1, <1>3, <1>5 DEF Leaving, Idle, Doing, Linked, Departure
<1>7. \A u \in Tasks \ {t} : /\ ~Doing(u, "listen")' /\ ~Doing(u, "set")' /\ ~Doing(u, "signOut")'
                             /\ ~Leaving(u)' /\ ~Listening(u, "current")'
  BY <1>1 DEF Doing, Leaving, Listening
<1>8. Doing(t, "set")' => task'[t].who = session'
  <2>. SUFFICES ASSUME Doing(t, "set")' PROVE task'[t].who = savedId
    BY <1>2, <1>4
  <2>1. q = Tail(p) /\ q # <<>> /\ Head(q).do = "set"
    BY <1>5 DEF Doing, Idle
  <2>2. Doing(t, "resolve")
    BY <1>1, <1>3, <2>1 DEF Linked, Doing
  <2>3. Resolve(t)
    BY <2>2 DEF Doing, ProviderStep, CancelStream, LoadStaff, Listen, SetCurrentStaffId,
                ServiceReturns, CheckDone, Forget, SignOut
  <2>. QED
    BY <1>0, <2>3 DEF Resolve
<1>9. \A u \in Tasks : ~Leaving(u) /\ (Listening(u, "current") => u = t)
  BY <1>1 DEF Listening, Doing, Leaving
<1>10. CASE Listen(t)
  <2>1. /\ Doing(t, "listen") /\ handle' = [handle EXCEPT ![j] = Used + 1]
        /\ live' = live \cup {Used + 1}
        /\ created' = Append(created, [stream |-> j, who |-> task[t].who])
        /\ UNCHANGED currentId
    BY <1>10 DEF Listen
  <2>2. j \in Kinds
    BY <1>1, <2>1, TodoIsSteps DEF Doing, Stream, Steps
  <2>3. Of(j) \cap Fresh(b) = {} /\ (j = "current" => task[t].who = session /\ currentId = session)
    BY <2>1 DEF Serial, Listening
  <2>4. Listening(t, "current") <=> j = "current"
    BY <2>1 DEF Listening
  <2>5. q = Tail(p)
    BY <1>5, <2>1 DEF Doing
  <2>6. ~Doing(t, "listen")' /\ ~Doing(t, "set")' /\ ~Listening(t, "current")'
    BY <1>1, <1>3, <2>1, <2>5 DEF Doing, Listening, Idle, Linked
  <2>7. j = Head(p).stream
    BY DEF Stream
  <2>. HIDE DEF j
  <2>8. /\ Used \in Nat /\ Used' = Used + 1 /\ live \subseteq 1..Used
        /\ \A n \in 1..Used : created'[n] = created[n]
        /\ created'[Used + 1] = [stream |-> j, who |-> task[t].who]
        /\ Fresh(b)' = Fresh(b) \cup {Used + 1}
    BY <2>1 DEF DeviceInv, ListenersOK, PeopleOK, Used, Fresh
  <2>9. \A k \in Kinds : \A n \in Of(k)' :
           (n \in Of(k) /\ n # Used + 1) \/ (n = Used + 1 /\ k = j)
    BY <2>8 DEF Of
  <2>10. handle'[j] = Used + 1 /\ \A k \in Kinds \ {j} : handle'[k] = handle[k]
    BY <2>1, <2>2 DEF DeviceInv, HandlesOK
  <2>11. ASSUME NEW k \in Kinds, NEW n \in Of(k)' \cap Fresh(b)' PROVE handle'[k] = n
    <3>1. n = Used + 1 \/ n \in Of(k) \cap Fresh(b)
      BY <2>8, <2>9
    <3>2. CASE k = j
      <4>1. n = Used + 1
        BY <2>3, <3>1, <3>2
      <4>. QED
        BY <2>10, <3>2, <4>1
    <3>3. CASE k # j
      <4>1. n \in Of(k) \cap Fresh(b)
        BY <2>9, <3>1, <3>3
      <4>. QED
        BY <2>10, <3>3, <4>1 DEF Serial
    <3>. QED
      BY <3>2, <3>3
  <2>12. CASE j = "current"
    <3>0. handle'["current"] = Used + 1 /\ created'[Used + 1].who = task[t].who
      BY <2>8, <2>10, <2>12
    <3>1. Ours(b)'
      <4>1. handle'["current"] \in Fresh(b)'
        BY <2>8, <3>0
      <4>2. created'[handle'["current"]].who = session' /\ currentId' = session'
        BY <1>4, <2>1, <2>3, <2>12, <3>0
      <4>. QED
        BY <4>1, <4>2 DEF Ours
    <3>2. handle'["current"] # NoSub
      BY <2>8, <2>10, <2>12, DeviceAssumption
    <3>. QED
      BY <1>2, <1>4, <1>6, <1>7, <1>8, <2>6, <2>11, <3>1, <3>2 DEF Serial
  <2>13. CASE j # "current"
    <3>1. handle'["current"] = handle["current"]
      BY <2>10, <2>13
    <3>2. ASSUME handle["current"] # NoSub PROVE Ours(b)'
      <4>1. Ours(b)
        BY <1>9, <2>4, <2>13, <3>2 DEF Serial
      <4>2. Ours(b)'
        <5>1. handle["current"] \in Fresh(b)' /\ handle["current"] \in 1..Used
          BY <2>8, <4>1 DEF Ours, Fresh
        <5>2. created'[handle["current"]].who = session' /\ currentId' = session'
          BY <1>4, <2>1, <2>8, <4>1, <5>1 DEF Ours
        <5>. QED
          BY <3>1, <5>1, <5>2 DEF Ours
      <4>. QED
        BY <4>2
    <3>3. ASSUME handle["current"] = NoSub
          PROVE  ~Idle(t)' /\ Ending(q) = Step("listen", "current")
      <4>1. Ending(p) = Step("listen", "current")
        BY <1>1, <1>2, <1>9, <3>3 DEF Serial
      <4>2. Ending(p) # Head(p)
        BY <2>7, <2>13, <4>1 DEF Step
      <4>. QED
        BY <1>3, <2>5, <4>1, <4>2 DEF Idle
    <3>. QED
      BY <1>2, <1>4, <1>6, <1>7, <1>8, <2>6, <2>11, <3>1, <3>2, <3>3 DEF Serial
  <2>. QED
    BY <2>12, <2>13
<1>11. CASE ~Listen(t)
  <2>1. UNCHANGED <<created, handle>>
    BY <1>11, Cancelling
  <2>2. \A k : Of(k)' = Of(k)
    BY <2>1 DEF Of, Used
  <2>3. ~Doing(t, "listen")
    BY <1>11 DEF Doing, ProviderStep, CancelStream, LoadStaff, Resolve, SetCurrentStaffId,
                 ServiceReturns, CheckDone, Forget, SignOut
  <2>4. live' \subseteq live /\ Fresh(b)' \subseteq Fresh(b)
    BY <1>11, Cancelling DEF Fresh
  <2>5. \A k \in Kinds : \A n \in Of(k)' \cap Fresh(b)' : handle'[k] = n
    BY <2>1, <2>2, <2>4 DEF Serial
  <2>6. ASSUME Doing(t, "listen")'
        PROVE  /\ Stream(t)' = j /\ j \in Kinds
               /\ Doing(t, "cancel") \/ Doing(t, "loadStaff") \/ Doing(t, "set")
               /\ Fresh(b)' = Fresh(b) \ {handle[j]}
               /\ j = "current" => Doing(t, "set")
    <3>1. q = Tail(p) /\ q # <<>> /\ Head(q).do = "listen"
      BY <1>5, <2>6 DEF Doing, Idle
    <3>2. Head(p).do \in {"cancel", "loadStaff", "set"} /\ Head(q).stream = Head(p).stream
      BY <1>3, <3>1 DEF Linked
    <3>3. Head(q) \in Steps
      BY <1>3, <3>1
    <3>4. Fresh(b)' = Fresh(b) \ {handle[j]}
      BY <1>1, <1>11, <3>1, <3>2, Cancelling DEF Doing, Fresh
    <3>. QED
      BY <1>1, <1>3, <3>1, <3>2, <3>3, <3>4 DEF Doing, Stream, Steps, Sound
  <2>7. Doing(t, "listen")' => (Of(Stream(t)) \cap Fresh(b))' = {}
    <3>. SUFFICES ASSUME Doing(t, "listen")' PROVE Of(j) \cap Fresh(b)' = {}
      BY <2>2, <2>6
    <3>. QED
      BY <2>6 DEF Serial
  <2>8. currentId' = currentId \/ currentId' = session
    BY DEF Serial, ProviderStep, CancelStream, LoadStaff, Listen, Resolve, SetCurrentStaffId,
           ServiceReturns, CheckDone, Forget, SignOut
  <2>9. Listening(t, "current")' => task'[t].who = session' /\ currentId' = session'
    <3>. SUFFICES ASSUME Listening(t, "current")'
                  PROVE  task'[t].who = session /\ currentId' = session
      BY <1>4
    <3>1. Doing(t, "set") /\ q # <<>>
      BY <2>6 DEF Listening, Doing, Idle
    <3>2. SetCurrentStaffId(t) /\ ~Doing(t, "resolve")
      BY <3>1 DEF Doing, ProviderStep, CancelStream, LoadStaff, Listen, Resolve,
                  ServiceReturns, CheckDone, Forget, SignOut
    <3>3. ~AlreadySubscribed(t)
      BY <1>0, <3>1, <3>2 DEF SetCurrentStaffId
    <3>4. currentId' = task[t].who /\ task[t].who = session
      BY <3>1, <3>2, <3>3 DEF SetCurrentStaffId, Serial
    <3>. QED
      BY <1>1, <3>2, <3>4
  <2>10. ASSUME handle["current"] # NoSub PROVE Ours(b)' \/ Listening(t, "current")'
    <3>1. Ours(b)
      BY <1>9, <2>3, <2>10 DEF Serial, Listening
    <3>2. currentId' = session'
      BY <1>4, <2>8, <3>1 DEF Ours
    <3>3. CASE handle["current"] \in Fresh(b)'
      BY <1>4, <2>1, <3>1, <3>2, <3>3 DEF Ours
    <3>4. CASE handle["current"] \notin Fresh(b)'
      <4>1. /\ handle["current"] = handle[j] /\ q = Tail(p)
            /\ Head(p).do \in {"cancel", "loadStaff", "set"}
        BY <1>1, <1>11, <3>1, <3>4, Cancelling DEF Ours, Doing, Fresh
      <4>2. Tail(p) # <<>> /\ Head(q).do = "listen"
        BY <1>3, <4>1 DEF Linked
      <4>3. Doing(t, "listen")'
        BY <4>1, <4>2 DEF Doing, Idle
      <4>4. j = "current"
        BY <2>6, <3>1, <4>1, <4>3, HandlesDiffer DEF Ours, Fresh
      <4>. QED
        BY <2>6, <4>3, <4>4 DEF Listening
    <3>. QED
      BY <3>3, <3>4
  <2>11. ASSUME handle["current"] = NoSub
         PROVE  ~Idle(t)' /\ Ending(q) = Step("listen", "current")
    <3>1. Ending(p) = Step("listen", "current")
      BY <1>1, <1>2, <1>9, <2>11 DEF Serial
    <3>2. q = Tail(p)
      <4>1. ~Doing(t, "service")
        BY <1>3, <3>1 DEF Doing, Step
      <4>2. CASE Doing(t, "set")
        <5>1. SetCurrentStaffId(t)
          BY <4>2 DEF Doing, ProviderStep, CancelStream, LoadStaff, Listen, Resolve,
                      ServiceReturns, CheckDone, Forget, SignOut
        <5>2. Continue(t)
          BY <2>11, <5>1 DEF SetCurrentStaffId, AlreadySubscribed
        <5>. QED
          BY <1>0, <5>2 DEF Continue
      <4>. QED
        BY <1>5, <4>1, <4>2
    <3>3. Tail(p) # <<>>
      BY <1>1, <1>3, <2>3, <3>1 DEF Doing, Step
    <3>. QED
      BY <1>3, <3>1, <3>2, <3>3 DEF Idle
  <2>. QED
    BY <1>2, <1>4, <1>6, <1>7, <1>8, <2>1, <2>5, <2>7, <2>9, <2>10, <2>11 DEF Serial
<1>. QED
  BY <1>10, <1>11

LEMMA SerialInvariant ==
    ASSUME "current" \in Kept
    PROVE  Spec => [](~overlapped => Serial(0))
<1>. DEFINE Inv == overlapped \in BOOLEAN /\ (~overlapped => Serial(0))
<1>0. "current" \in Kinds
  BY DEF Kinds, AllStreams, ToSet
<1>1. Init => Inv
  <2>. SUFFICES ASSUME Init PROVE Inv
    OBVIOUS
  <2>1. \A t \in Tasks : Idle(t)
    BY DEF Init, Idle
  <2>. QED
    BY <1>0, <2>1 DEF Init, Serial, Lone, Ours, Fresh, Leaving, Listening, Doing, Quiet
<1>2. DeviceInv /\ ShapeInv /\ Inv /\ [Next]_vars => Inv'
  <2>. SUFFICES ASSUME DeviceInv, ShapeInv, Inv, [Next]_vars PROVE Inv'
    OBVIOUS
  <2>0. 0 \in Nat /\ 0 <= Used
    BY DEF DeviceInv, ListenersOK, Used
  <2>1. CASE UNCHANGED vars
    BY <2>1, SameIsSerial DEF vars
  <2>2. CASE Next
    <3>1. overlapped' = (overlapped \/ \E t, u \in Tasks : t # u /\ ~Idle(t)' /\ ~Idle(u)')
      BY <2>2 DEF Next
    <3>2. overlapped' \in BOOLEAN
      BY <3>1, Zenon
    <3>3. ASSUME ~overlapped' PROVE Serial(0)'
      <4>1. Serial(0) /\ Lone'
        BY <3>1, <3>3 DEF Lone
      <4>2. ASSUME NEW n \in Subs, Deliver(n) PROVE Serial(0)'
        BY <4>1, <4>2, SameIsSerial DEF Deliver
      <4>. QED
        BY <1>0, <2>0, <2>2, <4>1, <4>2, UserStepIsSerial, LeavingIsSerial, OthersAreSerial
        DEF Next, Move
    <3>. QED
      BY <3>2, <3>3
  <2>. QED
    BY <2>1, <2>2
<1>. QED
  BY <1>1, <1>2, DeviceInvariant, ShapeInvariant, PTL DEF Spec

\* When this instance keeps the stream of the current staff member and calls do
\* not overlap, a finished initialize listens to whoever is logged in, no stream
\* has a live listener its handle does not name, and none outlives the session.
THEOREM DeviceFollowsSession ==
    ASSUME "current" \in Kept
    PROVE  Spec => []FollowsSession
<1>1. DeviceInv /\ (~overlapped => Serial(0)) => FollowsSession
  <2>1. ASSUME DeviceInv PROVE Fresh(0) = live
    <3>1. live \subseteq 1..Used /\ Used \in Nat
      BY <2>1 DEF DeviceInv, PeopleOK, ListenersOK, Used
    <3>2. \A n \in live : n > 0
      BY <3>1
    <3>. QED
      BY <3>2, Zenon DEF Fresh
  <2>. QED
    BY <2>1 DEF FollowsSession, Serial, Quiet, Ours, Leaving, Listening, Doing
<1>. QED
  BY <1>1, DeviceInvariant, SerialInvariant, PTL

\* A logout that begins with no call in flight starts afresh.
LEMMA LogoutStartsAfresh ==
    ASSUME DeviceInv, session # Nobody => savedId = session, Quiet,
           NEW t \in Tasks, LogOut(t)
    PROVE  Serial(Used)'
<1>1. /\ task' = [task EXCEPT ![t] = [todo |-> Logout, who |-> Nobody]]
      /\ session # Nobody
      /\ UNCHANGED <<session, savedId, created, live, handle, currentId>>
  BY DEF LogOut, Begin
<1>2. /\ task \in [Tasks -> [todo : Seq(Steps), who : Person]]
      /\ live \subseteq 1..Used /\ Used \in Nat
  BY DEF DeviceInv, TasksOK, PeopleOK, ListenersOK, Used
<1>3. Used' = Used /\ Fresh(Used)' = {}
  <2>1. Used' = Used /\ live' = live
    BY <1>1 DEF Used
  <2>2. \A n \in live : ~(n > Used)
    BY <1>2
  <2>. QED
    BY <2>1, <2>2, Zenon DEF Fresh
<1>4. task'[t].todo = Logout /\ \A u \in Tasks \ {t} : Idle(u)'
  BY <1>1, <1>2 DEF Quiet, Idle
<1>5. ~Doing(t, "listen")' /\ ~Doing(t, "set")' /\ ~Doing(t, "signOut")' /\ Leaving(t)'
  BY <1>4, ProgramsStart, LogoutIsShaped DEF Doing, Leaving, Idle, Departure
<1>6. \A u \in Tasks : /\ ~Doing(u, "listen")' /\ ~Doing(u, "set")' /\ ~Doing(u, "signOut")'
                       /\ ~Listening(u, "current")'
  BY <1>4, <1>5 DEF Doing, Listening
<1>7. Lone'
  BY <1>4 DEF Lone
<1>8. ~Idle(t)'
  BY <1>5 DEF Leaving
<1>. QED
  BY <1>1, <1>3, <1>5, <1>6, <1>7, <1>8 DEF Serial

Recovering ==
    /\ session # Nobody => savedId = session
    /\ since \in [overlapped : BOOLEAN, created : Nat] /\ since.created <= Used
    /\ ~since.overlapped => Serial(since.created)

LEMMA RecoveringInvariant ==
    ASSUME "current" \in Kept
    PROVE  Spec => []Recovering
<1>0. "current" \in Kinds
  BY DEF Kinds, AllStreams, ToSet
<1>1. Init => Recovering
  <2>. SUFFICES ASSUME Init PROVE Recovering
    OBVIOUS
  <2>1. \A t \in Tasks : Idle(t)
    BY DEF Init, Idle
  <2>2. since = [overlapped |-> FALSE, created |-> 0] /\ Used = 0 /\ session = Nobody
    BY DEF Init, Used
  <2>3. Serial(0)
    BY <1>0, <2>1 DEF Init, Serial, Lone, Ours, Fresh, Leaving, Listening, Doing, Quiet
  <2>. QED
    BY <2>2, <2>3 DEF Recovering
<1>2. DeviceInv /\ ShapeInv /\ Recovering /\ [Next]_vars => Recovering'
  <2>. SUFFICES ASSUME DeviceInv, ShapeInv, Recovering, [Next]_vars PROVE Recovering'
    OBVIOUS
  <2>0. Used \in Nat
    BY DEF DeviceInv, ListenersOK, Used
  <2>1. CASE UNCHANGED vars
    <3>1. since' = since /\ Used' = Used /\ UNCHANGED <<session, savedId>>
      BY <2>1 DEF vars, Used
    <3>2. Serial(since.created) => Serial(since.created)'
      BY <2>1, <3>1, SameIsSerial DEF vars
    <3>. QED
      BY <3>1, <3>2 DEF Recovering
  <2>2. CASE Next
    <3>. DEFINE Two == \E t, u \in Tasks : t # u /\ ~Idle(t)' /\ ~Idle(u)'
    <3>1. since' = IF Quiet /\ Departs THEN [overlapped |-> FALSE, created |-> Used]
                   ELSE [since EXCEPT !.overlapped = @ \/ Two]
      BY <2>2 DEF Next
    <3>2. session' # Nobody => savedId' = session'
      BY <2>2 DEF Recovering, Next, Move, UserStep, ProviderStep, Deliver, Login, Refresh, Press,
             LogOut, CancelStream, LoadStaff, Listen, Resolve, SetCurrentStaffId, ServiceReturns,
             CheckDone, Forget, SignOut
    <3>3. Used' \in Nat /\ Used' >= Used
      <4>1. CASE \E t \in Tasks : Listen(t)
        BY <2>0, <4>1 DEF DeviceInv, ListenersOK, Listen, Used
      <4>2. CASE UNCHANGED created
        BY <2>0, <4>2 DEF Used
      <4>. QED
        BY <2>2, <4>1, <4>2 DEF Next, Move, UserStep, ProviderStep, Deliver, Login, Refresh, Press,
               LogOut, CancelStream, LoadStaff, Resolve, SetCurrentStaffId, ServiceReturns,
               CheckDone, Forget, SignOut
    <3>4. CASE Quiet /\ Departs
      <4>1. PICK t \in Tasks : LogOut(t)
        BY <3>4 DEF Departs
      <4>2. Serial(Used)'
        BY <3>4, <4>1, LogoutStartsAfresh DEF Recovering
      <4>3. since' = [overlapped |-> FALSE, created |-> Used] /\ Used' = Used
        BY <3>1, <3>4, <4>1 DEF LogOut, Used
      <4>. QED
        BY <2>0, <3>2, <4>2, <4>3 DEF Recovering
    <3>5. CASE ~(Quiet /\ Departs)
      <4>. DEFINE b == since.created
      <4>1. /\ since' \in [overlapped : BOOLEAN, created : Nat] /\ since'.created = b
            /\ ~since'.overlapped => ~since.overlapped /\ ~Two
        <5>. HIDE DEF Two
        <5>1. since \in [overlapped : BOOLEAN, created : Nat]
          BY DEF Recovering
        <5>2. since' = [since EXCEPT !.overlapped = @ \/ Two]
          BY <3>1, <3>5
        <5>. QED
          BY <5>1, <5>2, Zenon
      <4>2. b \in Nat /\ b <= Used
        BY DEF Recovering
      <4>3. ASSUME ~since'.overlapped PROVE Serial(b)'
        <5>1. Serial(b) /\ Lone'
          BY <4>1, <4>3 DEF Recovering, Lone
        <5>. HIDE DEF b
        <5>2. PICK c \in Nat : c = b
          BY <4>2
        <5>3. ASSUME NEW n \in Subs, Deliver(n) PROVE Serial(c)'
          BY <5>1, <5>2, <5>3, SameIsSerial DEF Deliver
        <5>4. Serial(c)'
          BY <1>0, <2>2, <4>2, <5>1, <5>2, <5>3, UserStepIsSerial, LeavingIsSerial, OthersAreSerial
          DEF Next, Move
        <5>5. c = b'
          BY <4>1, <5>2 DEF b
        <5>. QED
          BY <5>4, <5>5
      <4>. QED
        BY <2>0, <3>2, <3>3, <4>1, <4>2, <4>3 DEF Recovering
    <3>. QED
      BY <3>4, <3>5
  <2>. QED
    BY <2>1, <2>2
<1>. QED
  BY <1>1, <1>2, DeviceInvariant, ShapeInvariant, PTL DEF Spec

\* When this instance keeps the stream of the current staff member: from a logout
\* on that overlapped no call, and until calls overlap again, no listener is lost
\* and the device follows its session, whatever was lost before.
THEOREM LogoutsRecover ==
    ASSUME "current" \in Kept
    PROVE  Spec => []LogoutRecovers
<1>1. Recovering => LogoutRecovers
  BY DEF LogoutRecovers, Recovering, Serial, Fresh, Quiet, Ours, Leaving, Listening, Doing
<1>. QED
  BY <1>1, RecoveringInvariant, PTL
================================================================================

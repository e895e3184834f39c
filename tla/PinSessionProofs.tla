--------------------------- MODULE PinSessionProofs ---------------------------
(***************************************************************************)
(* What TLAPS proves of signing in with a PIN, for any staff, roles,       *)
(* number of screens and length of a PIN.                                  *)
(***************************************************************************)
EXTENDS PinSession, TLAPS

-----------------------------------------------------------------------------
(* The inductive invariant *)

Writing(x) == screen[x].stage \in {"id", "name", "role", "phone"}

\* A screen that verifies keeps keys out while it is shown, and knows for whom.
ScreenOK(x) ==
    /\ screen[x].stage # "idle" /\ screen[x].mounted => screen[x].loading
    /\ screen[x].stage # "idle" \/ screen[x].mounted => screen[x].who \in Staff
    /\ screen[x].stage = "auth" \/ Writing(x) => screen[x].role \in Roles

\* One screen is shown at a time, and none behind a dashboard.
OneShown ==
    /\ \A x, y \in Screens : screen[x].mounted /\ screen[y].mounted => x = y
    /\ dashboard.page # "login" => \A x \in Screens : ~screen[x].mounted
    /\ dashboard.page = "login" => dashboard = NoPage

\* Unless one was left, the screen that writes is the one that is shown, and
\* what it has written so far stands.
WrittenSoFar(x) ==
    /\ Writing(x) => screen[x].mounted
    /\ screen[x].stage \in {"name", "role", "phone"} => prefs["id"] = screen[x].who
    /\ screen[x].stage \in {"role", "phone"} => prefs["name"] = screen[x].who
    /\ screen[x].stage = "phone" => prefs["role"] = screen[x].role

LoginStands ==
    dashboard.page # "login" =>
        /\ dashboard.login \in Roles
        /\ \A p \in {"id", "name", "phone"} : prefs[p] = dashboard.who
        /\ prefs["role"] = dashboard.login
        /\ dashboard.page = "open" => dashboard.role = dashboard.login
        /\ dashboard.page \in {"open", "fallback"} => dashboard.home = dashboard.login

SessionInv ==
    /\ TypeOK /\ OneShown
    /\ \A x \in Screens : ScreenOK(x)
    /\ ~left => LoginStands /\ \A x \in Screens : WrittenSoFar(x)

LEMMA ClosedType ==
    /\ Closed \in ScreenType
    /\ Closed.stage = "idle" /\ Closed.mounted = FALSE /\ Closed.who = None /\ Len(Closed.pin) = 0
BY DEF Closed, ScreenType, Stages, Person, Role

\* What an update of one screen, or of some, keeps.
LEMMA UpdateScreen ==
    ASSUME ScreensOK, NEW x \in Screens, NEW r \in ScreenType, Len(r.pin) <= PinLength,
           screen' = [screen EXCEPT ![x] = r]
    PROVE  ScreensOK' /\ screen'[x] = r /\ \A y \in Screens \ {x} : screen'[y] = screen[y]
BY DEF ScreensOK

\* What the keys make of a PIN.
LEMMA KeyedPin ==
    ASSUME NEW S, NEW n \in Nat, NEW pin \in Seq(S), Len(pin) <= n, NEW d \in S
    PROVE  /\ Len(pin) < n => Append(pin, d) \in Seq(S) /\ Len(Append(pin, d)) <= n
           /\ pin # <<>> => /\ SubSeq(pin, 1, Len(pin) - 1) \in Seq(S)
                            /\ Len(SubSeq(pin, 1, Len(pin) - 1)) <= n
  OBVIOUS

LEMMA InitSession == Init => SessionInv
<1>. SUFFICES ASSUME Init PROVE SessionInv
  OBVIOUS
<1>. USE ClosedType
<1>1. TypeOK
  <2>1. AccountsOK
    BY DEF Init, AccountsOK
  <2>2. PrefsOK
    BY DEF Init, PrefsOK, Person, Role
  <2>3. DashboardOK
    BY DEF Init, DashboardOK, NoPage, Person, Role
  <2>4. ScreensOK
    BY PinAssumption DEF PinAssumption, Init, ScreensOK
  <2>. QED
    BY <2>1, <2>2, <2>3, <2>4 DEF TypeOK, Init
<1>2. OneShown /\ LoginStands
  BY DEF Init, OneShown, NoPage, LoginStands
<1>3. \A x \in Screens : ScreenOK(x) /\ WrittenSoFar(x)
  BY DEF Init, ScreenOK, WrittenSoFar, Writing
<1>. QED
  BY <1>1, <1>2, <1>3 DEF SessionInv

-----------------------------------------------------------------------------
(* The keypad *)

\* Keys touch a screen that does not verify, and no preference.
KeyStep(x) ==
    \/ \E s \in Staff : OpenScreen(x, s)
    \/ \E right \in BOOLEAN : OnNumberTap(x, right)
    \/ OnBackspace(x) \/ DebounceEnds(x) \/ Leave(x)

\* What a key, the timer or leaving makes of a screen, r.
KeyResult(x, r) ==
    /\ Len(r.pin) <= PinLength /\ screen' = [screen EXCEPT ![x] = r]
    /\ account' = account /\ signedIn' = signedIn /\ prefs' = prefs /\ dashboard' = dashboard
    /\ left' \in BOOLEAN
    /\ r.mounted => dashboard = NoPage /\ \A y \in Screens \ {x} : ~screen[y].mounted
    /\ r.stage # "idle" /\ r.mounted => r.loading
    /\ r.stage # "idle" \/ r.mounted => r.who \in Staff
    /\ r.stage \notin {"idle", "query"} =>
          r.stage = screen[x].stage /\ r.who = screen[x].who /\ r.role = screen[x].role
    /\ ~left' => ~left /\ (r.stage \notin {"idle", "query", "auth"} => r.mounted)
    /\ screen[x].stage # "idle" /\ r.stage # "idle" =>
          r.pin = screen[x].pin /\ r.stage = screen[x].stage

LEMMA KeyScreen ==
    ASSUME SessionInv, NEW x \in Screens, KeyStep(x)
    PROVE  \E r \in ScreenType : KeyResult(x, r)
<1>0. /\ screen[x] \in ScreenType /\ screen \in [Screens -> ScreenType]
      /\ Len(screen[x].pin) <= PinLength /\ left \in BOOLEAN /\ ScreenOK(x) /\ OneShown
      /\ ~left => WrittenSoFar(x)
  BY DEF SessionInv, TypeOK, ScreensOK
<1>1. CASE \E s \in Staff : OpenScreen(x, s)
  <2>1. PICK s \in Staff : OpenScreen(x, s)
    BY <1>1
  <2>. DEFINE r == [Closed EXCEPT !.mounted = TRUE, !.who = s]
  <2>2. /\ r \in ScreenType /\ r.stage = "idle" /\ r.who = s /\ Len(r.pin) <= PinLength
    <3>1. r \in ScreenType /\ r.stage = "idle" /\ r.who = s /\ r.pin = Closed.pin
      BY ClosedType DEF ScreenType, Person
    <3>. HIDE DEF r
    <3>. QED
      BY <3>1, ClosedType, PinAssumption DEF PinAssumption
  <2>3. screen' = [screen EXCEPT ![x] = r]
    BY <2>1 DEF OpenScreen
  <2>. HIDE DEF r
  <2>4. left' = left /\ dashboard = NoPage /\ screen[x] = Closed
        /\ \A y \in Screens \ {x} : ~screen[y].mounted
    BY <2>1 DEF OpenScreen
  <2>5. account' = account /\ signedIn' = signedIn /\ prefs' = prefs /\ dashboard' = dashboard
    BY <2>1 DEF OpenScreen
  <2>6. KeyResult(x, r)
    BY <1>0, <2>2, <2>3, <2>4, <2>5 DEF KeyResult
  <2>. QED
    BY <2>2, <2>6
<1>2. CASE \E right \in BOOLEAN : OnNumberTap(x, right)
  <2>1. PICK right \in BOOLEAN : OnNumberTap(x, right)
    BY <1>2
  <2>. DEFINE pin == IF Len(screen[x].pin) < PinLength THEN Append(screen[x].pin, right)
                                                        ELSE screen[x].pin
              submits == pin # screen[x].pin /\ Len(pin) = PinLength
              loads == screen[x].loading \/ submits
              stage == IF submits THEN "query" ELSE screen[x].stage
              r == [screen[x] EXCEPT !.pin = pin, !.locked = TRUE, !.loading = loads,
                                     !.stage = stage]
  <2>2. pin \in Seq(BOOLEAN) /\ Len(pin) <= PinLength
    <3>1. screen[x].pin \in Seq(BOOLEAN) /\ PinLength \in Nat
      BY <1>0, PinAssumption DEF PinAssumption, ScreenType
    <3>. QED
      BY <1>0, <3>1, KeyedPin
  <2>3. loads \in BOOLEAN /\ stage \in Stages
    BY <1>0 DEF ScreenType, Stages
  <2>4. screen' = [screen EXCEPT ![x] = r]
    BY <1>0, <2>1 DEF OnNumberTap, ScreenType
  <2>5. screen[x].mounted /\ ~screen[x].loading
    BY <2>1 DEF OnNumberTap, CanProcessInput
  <2>6. screen[x].stage = "idle" /\ (stage # "idle" => loads) /\ stage \in {"idle", "query"}
    BY <1>0, <2>5 DEF ScreenOK
  <2>. HIDE DEF pin, submits, loads, stage
  <2>7. r \in ScreenType /\ r.stage = stage /\ r.loading = loads /\ r.pin = pin
        /\ r.mounted = screen[x].mounted /\ r.who = screen[x].who
    BY <1>0, <2>2, <2>3 DEF ScreenType
  <2>. HIDE DEF r
  <2>8. UNCHANGED <<account, signedIn, prefs, dashboard, left>>
    BY <2>1 DEF OnNumberTap
  <2>9. dashboard = NoPage /\ (\A y \in Screens \ {x} : ~screen[y].mounted) /\ r.who \in Staff
    BY <1>0, <2>5, <2>7 DEF OneShown, ScreenOK
  <2>10. KeyResult(x, r)
    BY <1>0, <2>2, <2>4, <2>6, <2>7, <2>8, <2>9 DEF KeyResult
  <2>. QED
    BY <2>7, <2>10
<1>3. CASE OnBackspace(x)
  <2>. DEFINE pin == IF screen[x].pin = <<>> THEN screen[x].pin
                     ELSE SubSeq(screen[x].pin, 1, Len(screen[x].pin) - 1)
              r == [screen[x] EXCEPT !.locked = TRUE, !.pin = pin]
  <2>1. pin \in Seq(BOOLEAN) /\ Len(pin) <= PinLength
    <3>1. screen[x].pin \in Seq(BOOLEAN) /\ PinLength \in Nat
      BY <1>0, PinAssumption DEF PinAssumption, ScreenType
    <3>. QED
      BY <1>0, <3>1, KeyedPin, TRUE \in BOOLEAN
  <2>2. screen' = [screen EXCEPT ![x] = r]
    BY <1>0, <1>3 DEF OnBackspace, ScreenType
  <2>3. screen[x].mounted /\ ~screen[x].loading /\ screen[x].stage = "idle"
    BY <1>0, <1>3 DEF OnBackspace, CanProcessInput, ScreenOK
  <2>. HIDE DEF pin
  <2>4. r \in ScreenType /\ r.stage = "idle" /\ r.pin = pin /\ r.mounted /\ r.who = screen[x].who
    BY <1>0, <2>1, <2>3 DEF ScreenType
  <2>. HIDE DEF r
  <2>5. dashboard = NoPage /\ (\A y \in Screens \ {x} : ~screen[y].mounted) /\ r.who \in Staff
    BY <1>0, <2>3, <2>4 DEF OneShown, ScreenOK
  <2>6. UNCHANGED <<account, signedIn, prefs, dashboard, left>>
    BY <1>3 DEF OnBackspace
  <2>7. KeyResult(x, r)
    BY <1>0, <2>1, <2>2, <2>3, <2>4, <2>5, <2>6 DEF KeyResult
  <2>. QED
    BY <2>4, <2>7
<1>4. CASE DebounceEnds(x)
  <2>. DEFINE r == [screen[x] EXCEPT !.locked = FALSE]
  <2>1. screen' = [screen EXCEPT ![x] = r]
    BY <1>0, <1>4 DEF DebounceEnds, ScreenType
  <2>2. /\ r \in ScreenType /\ r.stage = screen[x].stage /\ r.pin = screen[x].pin
        /\ r.mounted = screen[x].mounted /\ r.who = screen[x].who /\ r.role = screen[x].role
        /\ r.loading = screen[x].loading
    BY <1>0 DEF ScreenType
  <2>. HIDE DEF r
  <2>3. UNCHANGED <<account, signedIn, prefs, dashboard, left>>
    BY <1>4 DEF DebounceEnds
  <2>4. r.stage \in Stages
    BY <2>2 DEF ScreenType
  <2>5. KeyResult(x, r)
    BY <1>0, <2>1, <2>2, <2>3, <2>4
       DEF KeyResult, ScreenOK, OneShown, WrittenSoFar, Writing, Stages
  <2>. QED
    BY <2>2, <2>5
<1>5. CASE Leave(x)
  <2>. DEFINE r == IF screen[x].stage = "idle" THEN Closed
                   ELSE [screen[x] EXCEPT !.mounted = FALSE, !.locked = FALSE]
  <2>1. screen' = [screen EXCEPT ![x] = r]
    BY <1>0, <1>5 DEF Leave, ScreenType
  <2>2. r \in ScreenType /\ r.stage = screen[x].stage /\ ~r.mounted /\ Len(r.pin) <= PinLength
    <3>1. PinLength \in Nat
      BY PinAssumption DEF PinAssumption
    <3>2. CASE screen[x].stage = "idle"
      BY <3>1, <3>2, ClosedType
    <3>3. CASE screen[x].stage # "idle"
      BY <1>0, <3>3 DEF ScreenType
    <3>. QED
      BY <3>2, <3>3
  <2>3. r.stage # "idle" =>
           r.pin = screen[x].pin /\ r.who = screen[x].who /\ r.role = screen[x].role
    BY <1>0, <2>2, ClosedType DEF ScreenType
  <2>. HIDE DEF r
  <2>4. left' = (left \/ screen[x].stage \in {"id", "name", "role", "phone"})
    BY <1>5 DEF Leave, Writes
  <2>5. UNCHANGED <<account, signedIn, prefs, dashboard>> /\ left' \in BOOLEAN
    BY <1>0, <1>5, <2>4 DEF Leave
  <2>6. r.stage \in Stages
    BY <2>2 DEF ScreenType
  <2>7. KeyResult(x, r)
    BY <1>0, <2>1, <2>2, <2>3, <2>4, <2>5, <2>6 DEF KeyResult, ScreenOK, Stages
  <2>. QED
    BY <2>2, <2>7
<1>. QED
  BY <1>1, <1>2, <1>3, <1>4, <1>5 DEF KeyStep

\* A step of one screen, to r, that keeps the invariant.
StepOK(x, r) ==
    /\ Len(r.pin) <= PinLength /\ screen' = [screen EXCEPT ![x] = r]
    /\ account' = account /\ dashboard' = dashboard /\ PrefsOK'
    /\ signedIn' \in BOOLEAN /\ left' \in BOOLEAN
    /\ r.mounted => dashboard = NoPage /\ \A y \in Screens \ {x} : ~screen[y].mounted
    /\ ScreenOK(x)'
    /\ ~left' => /\ ~left /\ WrittenSoFar(x)'
                 /\ \/ prefs' = prefs
                    \/ dashboard = NoPage /\ \A y \in Screens \ {x} : ~Writing(y)

LEMMA OneScreenKeeps ==
    ASSUME SessionInv, NEW x \in Screens, NEW r \in ScreenType, StepOK(x, r)
    PROVE  SessionInv'
<1>1. ScreensOK' /\ screen'[x] = r /\ \A y \in Screens \ {x} : screen'[y] = screen[y]
  BY UpdateScreen DEF SessionInv, TypeOK, StepOK
<1>2. TypeOK'
  BY <1>1 DEF StepOK, SessionInv, TypeOK, AccountsOK, DashboardOK
<1>3. OneShown'
  BY <1>1 DEF SessionInv, StepOK, OneShown, NoPage
<1>4. \A y \in Screens : ScreenOK(y)'
  BY <1>1 DEF SessionInv, StepOK, ScreenOK, Writing
<1>5. ASSUME ~left' PROVE LoginStands'
  <2>1. LoginStands /\ dashboard' = dashboard
    BY <1>5 DEF SessionInv, StepOK
  <2>2. CASE prefs' = prefs
    BY <2>1, <2>2 DEF LoginStands
  <2>3. CASE dashboard = NoPage
    BY <2>1, <2>3 DEF LoginStands, NoPage
  <2>. QED
    BY <1>5, <2>2, <2>3 DEF StepOK
<1>6. ASSUME ~left', NEW y \in Screens PROVE WrittenSoFar(y)'
  <2>1. CASE y = x
    BY <1>6, <2>1 DEF StepOK
  <2>2. CASE y # x /\ prefs' = prefs
    BY <1>1, <1>6, <2>2 DEF SessionInv, StepOK, WrittenSoFar, Writing
  <2>3. CASE y # x /\ ~Writing(y)
    BY <1>1, <2>3 DEF WrittenSoFar, Writing
  <2>. QED
    BY <1>6, <2>1, <2>2, <2>3 DEF StepOK
<1>. QED
  BY <1>2, <1>3, <1>4, <1>5, <1>6 DEF SessionInv

LEMMA KeyKeeps ==
    ASSUME SessionInv, NEW x \in Screens, KeyStep(x)
    PROVE  SessionInv'
<1>1. PICK r \in ScreenType : KeyResult(x, r)
  BY KeyScreen
<1>2. screen'[x] = r /\ ScreenOK(x) /\ PrefsOK /\ signedIn \in BOOLEAN /\ (~left => WrittenSoFar(x))
  BY <1>1 DEF KeyResult, SessionInv, TypeOK, ScreensOK
<1>3. r.stage \in {"id", "name", "role", "phone", "auth", "idle", "query"}
  BY DEF ScreenType, Stages
<1>4. ScreenOK(x)'
  BY <1>1, <1>2, <1>3 DEF KeyResult, ScreenOK, Writing
<1>5. ~left' => WrittenSoFar(x)'
  BY <1>1, <1>2, <1>3 DEF KeyResult, WrittenSoFar, Writing
<1>6. PrefsOK'
  BY <1>1, <1>2 DEF KeyResult, PrefsOK
<1>7. /\ Len(r.pin) <= PinLength /\ screen' = [screen EXCEPT ![x] = r]
      /\ account' = account /\ signedIn' \in BOOLEAN /\ prefs' = prefs /\ dashboard' = dashboard
      /\ left' \in BOOLEAN
      /\ r.mounted => dashboard = NoPage /\ \A y \in Screens \ {x} : ~screen[y].mounted
      /\ ~left' => ~left
  BY <1>1, <1>2 DEF KeyResult
<1>8. StepOK(x, r)
  BY <1>4, <1>5, <1>6, <1>7 DEF StepOK
<1>. QED
  BY <1>8, OneScreenKeeps

-----------------------------------------------------------------------------
(* The steps of _verifyPin *)

\* While a screen writes, no dashboard is open and nobody else writes, unless
\* a screen was left.
LEMMA OnlyWriter ==
    ASSUME SessionInv, ~left, NEW x \in Screens, Writing(x)
    PROVE  /\ screen[x].mounted /\ dashboard = NoPage
           /\ \A y \in Screens \ {x} : ~Writing(y) /\ ~screen[y].mounted
  BY DEF SessionInv, WrittenSoFar, OneShown

LEMMA GivesUpKeeps ==
    ASSUME SessionInv, NEW x \in Screens, GivesUp(x),
           UNCHANGED <<account, signedIn, prefs, dashboard, left>>
    PROVE  SessionInv'
<1>. DEFINE r == IF screen[x].mounted
                 THEN [screen[x] EXCEPT !.pin = <<>>, !.loading = FALSE, !.stage = "idle"]
                 ELSE Closed
<1>0. /\ screen[x] \in ScreenType /\ screen \in [Screens -> ScreenType]
      /\ ScreenOK(x) /\ OneShown /\ PrefsOK /\ left \in BOOLEAN /\ signedIn \in BOOLEAN
  BY DEF SessionInv, TypeOK, ScreensOK
<1>1. screen' = [screen EXCEPT ![x] = r]
  BY <1>0 DEF GivesUp, ScreenType
<1>2. r \in ScreenType /\ Len(r.pin) = 0
  <2>1. <<>> \in Seq(BOOLEAN) /\ Len(<<>>) = 0 /\ "idle" \in Stages
    BY DEF Stages
  <2>2. CASE screen[x].mounted
    BY <1>0, <2>1, <2>2 DEF ScreenType
  <2>. QED
    BY <2>2, ClosedType
<1>3. r.stage = "idle" /\ r.mounted = screen[x].mounted
      /\ (r.mounted => r.who = screen[x].who)
  BY <1>0, ClosedType DEF ScreenType
<1>. HIDE DEF r
<1>4. screen'[x] = r
  BY <1>0, <1>1
<1>5. ScreenOK(x)' /\ WrittenSoFar(x)'
  BY <1>0, <1>3, <1>4 DEF ScreenOK, WrittenSoFar, Writing
<1>6. r.mounted => dashboard = NoPage /\ \A y \in Screens \ {x} : ~screen[y].mounted
  BY <1>0, <1>3 DEF OneShown
<1>7. PrefsOK' /\ Len(r.pin) <= PinLength
  BY <1>0, <1>2, PinAssumption DEF PrefsOK, PinAssumption
<1>8. StepOK(x, r)
  BY <1>0, <1>1, <1>2, <1>5, <1>6, <1>7 DEF StepOK
<1>. QED
  BY <1>2, <1>8, OneScreenKeeps

\* The steps that only move the screen on.
LEMMA AdvanceKeeps ==
    ASSUME SessionInv, NEW x \in Screens, NEW stage \in Stages, NEW role \in Role,
           screen[x].stage \in {"query", "auth"}, stage \in {"auth", "id"},
           screen' = [screen EXCEPT ![x] = [screen[x] EXCEPT !.stage = stage, !.role = role]],
           role \in Roles, stage = "id" => screen[x].mounted,
           account' = account, signedIn' \in BOOLEAN, prefs' = prefs, dashboard' = dashboard,
           left' = left
    PROVE  SessionInv'
<1>. DEFINE r == [screen[x] EXCEPT !.stage = stage, !.role = role]
<1>0. /\ screen[x] \in ScreenType /\ screen \in [Screens -> ScreenType]
      /\ Len(screen[x].pin) <= PinLength
      /\ ScreenOK(x) /\ OneShown /\ PrefsOK /\ left \in BOOLEAN
  BY DEF SessionInv, TypeOK, ScreensOK
<1>1. /\ r \in ScreenType /\ r.stage = stage /\ r.role = role /\ r.mounted = screen[x].mounted
      /\ r.who = screen[x].who /\ r.loading = screen[x].loading /\ Len(r.pin) <= PinLength
  BY <1>0 DEF ScreenType
<1>2. screen' = [screen EXCEPT ![x] = r]
  OBVIOUS
<1>. HIDE DEF r
<1>3. screen'[x] = r
  BY <1>0, <1>2
<1>4. ScreenOK(x)' /\ WrittenSoFar(x)'
  BY <1>0, <1>1, <1>3 DEF ScreenOK, WrittenSoFar, Writing
<1>5. r.mounted => dashboard = NoPage /\ \A y \in Screens \ {x} : ~screen[y].mounted
  BY <1>0, <1>1 DEF OneShown
<1>6. PrefsOK'
  BY <1>0 DEF PrefsOK
<1>7. StepOK(x, r)
  BY <1>0, <1>1, <1>2, <1>4, <1>5, <1>6 DEF StepOK
<1>. QED
  BY <1>1, <1>7, OneScreenKeeps

LEMMA AwaitedKeeps ==
    ASSUME SessionInv, NEW x \in Screens,
           QueryStaffByPhone(x) \/ SignInAnonymously(x) \/ RequestFails(x)
    PROVE  SessionInv'
<1>0. /\ screen[x] \in ScreenType /\ screen \in [Screens -> ScreenType] /\ ScreenOK(x)
      /\ account \in [Staff -> [role : Roles, active : BOOLEAN]] /\ signedIn \in BOOLEAN
  BY DEF SessionInv, TypeOK, ScreensOK, AccountsOK
<1>1. CASE RequestFails(x)
  BY <1>1, GivesUpKeeps DEF RequestFails
<1>2. CASE QueryStaffByPhone(x)
  <2>1. CASE account[screen[x].who].active /\ RightPin(x)
    <3>. DEFINE role == account[screen[x].who].role
    <3>1. screen[x].who \in Staff /\ role \in Roles /\ role \in Role /\ "auth" \in Stages
      BY <1>0, <1>2 DEF QueryStaffByPhone, ScreenOK, Role, Stages
    <3>2. screen' = [screen EXCEPT ![x] = [screen[x] EXCEPT !.stage = "auth", !.role = role]]
      BY <1>0, <1>2, <2>1 DEF QueryStaffByPhone, ScreenType
    <3>. HIDE DEF role
    <3>3. /\ screen[x].stage = "query" /\ account' = account /\ signedIn' = signedIn
          /\ prefs' = prefs /\ dashboard' = dashboard /\ left' = left
      BY <1>2 DEF QueryStaffByPhone
    <3>. QED
      BY <1>0, <3>1, <3>2, <3>3, AdvanceKeeps
  <2>2. CASE ~(account[screen[x].who].active /\ RightPin(x))
    BY <1>2, <2>2, GivesUpKeeps DEF QueryStaffByPhone
  <2>. QED
    BY <2>1, <2>2
<1>3. CASE SignInAnonymously(x)
  <2>0. /\ screen[x].stage = "auth" /\ signedIn' = TRUE /\ account' = account
        /\ prefs' = prefs /\ dashboard' = dashboard /\ left' = left
    BY <1>3 DEF SignInAnonymously
  <2>1. CASE screen[x].mounted
    <3>1. screen' = [screen EXCEPT ![x] = [screen[x] EXCEPT !.stage = "id"]]
      BY <1>0, <1>3, <2>1 DEF SignInAnonymously, ScreenType
    <3>2. [screen[x] EXCEPT !.stage = "id"]
             = [screen[x] EXCEPT !.stage = "id", !.role = screen[x].role]
      BY <1>0 DEF ScreenType
    <3>3. "id" \in Stages /\ screen[x].role \in Roles /\ screen[x].role \in Role
      BY <1>0, <2>0 DEF Stages, ScreenOK, Role
    <3>. QED
      BY <2>0, <2>1, <3>1, <3>2, <3>3, AdvanceKeeps
  <2>2. CASE ~screen[x].mounted
    <3>1. screen' = [screen EXCEPT ![x] = Closed]
      BY <1>0, <1>3, <2>2 DEF SignInAnonymously, ScreenType
    <3>2. screen'[x] = Closed
      BY <1>0, <3>1
    <3>3. ScreenOK(x)' /\ WrittenSoFar(x)' /\ PrefsOK' /\ left \in BOOLEAN
      BY <2>0, <3>2, ClosedType
         DEF ScreenOK, WrittenSoFar, Writing, SessionInv, TypeOK, PrefsOK
    <3>4. Len(Closed.pin) <= PinLength
      BY ClosedType, PinAssumption DEF PinAssumption
    <3>5. StepOK(x, Closed)
      BY <2>0, <3>1, <3>3, <3>4, ClosedType DEF StepOK
    <3>. QED
      BY <3>5, ClosedType, OneScreenKeeps
  <2>. QED
    BY <2>1, <2>2
<1>. QED
  BY <1>1, <1>2, <1>3

LEMMA WriteKeeps ==
    ASSUME SessionInv, NEW x \in Screens, NEW i \in 1..3, WritePreference(x, i)
    PROVE  SessionInv'
<1>. DEFINE p == Writes[i]
            next == Writes[i + 1]
            r == [screen[x] EXCEPT !.stage = next]
<1>0. /\ screen[x] \in ScreenType /\ screen \in [Screens -> ScreenType]
      /\ Len(screen[x].pin) <= PinLength /\ PrefsOK /\ left \in BOOLEAN /\ signedIn \in BOOLEAN
      /\ ScreenOK(x) /\ OneShown /\ (~left => WrittenSoFar(x))
  BY DEF SessionInv, TypeOK, ScreensOK
<1>1. \/ p = "id" /\ next = "name"
      \/ p = "name" /\ next = "role"
      \/ p = "role" /\ next = "phone"
  BY DEF Writes
<1>. HIDE DEF p, next
<1>2. /\ r \in ScreenType /\ r.stage = next /\ r.role = screen[x].role
      /\ r.mounted = screen[x].mounted /\ r.who = screen[x].who
      /\ r.loading = screen[x].loading /\ Len(r.pin) <= PinLength
  BY <1>0, <1>1 DEF ScreenType, Stages
<1>3. screen' = [screen EXCEPT ![x] = r]
  BY <1>0 DEF WritePreference, Goes, ScreenType, next
<1>. HIDE DEF r
<1>4. screen'[x] = r
  BY <1>0, <1>3
<1>5. /\ screen[x].stage = p /\ prefs' = [prefs EXCEPT ![p] = Written(x, p)]
      /\ account' = account /\ signedIn' = signedIn /\ dashboard' = dashboard /\ left' = left
  BY DEF WritePreference, p
<1>6. /\ prefs'[p] = Written(x, p)
      /\ \A q \in {"id", "name", "role", "phone"} \ {p} : prefs'[q] = prefs[q]
      /\ prefs' \in [{"id", "name", "role", "phone"} -> Person \cup Role]
      /\ screen[x].who \in Staff /\ screen[x].role \in Roles /\ Writing(x)
  BY <1>0, <1>1, <1>5 DEF PrefsOK, Written, ScreenOK, Writing, Person, Role
<1>7. PrefsOK'
  BY <1>0, <1>1, <1>6 DEF PrefsOK, Written, Person, Role
<1>8. ScreenOK(x)'
  BY <1>0, <1>1, <1>2, <1>4, <1>5 DEF ScreenOK, Writing
<1>9. ~left => WrittenSoFar(x)'
  BY <1>0, <1>1, <1>2, <1>4, <1>5, <1>6 DEF WrittenSoFar, Writing, Written
<1>10. ~left => dashboard = NoPage /\ \A y \in Screens \ {x} : ~Writing(y)
  BY <1>6, OnlyWriter
<1>11. r.mounted => dashboard = NoPage /\ \A y \in Screens \ {x} : ~screen[y].mounted
  BY <1>0, <1>2 DEF OneShown
<1>12. StepOK(x, r)
  BY <1>0, <1>2, <1>3, <1>5, <1>7, <1>8, <1>9, <1>10, <1>11 DEF StepOK
<1>. QED
  BY <1>2, <1>12, OneScreenKeeps

\* The last preference, and the page that replaces all others.
LEMMA OpenDashboardKeeps ==
    ASSUME SessionInv, NEW x \in Screens, OpenDashboard(x)
    PROVE  SessionInv'
<1>0. /\ screen[x] \in ScreenType /\ screen \in [Screens -> ScreenType] /\ PrefsOK
      /\ left \in BOOLEAN /\ signedIn \in BOOLEAN /\ ScreenOK(x) /\ OneShown
      /\ (~left => WrittenSoFar(x))
  BY DEF SessionInv, TypeOK, ScreensOK
<1>1. /\ screen[x].stage = "phone" /\ prefs' = [prefs EXCEPT !["phone"] = screen[x].who]
      /\ account' = account /\ signedIn' = signedIn /\ left' = left
      /\ screen[x].who \in Staff /\ screen[x].role \in Roles
  BY <1>0 DEF OpenDashboard, ScreenOK, Writing
<1>2. /\ prefs'["phone"] = screen[x].who /\ PrefsOK'
      /\ \A q \in {"id", "name", "role"} : prefs'[q] = prefs[q]
  BY <1>0, <1>1 DEF PrefsOK, Person
<1>3. CASE ~screen[x].mounted
  <2>1. screen' = [screen EXCEPT ![x] = Closed] /\ dashboard' = dashboard
    BY <1>3 DEF OpenDashboard
  <2>2. left
    BY <1>0, <1>1, <1>3 DEF WrittenSoFar, Writing
  <2>3. screen'[x] = Closed
    BY <1>0, <2>1
  <2>4. ScreenOK(x)'
    BY <2>3, ClosedType DEF ScreenOK, Writing
  <2>5. Len(Closed.pin) <= PinLength
    BY ClosedType, PinAssumption DEF PinAssumption
  <2>6. StepOK(x, Closed)
    BY <1>0, <1>1, <1>2, <2>1, <2>2, <2>4, <2>5, ClosedType DEF StepOK
  <2>. QED
    BY <2>6, ClosedType, OneScreenKeeps
<1>4. CASE screen[x].mounted
  <2>. DEFINE page == [page |-> "loading", who |-> screen[x].who, role |-> None,
                       home |-> None, login |-> screen[x].role]
              to(y) == IF y = x \/ screen[y].stage = "idle" THEN Closed
                       ELSE [screen[y] EXCEPT !.mounted = FALSE]
  <2>1. dashboard' = page /\ screen' = [y \in Screens |-> to(y)]
    BY <1>4 DEF OpenDashboard
  <2>2. ASSUME NEW y \in Screens
        PROVE  /\ to(y) \in ScreenType /\ ~to(y).mounted /\ Len(to(y).pin) <= PinLength
               /\ to(y).stage # "idle" => /\ y # x /\ to(y).stage = screen[y].stage
                                          /\ to(y).who = screen[y].who
                                          /\ to(y).role = screen[y].role
    <3>1. screen[y] \in ScreenType /\ Len(screen[y].pin) <= PinLength
      BY DEF SessionInv, TypeOK, ScreensOK
    <3>2. Len(Closed.pin) <= PinLength
      BY ClosedType, PinAssumption DEF PinAssumption
    <3>3. CASE y = x \/ screen[y].stage = "idle"
      BY <3>2, <3>3, ClosedType
    <3>4. CASE ~(y = x \/ screen[y].stage = "idle")
      BY <3>1, <3>4 DEF ScreenType
    <3>. QED
      BY <3>3, <3>4
  <2>. HIDE DEF to
  <2>3. \A y \in Screens : screen'[y] = to(y)
    BY <2>1
  <2>4. ScreensOK'
    BY <2>1, <2>2, <2>3 DEF ScreensOK
  <2>5. DashboardOK' /\ dashboard'.page = "loading" /\ dashboard'.who = screen[x].who
        /\ dashboard'.login = screen[x].role
    BY <1>1, <2>1 DEF DashboardOK, Person, Role
  <2>6. TypeOK'
    BY <1>0, <1>1, <1>2, <2>4, <2>5 DEF SessionInv, TypeOK, AccountsOK
  <2>7. OneShown'
    BY <2>2, <2>3, <2>5 DEF OneShown
  <2>8. \A y \in Screens : ScreenOK(y)'
    BY <2>2, <2>3 DEF SessionInv, ScreenOK, Writing
  <2>9. ASSUME ~left' PROVE LoginStands'
    BY <1>0, <1>1, <1>2, <2>5, <2>9 DEF LoginStands, WrittenSoFar
  <2>10. ASSUME ~left', NEW y \in Screens PROVE WrittenSoFar(y)'
    <3>1. Writing(x) /\ ~left
      BY <1>1, <2>10 DEF Writing
    <3>2. y # x => ~Writing(y)
      BY <3>1, OnlyWriter
    <3>. QED
      BY <2>2, <2>3, <3>2 DEF WrittenSoFar, Writing
  <2>. QED
    BY <2>6, <2>7, <2>8, <2>9, <2>10 DEF SessionInv
<1>. QED
  BY <1>3, <1>4

-----------------------------------------------------------------------------
(* The session *)

LEMMA ResolvedRoleOK ==
    ASSUME SessionInv
    PROVE  /\ ResolvedRole \in Role
           /\ ~left /\ dashboard.page # "login" => ResolvedRole = prefs["role"]
<1>1. /\ prefs["role"] \in Role /\ prefs["id"] \in Person /\ prefs["phone"] \in Person
      /\ \A s \in Staff : account[s].role \in Roles
  BY DEF SessionInv, TypeOK, PrefsOK, AccountsOK
<1>2. ResolvedRole \in Role
  BY <1>1 DEF ResolvedRole, Person, Role
<1>3. ASSUME ~left, dashboard.page # "login" PROVE prefs["role"] # None
  BY <1>3, PinAssumption DEF SessionInv, LoginStands, PinAssumption
<1>. QED
  BY <1>2, <1>3 DEF ResolvedRole

LEMMA SameHome ==
    ASSUME DashboardOK, NEW page, NEW role
    PROVE  /\ dashboard.home \in Role
           /\ [dashboard EXCEPT !.page = page, !.role = role]
                = [dashboard EXCEPT !.page = page, !.role = role, !.home = dashboard.home]
BY DEF DashboardOK

LEMMA PageKeeps ==
    ASSUME SessionInv,
           DetermineUserRole \/ BackToLogin \/ OpenGuardedPage \/ GoBack \/ HandleLogout
    PROVE  SessionInv'
<1>0. /\ account' = account /\ screen' = screen /\ left' = left /\ dashboard.page # "login"
      /\ AccountsOK /\ PrefsOK /\ ScreensOK /\ DashboardOK /\ signedIn \in BOOLEAN
      /\ left \in BOOLEAN /\ OneShown
  BY DEF SessionInv, TypeOK, DetermineUserRole, BackToLogin, OpenGuardedPage, GoBack, HandleLogout
<1>. DEFINE Known(v) == v = ResolvedRole
                          \/ (dashboard.page \in {"open", "fallback"} /\ v = dashboard.home)
\* A page that stays above the login page, with the stored role as it was or found again.
<1>1. ASSUME signedIn' = signedIn, NEW role \in Role, NEW home \in Role,
             NEW page \in {"open", "fallback", "error"},
             dashboard' = [dashboard EXCEPT !.page = page, !.role = role, !.home = home],
             \/ UNCHANGED prefs
             \/ prefs' = [prefs EXCEPT !["role"] = ResolvedRole],
             page = "open" => Known(role), page \in {"open", "fallback"} => Known(home)
      PROVE  SessionInv'
  <2>2. ResolvedRole \in Role /\ (~left => ResolvedRole = prefs["role"])
    BY <1>0, ResolvedRoleOK
  <2>3. /\ prefs'["role"] \in Role /\ PrefsOK'
        /\ ~left => prefs'["role"] = prefs["role"]
        /\ \A q \in {"id", "name", "phone"} : prefs'[q] = prefs[q]
    BY <1>0, <1>1, <2>2 DEF PrefsOK
  <2>4. /\ DashboardOK' /\ dashboard'.page = page /\ dashboard'.who = dashboard.who
        /\ dashboard'.login = dashboard.login /\ dashboard'.role = role /\ dashboard'.home = home
    BY <1>0, <1>1 DEF DashboardOK
  <2>5. TypeOK'
    BY <1>0, <1>1, <2>3, <2>4 DEF TypeOK, AccountsOK, ScreensOK
  <2>6. OneShown'
    BY <1>0, <2>4 DEF OneShown
  <2>7. \A y \in Screens : ScreenOK(y)'
    BY <1>0 DEF SessionInv, ScreenOK, Writing
  <2>8. ASSUME ~left' PROVE LoginStands'
    BY <1>0, <1>1, <2>2, <2>3, <2>4, <2>8 DEF SessionInv, LoginStands
  <2>9. ASSUME ~left', NEW y \in Screens PROVE WrittenSoFar(y)'
    BY <1>0, <2>3, <2>9 DEF SessionInv, WrittenSoFar, Writing
  <2>. QED
    BY <2>5, <2>6, <2>7, <2>8, <2>9 DEF SessionInv
<1>2. ASSUME prefs' = prefs, signedIn' \in BOOLEAN, dashboard' = NoPage PROVE SessionInv'
  <2>1. DashboardOK' /\ dashboard'.page = "login"
    BY <1>2 DEF DashboardOK, NoPage, Person, Role
  <2>2. TypeOK'
    BY <1>0, <1>2, <2>1 DEF TypeOK, AccountsOK, ScreensOK, PrefsOK
  <2>3. OneShown'
    BY <1>0, <1>2, <2>1 DEF OneShown, NoPage
  <2>4. \A y \in Screens : ScreenOK(y)' /\ (~left' => WrittenSoFar(y)')
    BY <1>0, <1>2 DEF SessionInv, ScreenOK, WrittenSoFar, Writing
  <2>. QED
    BY <2>1, <2>2, <2>3, <2>4 DEF SessionInv, LoginStands
<1>3. CASE DetermineUserRole
  <2>1. CASE signedIn
    <3>1. PICK role \in Role :
            /\ GetCurrentUserRole(role)
            /\ dashboard' = [dashboard EXCEPT !.page = IF role = None THEN "error" ELSE "open",
                                             !.role = role, !.home = role]
      BY <1>3, <2>1 DEF DetermineUserRole
    <3>2. /\ UNCHANGED prefs \/ prefs' = [prefs EXCEPT !["role"] = ResolvedRole]
          /\ role # None => role = ResolvedRole
      BY <3>1 DEF GetCurrentUserRole
    <3>. QED
      BY <1>1, <1>3, <3>1, <3>2 DEF DetermineUserRole
  <2>2. CASE ~signedIn
    BY <1>0, <1>2, <1>3, <2>2 DEF DetermineUserRole
  <2>. QED
    BY <2>1, <2>2
<1>4. CASE OpenGuardedPage
  <2>1. PICK found \in Role :
          /\ GetCurrentUserRole(found)
          /\ dashboard' = IF found = None
                          THEN [dashboard EXCEPT !.page = "fallback", !.role = StaffRole]
                          ELSE [dashboard EXCEPT !.page = "open", !.role = found]
    BY <1>4 DEF OpenGuardedPage
  <2>2. /\ UNCHANGED prefs \/ prefs' = [prefs EXCEPT !["role"] = ResolvedRole]
        /\ found # None => found = ResolvedRole
    BY <2>1 DEF GetCurrentUserRole
  <2>3. StaffRole \in Role
    BY PinAssumption DEF Role, PinAssumption
  <2>. DEFINE role == IF found = None THEN StaffRole ELSE found
              page == IF found = None THEN "fallback" ELSE "open"
  <2>4. dashboard' = [dashboard EXCEPT !.page = page, !.role = role]
    BY <2>1
  <2>5. /\ role \in Role /\ page \in {"open", "fallback"}
        /\ page = "open" => role = ResolvedRole
        /\ signedIn' = signedIn /\ dashboard.page \in {"open", "fallback"}
    BY <1>4, <2>2, <2>3 DEF OpenGuardedPage
  <2>. HIDE DEF role, page
  <2>6. /\ dashboard.home \in Role
        /\ dashboard' = [dashboard EXCEPT !.page = page, !.role = role, !.home = dashboard.home]
    BY <1>0, <2>4, SameHome
  <2>. QED
    BY <1>1, <2>2, <2>5, <2>6
<1>5. CASE GoBack
  <2>1. /\ dashboard.page \in {"open", "fallback"} /\ signedIn' = signedIn /\ prefs' = prefs
        /\ dashboard' = [dashboard EXCEPT !.page = "open", !.role = dashboard.home]
    BY <1>5 DEF GoBack
  <2>2. /\ dashboard.home \in Role
        /\ dashboard' = [dashboard EXCEPT !.page = "open", !.role = dashboard.home,
                                         !.home = dashboard.home]
    BY <1>0, <2>1, SameHome
  <2>. QED
    BY <1>1, <2>1, <2>2
<1>6. CASE BackToLogin \/ HandleLogout
  BY <1>0, <1>2, <1>6 DEF BackToLogin, HandleLogout
<1>. QED
  BY <1>3, <1>4, <1>5, <1>6

LEMMA ElsewhereKeeps ==
    ASSUME SessionInv,
           \/ \E s \in Staff, role \in Roles, a \in BOOLEAN : ChangeAccount(s, role, a)
           \/ Restart
    PROVE  SessionInv'
<1>1. ASSUME NEW s \in Staff, NEW role \in Roles, NEW a \in BOOLEAN, ChangeAccount(s, role, a)
      PROVE  SessionInv'
  <2>1. AccountsOK' /\ UNCHANGED <<signedIn, prefs, screen, dashboard, left>>
    BY <1>1 DEF SessionInv, TypeOK, AccountsOK, ChangeAccount
  <2>2. TypeOK' /\ OneShown'
    BY <2>1 DEF SessionInv, TypeOK, PrefsOK, DashboardOK, ScreensOK, OneShown
  <2>3. \A y \in Screens : ScreenOK(y)' /\ (~left' => LoginStands' /\ WrittenSoFar(y)')
    BY <2>1 DEF SessionInv, ScreenOK, LoginStands, WrittenSoFar, Writing
  <2>4. ~left' => LoginStands'
    BY <2>1 DEF SessionInv, LoginStands
  <2>. QED
    BY <2>2, <2>3, <2>4 DEF SessionInv
<1>2. CASE Restart
  <2>1. /\ screen' = [y \in Screens |-> Closed] /\ dashboard' = NoPage
        /\ UNCHANGED <<account, signedIn, prefs, left>>
    BY <1>2 DEF Restart
  <2>2. DashboardOK' /\ dashboard'.page = "login"
    BY <2>1 DEF DashboardOK, NoPage, Person, Role
  <2>3. Len(Closed.pin) <= PinLength
    BY ClosedType, PinAssumption DEF PinAssumption
  <2>4. ScreensOK' /\ \A y \in Screens : screen'[y] = Closed
    BY <2>1, <2>3, ClosedType DEF ScreensOK
  <2>5. TypeOK' /\ OneShown'
    BY <2>1, <2>2, <2>4, ClosedType DEF SessionInv, TypeOK, AccountsOK, PrefsOK, OneShown
  <2>6. \A y \in Screens : ScreenOK(y)' /\ WrittenSoFar(y)'
    BY <2>4, ClosedType DEF ScreenOK, WrittenSoFar, Writing
  <2>. QED
    BY <2>2, <2>5, <2>6 DEF SessionInv, LoginStands
<1>. QED
  BY <1>1, <1>2

-----------------------------------------------------------------------------
(* Theorems *)

LEMMA SessionInductive ==
    SessionInv /\ [Next]_vars => SessionInv'
<1>. SUFFICES ASSUME SessionInv, [Next]_vars PROVE SessionInv'
  OBVIOUS
<1>1. CASE UNCHANGED vars
  BY <1>1 DEF vars, SessionInv, TypeOK, AccountsOK, PrefsOK, DashboardOK, ScreensOK, OneShown,
     ScreenOK, LoginStands, WrittenSoFar, Writing
<1>2. ASSUME NEW x \in Screens, KeyStep(x) PROVE SessionInv'
  BY <1>2, KeyKeeps
<1>3. ASSUME NEW x \in Screens, Awaited(x) PROVE SessionInv'
  <2>1. CASE \E i \in 1..3 : WritePreference(x, i)
    BY <2>1, WriteKeeps
  <2>. QED
    BY <1>3, <2>1, AwaitedKeeps, OpenDashboardKeeps DEF Awaited
<1>. QED
  BY <1>1, <1>2, <1>3, PageKeeps, ElsewhereKeeps DEF Next, KeyStep

LEMMA SessionInvariant == Spec => []SessionInv
<1>. QED
  BY InitSession, SessionInductive, PTL DEF Spec

\* Every variable stays in its type: staff_pin_screen.dart:120-149 never lets
\* the PIN grow beyond its length, whoever types.
THEOREM PinTypeCorrect == Spec => []TypeOK
<1>1. SessionInv => TypeOK
  BY DEF SessionInv
<1>. QED
  BY <1>1, SessionInvariant, PTL

\* The session on the dashboard is that of the login that opened it, unless a
\* screen was left while it wrote (staff_pin_screen.dart:181-205).
THEOREM SessionIsOfLogin == Spec => []SessionOfLogin
<1>1. SessionInv => SessionOfLogin
  BY DEF SessionInv, SessionOfLogin, LoginStands
<1>. QED
  BY <1>1, SessionInvariant, PTL

\* What one step does to a screen that verifies before and after it.
LEMMA StepSubmits ==
    ASSUME SessionInv, [Next]_vars, NEW x \in Screens, Verifies(x), Verifies(x)'
    PROVE  screen'[x].pin = screen[x].pin
           /\ (screen'[x].stage = "query" => screen[x].stage = "query")
<1>0. screen \in [Screens -> ScreenType]
  BY DEF SessionInv, TypeOK, ScreensOK
<1>1. CASE screen' = screen
  BY <1>1
<1>2. ASSUME NEW z \in Screens, KeyStep(z)
      PROVE  screen'[x].pin = screen[x].pin /\ screen'[x].stage = screen[x].stage
  <2>1. PICK r \in ScreenType : KeyResult(z, r)
    BY <1>2, KeyScreen
  <2>. QED
    BY <1>0, <2>1 DEF KeyResult, Verifies
<1>3. ASSUME NEW z \in Screens, Awaited(z)
      PROVE  screen'[x].pin = screen[x].pin
             /\ (screen'[x].stage = "query" => screen[x].stage = "query")
  <2>1. CASE z # x /\ ~OpenDashboard(z)
    BY <1>0, <1>3, <2>1 DEF Awaited, QueryStaffByPhone, SignInAnonymously, RequestFails,
       WritePreference, GivesUp, Goes
  <2>2. CASE z = x /\ (RequestFails(x) \/ QueryStaffByPhone(x))
    <3>1. CASE GivesUp(x)
      <4>1. screen'[x].stage = "idle"
        BY <1>0, <3>1, ClosedType DEF GivesUp, ScreenType
      <4>. QED
        BY <4>1 DEF Verifies
    <3>2. CASE screen[x].stage = "query" /\ ~GivesUp(x)
      BY <1>0, <2>2, <3>2 DEF QueryStaffByPhone, RequestFails, ScreenType
    <3>. QED
      BY <2>2, <3>1, <3>2 DEF RequestFails, QueryStaffByPhone
  <2>3. CASE z = x /\ SignInAnonymously(x)
    BY <1>0, <2>3, ClosedType DEF SignInAnonymously, Verifies, ScreenType
  <2>4. CASE z = x /\ \E i \in 1..3 : WritePreference(x, i)
    BY <1>0, <2>4 DEF WritePreference, Goes, ScreenType, Writes
  <2>5. CASE OpenDashboard(z)
    <3>1. CASE screen'[x] = Closed
      BY <3>1, ClosedType DEF Verifies
    <3>2. CASE screen'[x] # Closed
      BY <1>0, <2>5, <3>2 DEF OpenDashboard, ScreenType
    <3>. QED
      BY <3>1, <3>2
  <2>. QED
    BY <1>3, <2>1, <2>2, <2>3, <2>4, <2>5 DEF Awaited
<1>4. CASE Restart
  BY <1>4, ClosedType DEF Restart, Verifies
<1>. QED
  BY <1>1, <1>2, <1>3, <1>4
     DEF Next, vars, KeyStep, DetermineUserRole, BackToLogin, OpenGuardedPage,
         GoBack, HandleLogout, ChangeAccount

\* A PIN under verification is not changed and not submitted again
\* (staff_pin_screen.dart:79-91, 134).
THEOREM PinSubmittedOnce == Spec => SubmittedOnce
<1>. DEFINE A == \A x \in Screens : Verifies(x) /\ Verifies(x)' =>
          /\ screen'[x].pin = screen[x].pin
          /\ screen'[x].stage = "query" => screen[x].stage = "query"
<1>1. SessionInv /\ [Next]_vars => [A]_vars
  BY StepSubmits
<1>. QED
  BY <1>1, SessionInvariant, PTL DEF Spec, SubmittedOnce
=============================================================================

------------------------------ MODULE PinSession ------------------------------
(***************************************************************************)
(* Signing in with a PIN on one device, and the session that follows.      *)
(*                                                                         *)
(*   lib/screens/auth/staff_pin_screen.dart   the keypad and _verifyPin    *)
(*   lib/services/auth_service.dart           signInStaffWithPin, signOut, *)
(*                                            getCurrentUserRole           *)
(*   lib/screens/role_based_dashboard.dart    the page it opens            *)
(*                                                                         *)
(* The Firebase session of staff is anonymous: who it is for is told by    *)
(* four preferences, written one after the other.  A PIN screen that was   *)
(* left goes on with what it awaits; a restart keeps the session and the   *)
(* preferences.  A digit is right or wrong.                                *)
(***************************************************************************)
EXTENDS Integers, Sequences, FiniteSets

CONSTANTS
    Staff, Roles,
    StaffRole,   \* the role 'staff', which guards assume when they find none
    None,
    Screens,     \* slots for PIN screens, left ones included
    PinLength,   \* _pinLength
    MaxOpened,   \* bound of the screens opened
    MaxChanges   \* bound of what happens to accounts, and of restarts

ASSUME PinAssumption == None \notin Staff \cup Roles /\ PinLength \in Nat \ {0}
                          /\ StaffRole \in Roles
                          /\ MaxOpened \in Nat /\ MaxChanges \in Nat

VARIABLES
    account,     \* role and isActive of each staff document
    signedIn,    \* Firebase has a current user
    prefs,       \* currentStaffId, ...Name, ...Role, ...Phone
    screen,      \* the PIN screens
    dashboard,   \* the page open after login, None if the login page is
    left,        \* history: a screen was left while it wrote the preferences
    opened, changes   \* counters for the bounds

vars == <<account, signedIn, prefs, screen, dashboard, left, opened, changes>>

Person == Staff \cup {None}
Role   == Roles \cup {None}

Writes == <<"id", "name", "role", "phone">>
Stages == {"idle", "query", "auth", "id", "name", "role", "phone"}

\* role: the role of the account when the PIN was found right.
Closed == [stage |-> "idle", mounted |-> FALSE, who |-> None, pin |-> <<>>, locked |-> FALSE,
           loading |-> FALSE, role |-> None]
\* role: of the page on top; home: of the dashboard below it.
NoPage == [page |-> "login", who |-> None, role |-> None, home |-> None, login |-> None]

Init ==
    /\ account \in [Staff -> [role : Roles, active : {TRUE}]]
    /\ signedIn = FALSE /\ prefs = [p \in {"id", "name", "role", "phone"} |-> None]
    /\ screen = [x \in Screens |-> Closed] /\ dashboard = NoPage
    /\ left = FALSE /\ opened = 0 /\ changes = 0

-----------------------------------------------------------------------------
(* The keypad *)

OpenScreen(x, s) ==
    /\ dashboard = NoPage /\ screen[x] = Closed /\ opened < MaxOpened
    /\ \A y \in Screens : ~screen[y].mounted
    /\ account[s].active
    /\ screen' = [screen EXCEPT ![x] = [Closed EXCEPT !.mounted = TRUE, !.who = s]]
    /\ opened' = opened + 1
    /\ UNCHANGED <<account, signedIn, prefs, dashboard, left, changes>>

\* Mutant: a verification under way does not keep keys out.
MutantCanProcessInput(x) == screen[x].mounted /\ ~screen[x].locked

CanProcessInput(x) == screen[x].mounted /\ ~screen[x].locked /\ ~screen[x].loading

\* The sixth digit submits.
OnNumberTap(x, right) ==
    /\ CanProcessInput(x)
    /\ LET pin == IF Len(screen[x].pin) < PinLength THEN Append(screen[x].pin, right)
                                                    ELSE screen[x].pin
           submits == pin # screen[x].pin /\ Len(pin) = PinLength
       IN  screen' = [screen EXCEPT ![x].pin = pin, ![x].locked = TRUE,
                                    ![x].loading = @ \/ submits,
                                    ![x].stage = IF submits THEN "query" ELSE @]
    /\ UNCHANGED <<account, signedIn, prefs, dashboard, left, opened, changes>>

OnBackspace(x) ==
    /\ CanProcessInput(x)
    /\ screen' = [screen EXCEPT ![x].locked = TRUE,
                    ![x].pin = IF @ = <<>> THEN @ ELSE SubSeq(@, 1, Len(@) - 1)]
    /\ UNCHANGED <<account, signedIn, prefs, dashboard, left, opened, changes>>

DebounceEnds(x) ==
    /\ screen[x].locked
    /\ screen' = [screen EXCEPT ![x].locked = FALSE]
    /\ UNCHANGED <<account, signedIn, prefs, dashboard, left, opened, changes>>

\* What is awaited goes on.
Leave(x) ==
    /\ screen[x].mounted
    /\ screen' = [screen EXCEPT ![x] = IF @.stage = "idle" THEN Closed
                                       ELSE [@ EXCEPT !.mounted = FALSE, !.locked = FALSE]]
    /\ left' = (left \/ \E i \in DOMAIN Writes : screen[x].stage = Writes[i])
    /\ UNCHANGED <<account, signedIn, prefs, dashboard, opened, changes>>

-----------------------------------------------------------------------------
(* _verifyPin *)

Goes(x, stage) == screen' = [screen EXCEPT ![x].stage = stage]

\* Mutant: only the success path lowers _isLoading.
MutantGivesUp(x) ==
    screen' = [screen EXCEPT ![x] = IF @.mounted THEN [@ EXCEPT !.pin = <<>>, !.stage = "idle"]
                                    ELSE Closed]

\* The catch clause, then finally.
GivesUp(x) ==
    screen' = [screen EXCEPT ![x] =
                 IF @.mounted THEN [@ EXCEPT !.pin = <<>>, !.loading = FALSE, !.stage = "idle"]
                 ELSE Closed]

RightPin(x) == \A i \in DOMAIN screen[x].pin : screen[x].pin[i]

QueryStaffByPhone(x) ==
    /\ screen[x].stage = "query"
    /\ IF account[screen[x].who].active /\ RightPin(x)
       THEN screen' = [screen EXCEPT ![x].stage = "auth", ![x].role = account[screen[x].who].role]
       ELSE GivesUp(x)
    /\ UNCHANGED <<account, signedIn, prefs, dashboard, left, opened, changes>>

\* Mutant: a screen that was left goes on.
MutantSignIn(x) ==
    /\ screen[x].stage = "auth" /\ signedIn' = TRUE
    /\ screen' = [screen EXCEPT ![x] = [@ EXCEPT !.stage = "id"]]
    /\ UNCHANGED <<account, prefs, dashboard, left, opened, changes>>

\* A screen that was left stops here, signed in.
SignInAnonymously(x) ==
    /\ screen[x].stage = "auth" /\ signedIn' = TRUE
    /\ screen' = [screen EXCEPT ![x] = IF @.mounted THEN [@ EXCEPT !.stage = "id"] ELSE Closed]
    /\ UNCHANGED <<account, prefs, dashboard, left, opened, changes>>

RequestFails(x) ==
    /\ screen[x].stage \in {"query", "auth"} /\ GivesUp(x)
    /\ UNCHANGED <<account, signedIn, prefs, dashboard, left, opened, changes>>

Written(x, p) == IF p = "role" THEN screen[x].role ELSE screen[x].who

WritePreference(x, i) ==
    /\ screen[x].stage = Writes[i] /\ i < Len(Writes)
    /\ prefs' = [prefs EXCEPT ![Writes[i]] = Written(x, Writes[i])]
    /\ Goes(x, Writes[i + 1])
    /\ UNCHANGED <<account, signedIn, dashboard, left, opened, changes>>

\* After the last preference every other page is removed.
OpenDashboard(x) ==
    /\ screen[x].stage = "phone"
    /\ prefs' = [prefs EXCEPT !["phone"] = screen[x].who]
    /\ IF screen[x].mounted
       THEN /\ dashboard' = [page |-> "loading", who |-> screen[x].who, role |-> None,
                             home |-> None, login |-> screen[x].role]
            /\ screen' = [y \in Screens |-> IF y = x \/ screen[y].stage = "idle" THEN Closed
                                            ELSE [screen[y] EXCEPT !.mounted = FALSE]]
       ELSE screen' = [screen EXCEPT ![x] = Closed] /\ UNCHANGED dashboard
    /\ UNCHANGED <<account, signedIn, left, opened, changes>>

-----------------------------------------------------------------------------
(* The dashboard, and every page with a route guard *)

\* getCurrentUserRole of an anonymous user; None if nothing is stored.
ResolvedRole ==
    IF prefs["role"] # None THEN prefs["role"]
    ELSE IF prefs["id"] # None THEN account[prefs["id"]].role
    ELSE IF prefs["phone"] # None THEN account[prefs["phone"]].role
    ELSE None

\* The role is stored as it was found; when a request fails (the first is that
\* for the claims of the user, who is anonymous) the answer is null.
GetCurrentUserRole(role) ==
    \/ role = ResolvedRole /\ prefs' = [prefs EXCEPT !["role"] = role]
    \/ (signedIn \/ prefs["role"] = None) /\ role = None /\ UNCHANGED prefs

\* Without a role the dashboard shows an error, and a way to the login page.
DetermineUserRole ==
    /\ dashboard.page = "loading"
    /\ \/ /\ signedIn
          /\ \E role \in Role :
                /\ GetCurrentUserRole(role)
                /\ dashboard' = [dashboard EXCEPT !.page = IF role = None THEN "error" ELSE "open",
                                                 !.role = role, !.home = role]
       \/ ~signedIn /\ dashboard' = NoPage /\ UNCHANGED prefs
    /\ UNCHANGED <<account, signedIn, screen, left, opened, changes>>

BackToLogin ==
    /\ dashboard.page = "error" /\ dashboard' = NoPage
    /\ UNCHANGED <<account, signedIn, prefs, screen, left, opened, changes>>

\* A guarded page asks again, and takes null for 'staff'.
OpenGuardedPage ==
    /\ dashboard.page \in {"open", "fallback"}
    /\ \E role \in Role :
          /\ GetCurrentUserRole(role)
          /\ dashboard' = IF role = None
                          THEN [dashboard EXCEPT !.page = "fallback", !.role = StaffRole]
                          ELSE [dashboard EXCEPT !.page = "open", !.role = role]
    /\ UNCHANGED <<account, signedIn, screen, left, opened, changes>>

\* Back from a guarded page; the dashboard does not ask again.
GoBack ==
    /\ dashboard.page \in {"open", "fallback"}
    /\ dashboard' = [dashboard EXCEPT !.page = "open", !.role = dashboard.home]
    /\ UNCHANGED <<account, signedIn, prefs, screen, left, opened, changes>>

\* The login page opens whether signOut succeeds or throws; the preferences stay.
HandleLogout ==
    /\ dashboard.page \in {"open", "fallback"}
    /\ signedIn' \in {FALSE, signedIn} /\ dashboard' = NoPage
    /\ UNCHANGED <<account, prefs, screen, left, opened, changes>>

-----------------------------------------------------------------------------
(* Managers elsewhere, and the device *)

ChangeAccount(s, r, a) ==
    /\ changes < MaxChanges /\ changes' = changes + 1
    /\ account' = [account EXCEPT ![s] = [role |-> r, active |-> a]]
    /\ UNCHANGED <<signedIn, prefs, screen, dashboard, left, opened>>

\* The application is killed and started again, on the login page.
Restart ==
    /\ changes < MaxChanges /\ changes' = changes + 1
    /\ screen' = [x \in Screens |-> Closed] /\ dashboard' = NoPage
    /\ UNCHANGED <<account, signedIn, prefs, left, opened>>

-----------------------------------------------------------------------------

Awaited(x) ==
    \/ QueryStaffByPhone(x) \/ SignInAnonymously(x) \/ RequestFails(x)
    \/ \E i \in 1..3 : WritePreference(x, i)
    \/ OpenDashboard(x)

Next ==
    \/ \E x \in Screens :
          \/ \E s \in Staff : OpenScreen(x, s)
          \/ \E right \in BOOLEAN : OnNumberTap(x, right)
          \/ OnBackspace(x) \/ DebounceEnds(x) \/ Leave(x) \/ Awaited(x)
    \/ DetermineUserRole \/ BackToLogin \/ OpenGuardedPage \/ GoBack \/ HandleLogout
    \/ \E s \in Staff, r \in Roles, a \in BOOLEAN : ChangeAccount(s, r, a)
    \/ Restart

Spec == Init /\ [][Next]_vars

\* What is awaited ends, the timer fires and the page loads.
Fairness ==
    /\ \A x \in Screens : WF_vars(Awaited(x)) /\ WF_vars(DebounceEnds(x))
    /\ WF_vars(DetermineUserRole)

FairSpec == Spec /\ Fairness

-----------------------------------------------------------------------------
(* Properties *)

AccountsOK  == account \in [Staff -> [role : Roles, active : BOOLEAN]]
PrefsOK     == /\ prefs \in [{"id", "name", "role", "phone"} -> Person \cup Role]
               /\ prefs["role"] \in Role /\ \A p \in {"id", "name", "phone"} : prefs[p] \in Person
DashboardOK == dashboard \in [page : {"login", "loading", "open", "fallback", "error"}, who : Person,
                             role : Role, home : Role, login : Role]
ScreenType  == [stage : Stages, mounted : BOOLEAN, who : Person, pin : Seq(BOOLEAN),
                locked : BOOLEAN, loading : BOOLEAN, role : Role]
ScreensOK   == /\ screen \in [Screens -> ScreenType]
               /\ \A x \in Screens : Len(screen[x].pin) <= PinLength

TypeOK ==
    AccountsOK /\ PrefsOK /\ DashboardOK /\ ScreensOK /\ signedIn \in BOOLEAN /\ left \in BOOLEAN

Verifies(x) == screen[x].stage # "idle"

\* While a PIN is verified no key changes it and it is not submitted again,
\* although the keypad submits by itself and keys come from two sources.
SubmittedOnce ==
    [][\A x \in Screens : Verifies(x) /\ Verifies(x)' =>
          /\ screen'[x].pin = screen[x].pin
          /\ screen'[x].stage = "query" => screen[x].stage = "query"]_vars

\* Unless a screen was left while it wrote the preferences, the session on the
\* dashboard is that of the login that opened it, whatever restarts, failed
\* logins and abandoned screens came before: the stored id, name and phone are of
\* one person, the stored role is the one that login found, and it is the role
\* in force.  (When the role cannot be asked for, the dashboard shows an error
\* and a guarded page goes by 'staff'; neither touches what is stored.)
SessionOfLogin ==
    ~left /\ dashboard.page # "login" =>
        /\ prefs["id"] = dashboard.who /\ prefs["name"] = dashboard.who
        /\ prefs["phone"] = dashboard.who /\ prefs["role"] = dashboard.login
        /\ dashboard.page = "open" => dashboard.role = dashboard.login

\* A keypad that verifies or debounces takes keys again, or the dashboard opens.
KeypadRecovers ==
    \A x \in Screens : (screen[x].mounted /\ ~CanProcessInput(x))
                          ~> (CanProcessInput(x) \/ ~screen[x].mounted)
=============================================================================

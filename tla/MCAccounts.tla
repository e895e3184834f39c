------------------------------- MODULE MCAccounts -------------------------------
(***************************************************************************)
(* The accounts on small sets, and what comments of the services say: true *)
(* as long as calls do not overlap.  The history variable overlapped tells *)
(* whether one has taken a step between two of another.                        *)
(***************************************************************************)
EXTENDS Accounts

VARIABLE overlapped

MCInit == Init /\ overlapped = FALSE
MCNext ==
    \E c \in Callers :
        /\ CallStep(c)
        /\ overlapped' = (overlapped \/ \E e \in Callers \ {c} : call[e] # Idle)
MCSpec == MCInit /\ [][MCNext]_<<vars, overlapped>>

\* "Check if staff already exists" (auth_service.dart:445): without overlap,
\* no account is added whose number has one in a spelling that lookups ask for.
\* (Not so for a number stored as it was typed, which they pass over.)
NoSecondAccount ==
    [][\A c \in Callers : AddAccount(c) /\ ~overlapped =>
          ~\E i \in Present : docs[i].num = call[c].num
                               /\ docs[i].spelling \in ToSet(Spellings)]_vars

\* "Migrate to hashed PIN" (auth_service.dart:352): without overlap, whoever
\* could sign in before a sign-in migrated the PIN can do so after it.
MigrationKeepsPin ==
    [][\A c \in Callers : call[c].op = "signIn" /\ WritePin(c) /\ ~overlapped =>
          \A p \in Pins : Opens(p, docs[call[c].id].pin) => Opens(p, docs'[call[c].id].pin)]_vars

-----------------------------------------------------------------------------
(* Bounds of the instance *)

Symmetric == Permutations(Ids) \cup Permutations(Callers) \cup Permutations(Pins)
                \cup Permutations(Numbers)

NumbersUsed == {docs[i].num : i \in Present} \cup ({call[c].num : c \in Callers} \ {None})
SecretsUsed == {docs[i].pin.secret : i \in {j \in Present : docs[j].pin # None}}
                 \cup (UNION {{call[c].pin, call[c].new} : c \in Callers} \ {None})

\* Once calls overlap there are no admins and at most one editor, and of numbers,
\* PINs and accounts only one kind has two members; two accounts nobody edits,
\* and a number stored as it was typed is the only one.
Editors  == {c \in Callers : call[c].op = "editor"}
AskedFor == \A i \in Present : docs[i].spelling \in ToSet(Spellings)

OneNumber  == Cardinality(NumbersUsed) <= 1
OnePin     == Cardinality(SecretsUsed) <= 1
OneAccount == Cardinality(Present) <= 1

Narrow ==
    overlapped =>
        /\ Admins = {} /\ \A c \in Callers : call[c].op # "setup"
        /\ Cardinality(Editors) <= 1
        /\ \/ OneAccount /\ OnePin /\ (AskedFor \/ OneNumber)
           \/ OneAccount /\ OneNumber /\ AskedFor
           \/ OneNumber /\ OnePin /\ AskedFor /\ Editors = {}
=============================================================================

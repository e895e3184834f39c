-------------------------------- MODULE MCLeave --------------------------------
(* Leave requests on small sets; the sizes are in the cfg. *)
EXTENDS LeaveRequests, TLC

Symmetric == Permutations(Editors)

\* Bounds: the form is used while nothing is edited; a lone edit explores all
\* four days, two edits that race stay on the first two.
Editing == {e \in Editors : edit[e] # NoEdit}
Early   == {0, 1}

Narrow ==
    \/ Editing = {}
    \/ /\ \A s \in Staff : form[s] = Blank
       /\ \/ Cardinality(Editing) = 1
          \/ /\ \A i \in Stored : {request[i].from, request[i].to} \subseteq Early
             /\ \A e \in Editing : {edit[e].draft.from, edit[e].draft.to} \subseteq Early
=============================================================================

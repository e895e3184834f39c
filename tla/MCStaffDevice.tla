----------------------------- MODULE MCStaffDevice -----------------------------
(* A device on small sets; the sizes are in the cfg of each run. *)
EXTENDS StaffDevice

Symmetric == Permutations(Tasks)
=============================================================================

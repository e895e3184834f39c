------------------------------ MODULE MCAttendance ------------------------------
(* The attendance core on small sets; the sizes are in the cfg of each run. *)
EXTENDS Attendance, TLC

\* The slots for calls are alike, and so are the staff created the same way.
Symmetric == Permutations(Tasks)
=============================================================================

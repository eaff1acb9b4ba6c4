------------------------ MODULE MCOsAccountLifecycle ------------------------
(* Instances of OsAccountLifecycle for TLC. *)
EXTENDS OsAccountLifecycle, TLC

CONSTANTS p1, p2

MCProc == {p1, p2}
ProcSymmetry == Permutations(MCProc)
=============================================================================

----------------------------- MODULE MCSubProfile -----------------------------
(***************************************************************************)
(* SubProfile for TLC: the threads, accounts and applications are          *)
(* interchangeable (their permutations serve the runs without liveness).   *)
(***************************************************************************)
EXTENDS SubProfile, TLC

CONSTANTS t1, t2, a1, a2, u1

Symmetric == Permutations(Thread) \cup Permutations(Account)
===============================================================================

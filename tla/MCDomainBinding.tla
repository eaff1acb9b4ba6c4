-------------------------- MODULE MCDomainBinding --------------------------
(***************************************************************************)
(* Instance of DomainBinding for TLC: threads and domain accounts as model *)
(* values, accounts as numbers.                                            *)
(***************************************************************************)
EXTENDS DomainBinding, TLC

CONSTANTS p1, p2, x1, x2

DomainSymmetry == Permutations({p1, p2}) \cup Permutations({x1, x2})
=============================================================================

----------------------------- MODULE MCApiAccess -----------------------------
(* Small instances of ApiAccess for TLC. *)
EXTENDS ApiAccess, TLC

CONSTANTS c1, c2

CallerSymmetry == Permutations(Callers)
=============================================================================

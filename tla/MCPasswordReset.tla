--------------------------- MODULE MCPasswordReset ---------------------------
(* Small instances of PasswordReset for TLC. *)
EXTENDS PasswordReset, TLC

CONSTANTS c1, c2, c3

CallerSymmetry == Permutations(Callers)
=============================================================================

--------------------------- MODULE MCSessionTokens ---------------------------
(* Small instances of SessionTokens for TLC. *)
EXTENDS SessionTokens, TLC

CONSTANTS c1, c2

CallerSymmetry == Permutations(Callers)
=============================================================================

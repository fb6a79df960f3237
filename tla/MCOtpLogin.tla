----------------------------- MODULE MCOtpLogin -----------------------------
(* Small instances of OtpLogin for TLC. *)
EXTENDS OtpLogin, TLC

CONSTANTS c1, c2, c3

CallerSymmetry == Permutations(Callers)
=============================================================================

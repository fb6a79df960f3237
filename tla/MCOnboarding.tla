---------------------------- MODULE MCOnboarding ----------------------------
(* Small instances of Onboarding for TLC. *)
EXTENDS Onboarding, TLC

CONSTANTS c1, c2, a, b, d

CallerAndPersonSymmetry == Permutations(Callers) \cup Permutations(People)
=============================================================================

SPECIFICATION Spec
CONSTANTS
  c1 = c1
  c2 = c2
  c3 = c3
  Callers = {c1, c2}
  Otps = {1, 2}
  CONFIRM_ATTEMPT_LIMIT = 2
SYMMETRY CallerSymmetry
INVARIANTS
  ResetInv
  ResetsPerCodeBounded
  ConfirmFailuresBounded

SPECIFICATION Spec
CONSTANTS
  c1 = c1
  c2 = c2
  Callers = {c1, c2}
  MaxRows = 3
SYMMETRY CallerSymmetry
INVARIANTS
  SessionInv
  SuccessorsBounded
  CookieIsLive

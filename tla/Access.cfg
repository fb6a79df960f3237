SPECIFICATION Spec
CONSTANTS
  c1 = c1
  c2 = c2
  Callers = {c1, c2}
  Keys = {k1}
  Orgs = {o1, o2}
  None = None
SYMMETRY CallerSymmetry
INVARIANTS
  AccessInv
  VoidCredentialsRefused
PROPERTIES
  OnlyOwnOrgRevokes

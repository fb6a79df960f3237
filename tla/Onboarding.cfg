SPECIFICATION Spec
CONSTANTS
  c1 = c1
  c2 = c2
  a = a
  b = b
  d = d
  Callers = {c1, c2}
  People = {a, b, d}
  Invitations = {i1, i2}
  Orgs = {o1, o2}
  HomeOrg = o1
  None = None
  UserLimit = 2
SYMMETRY CallerAndPersonSymmetry
INVARIANTS
  OnboardingInv
  MembersBounded
  UsesPerInvitationBounded
  AccountsConsistent
PROPERTIES
  SuspensionHolds

SPECIFICATION Spec
CONSTANTS
  c1 = c1
  c2 = c2
  c3 = c3
  Callers = {c1, c2, c3}
  FAILED_ATTEMPT_LIMIT = 2
  OTP_ATTEMPT_LIMIT = 2
  MaxTokens = 2
SYMMETRY CallerSymmetry
INVARIANTS
  OtpInv
  OtpGuessesBounded
  FailedLoginsBounded
  SessionsPerOtpBounded

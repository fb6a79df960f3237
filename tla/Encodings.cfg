SPECIFICATION Spec
CONSTANTS
  kA = kA
  kB = kB
  Options <- MCOptions
  Width = 2
  Digits = {0, 1, 2, 4, 48, 127, 128, 255}
  PointOf <- MCPointOf
  Literals <- MCLiterals
  Names <- MCNames
  Before <- MCBefore
  Json <- MCJson
  Depth <- MCDepth
  InstantOf <- MCInstantOf
  Events <- MCEvents
INVARIANTS
  EndsWithOwnOutcome
  DelaysGrowToCap
  SignatureRecovers
  FailsOnlyWhenDisturbed
  SameStringIffSameEvent
CHECK_DEADLOCK FALSE

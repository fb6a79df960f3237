SPECIFICATION Spec
CONSTANTS
  r1 = r1
  r2 = r2
  r3 = r3
  p1 = p1
  p2 = p2
  h1 = h1
  h2 = h2
  k1 = k1
  NoKey = NoKey
  NoEvent = NoEvent
  NoHash = NoHash
  NoProc = NoProc
  Requests <- TwinRequests
  HashOf <- TwinHashOf
  SlotOf <- TwinSlotOf
  Hashes = {h1}
  Procs = {p1, p2}
  MaxAttempts = 2
  MaxStalled = 1
  MaxTx = 3
  MaxRestarts = 1
  InfraMayFail = FALSE
  RpcMayFail = TRUE
  LockMayExpire = TRUE
  OtherReverts = FALSE
SYMMETRY TwinSymmetry
INVARIANTS
  AnchoredIsOnChain
  RecordedTxIsOwnAndMined
  CompletedMeansRecorded
  StrandedOnlyByFault
PROPERTIES
  ImplementsLedger
CHECK_DEADLOCK FALSE

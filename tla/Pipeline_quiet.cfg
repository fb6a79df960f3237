SPECIFICATION FairSpec
CONSTANTS
  r1 = r1
  r2 = r2
  r3 = r3
  p1 = p1
  p2 = p2
  h1 = h1
  h2 = h2
  k1 = k1
  NoKey = NoKey
  NoEvent = NoEvent
  NoHash = NoHash
  NoProc = NoProc
  Requests <- RetryRequests
  HashOf <- RetryHashOf
  SlotOf <- RetrySlotOf
  Hashes = {h1}
  Procs = {p1, p2}
  MaxAttempts = 2
  MaxStalled = 1
  MaxTx = 3
  MaxRestarts = 0
  InfraMayFail = FALSE
  RpcMayFail = FALSE
  LockMayExpire = FALSE
  OtherReverts = TRUE
INVARIANTS
  SameKeySameEvent
  FailedOnlyAsDuplicate
PROPERTIES
  AcceptedEventsSettle
CHECK_DEADLOCK FALSE

SPECIFICATION QSpec
CONSTANTS
  r1 = r1
  r2 = r2
  p1 = p1
  h1 = h1
  h2 = h2
  oA = oA
  oB = oB
  u1 = u1
  u2 = u2
  NoKey = NoKey
  NoEvent = NoEvent
  NoHash = NoHash
  NoProc = NoProc
  AnyUser = AnyUser
  Requests <- QRequests
  HashOf <- QHashOf
  SlotOf <- QSlotOf
  OrgOf <- QOrgOf
  UserOf <- QUserOf
  Clients <- QClients
  PageSizes = {1, 2}
  Hashes = {h1, h2}
  Procs = {p1}
  MaxAttempts = 1
  MaxStalled = 1
  MaxTx = 2
  MaxRestarts = 0
  InfraMayFail = FALSE
  RpcMayFail = FALSE
  LockMayExpire = TRUE
  OtherReverts = FALSE
INVARIANTS
  VerifiedIsOnChain
  UnreadableOnlyWhileProcessing
  ListingMissesNothing
CHECK_DEADLOCK FALSE

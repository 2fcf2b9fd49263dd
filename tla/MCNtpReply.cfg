CONSTANTS
  ann = ann
  bob = bob
  cyd = cyd
  k1 = k1
  k2 = k2
  Clients = {ann, bob, cyd}
  Buckets = {k1, k2}
  Hash <- SharedHash
  NoClient = NoClient
  Unreachable = {cyd}
  S = 2
  BucketBudget = 1
  WindowBudget = 2
  PrimeRefresh = 2
  PrimeTtl = 4
  RingMax = 2
  SlowLan = FALSE
  AlwaysLocked = FALSE
  MayReset = TRUE
  MaxTime = 7
SPECIFICATION Spec
CHECK_DEADLOCK FALSE
INVARIANT TypeOK
INVARIANT InterleavedHonest

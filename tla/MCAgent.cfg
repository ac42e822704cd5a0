SPECIFICATION Spec
CONSTANTS
  r1 = r1
  r2 = r2
  r3 = r3
  k1 = k1
  k2 = k2
  NoKey = NoKey
  Requests <- ThreeRequests
  Keys <- TwoKeys
  CacheKey <- PairAndOther
  Size <- OneLarge
  Rejected <- NoRequests
  EnvelopeBytes = 1
  BatchInterval = 1
  MaxBatchRequests = 2
  MaxBatchBytes = 4
  MaxQueueRequests = 2
  CacheTTL = 1
  CacheMaxEntries = 1
  StaleIfErrorTTL = 2
  BackpressureCooldown = 2
  FailOpen = TRUE
  MayStop = TRUE
SYMMETRY Symmetry
INVARIANTS
  TypeOK
  SingleHolder
  HeldUnanswered
  NothingLost
  NoCrossTalk
  CacheBounded
  UnitsDistinct
  NoDispatchInCooldown
  BatchWithinCaps
  Accounting
  ThrottledIsDegraded
  FailOpenNeverServes
  BatchCycle
PROPERTIES
  ExecutedOnce

SPECIFICATION Spec
CONSTANTS
  r1 = r1
  r2 = r2
  r3 = r3
  k1 = k1
  k2 = k2
  NoKey = NoKey
  Requests <- TwoRequests
  Keys <- TwoKeys
  CacheKey <- Pair
  Size <- UnitSizes
  Rejected <- NoRequests
  EnvelopeBytes = 1
  BatchInterval = 1
  MaxBatchRequests = 1
  MaxBatchBytes = 3
  MaxQueueRequests = 1
  CacheTTL = 1
  CacheMaxEntries = 1
  StaleIfErrorTTL = 0
  BackpressureCooldown = 1
  FailOpen = TRUE
  MayStop = FALSE
PROPERTIES
  UnavailablePackageReported
CHECK_DEADLOCK FALSE

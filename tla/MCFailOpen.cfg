SPECIFICATION HSpec
CONSTANTS
  r1 = r1
  r2 = r2
  k1 = k1
  NoKey = NoKey
  Requests <- TwoRequests
  Keys <- OneKey
  CacheKey <- SameKeyAll
  Size <- UnitSizes
  Rejected <- NoRequests
  EnvelopeBytes = 1
  BatchInterval = 1
  MaxBatchRequests = 1
  MaxBatchBytes = 4
  MaxQueueRequests = 2
  CacheTTL = 1
  CacheMaxEntries = 2
  StaleIfErrorTTL = 3
  BackpressureCooldown = 1
  FailOpen = TRUE
  MayStop = FALSE
PROPERTIES
  FailOpenServesStale

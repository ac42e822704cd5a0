SPECIFICATION Spec
CONSTANTS
  r1 = r1
  r2 = r2
  k1 = k1
  NoKey = NoKey
  Requests <- TwoRequests
  CacheKey <- SameKey
  Answers <- Results
  SubmitTimeout = 2
  FetchTimeout = 1
  ShutdownTimeout = 1
INVARIANT
  TextDelivered
CHECK_DEADLOCK FALSE

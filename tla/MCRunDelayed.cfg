SPECIFICATION Spec
CONSTANTS
  b1 = b1
  b2 = b2
  Batches <- OneBatch
  HTTPTimeout = 1
  PollInterval = 1
  RunStartTimeout = 2
  RunCompletionTimeout = 3
  MayCancel = FALSE
PROPERTIES
  DelayedMeansNotStarted
CHECK_DEADLOCK FALSE

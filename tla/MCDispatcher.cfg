SPECIFICATION Spec
CONSTANTS
  b1 = b1
  b2 = b2
  Batches <- TwoBatches
  HTTPTimeout = 1
  PollInterval = 1
  RunStartTimeout = 2
  RunCompletionTimeout = 3
  MayCancel = TRUE
INVARIANTS
  TypeOK
  OutcomeTruthful
  TimeBounded
  TimeSpent
PROPERTIES
  DelayedNotEarly
  Returns
CHECK_DEADLOCK FALSE

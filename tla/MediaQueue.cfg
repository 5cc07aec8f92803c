SPECIFICATION FairSpec
CONSTANTS
  Files = {f, g, h}
  Managed = {g}
  Concurrency = 2
  AttemptLimit = 2
  BackoffLimit = 3
  NoTimer = NoTimer
  MaxEvents = 3
  MaxCrashes = 1
INVARIANTS FilesAreScheduled
PROPERTY FilesSettle
CHECK_DEADLOCK FALSE

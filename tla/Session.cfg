SPECIFICATION FairSpec
CONSTANTS
  Commands = {c}
  Leases = {l}
  Options <- AllOptions
  PromptConsumer = TRUE
  MaxSessions = 2
  MaxEvents = 2
INVARIANTS NothingLeftBehind 
PROPERTIES RequestsSettle LossIsNoticed StopStops
CHECK_DEADLOCK FALSE

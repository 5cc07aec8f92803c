SPECIFICATION FairSpec
CONSTANTS
  Commands = {c}
  Leases = {l}
  Options <- RuntimeOptions
  PromptConsumer = FALSE
  MaxSessions = 2
  MaxEvents = 2
PROPERTY LossIsNoticed
CHECK_DEADLOCK FALSE

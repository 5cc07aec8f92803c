SPECIFICATION FairSpec
CONSTANTS
  Collections = {a, b}
  Items = {x, y}
  Threshold = 2
  Whole = Whole
  None = None
  MaxRepairs = 3
  MaxCommands = 1
INVARIANTS NoRequestLost OneAtATime WaitsOnlyWhenRefused
PROPERTY RepairsDelivered
CHECK_DEADLOCK FALSE

SPECIFICATION Spec
CONSTANTS
  Items = {i, j}
  MaxChanges = 4
  MaxRefusals = 2
  MaxFailures = 2
INVARIANTS NothingAllocatedIsLost OutboxIsReady
CHECK_DEADLOCK FALSE
SYMMETRY Symmetry

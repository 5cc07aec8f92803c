SPECIFICATION Spec
CONSTANTS
  a = a
  b = b
  c = c
  Names = {a, b, c}
  InitialNames = {a, b}
  Ids = {1}
  Slots = {p}
  f = f
  Files = {f}
  ContentFiles = {f}
  Absent = Absent
  MaxRefs = 1
  MaxEvents = 6
INVARIANTS RefsAreTrue LinksMatchItems FilesAreOwned
PROPERTY RelationsStay
CHECK_DEADLOCK FALSE
SYMMETRY Symmetry

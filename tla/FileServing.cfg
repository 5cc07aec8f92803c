SPECIFICATION Spec
CONSTANTS
  Files = {f}
  Requests = {r1, r2}
  Presets = {p}
  Omitted = Omitted
  None = None
  MaxVersions = 2
  MaxEvents = 4
  MaxStarts = 3
INVARIANTS CachedVariantsAreCurrent FingerprintsAreTrue
PROPERTIES DerivationsMeetTheirRow
CHECK_DEADLOCK FALSE

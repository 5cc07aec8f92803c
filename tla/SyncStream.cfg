SPECIFICATION FairSpec
CONSTANTS
  Collections = {a, b}
  Ids = {i}
  Props = {p}
  Values = {v}
  Unset = Unset
  Omitted = Omitted
  Absent = Absent
  Unscoped = Unscoped
  InitialSources <- AllPresent
  BatchSize = 2
  MaxChanges = 1
  MaxFaults = 1
  MaxSnapshots = 1
  MaxStray = 1
  MaxWire = 3
INVARIANTS BaselineAgreement AcksFollowPersistence SentIsInFlightOrStored
PROPERTIES ImplementsReplica Converges
CHECK_DEADLOCK FALSE

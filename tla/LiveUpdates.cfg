SPECIFICATION FairSpec
CONSTANTS
  Readers = {r}
  Monitor = m
  Events = {"connected", "item", "commandResult"}
  InitialDelay = 1
  MaxDelay = 2
  MaxEvents = 2
  MaxFaults = 1
  MaxReads = 2
INVARIANTS EventsInOrder EveryChangeAnnounced
PROPERTIES PagesCatchUp
CHECK_DEADLOCK FALSE

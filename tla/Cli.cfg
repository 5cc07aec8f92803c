CONSTANTS
    Procs = {1, 2}
    Spare = {"i3", "i4"}
    Deadline = 2
    MaxDelay = 2
SPECIFICATION Spec
INVARIANTS
    KeysStayUsable
    ExitTellsOutcome
PROPERTIES
    OnlyWhatIsNamed
    CommandsEnd
CHECK_DEADLOCK FALSE

SPECIFICATION Spec
CONSTANTS
  Null = Null
  Unset = Unset
  On = On
  Off = Off
  Throws = Throws
  AnyText = AnyText
  None = None
  PageSizes = {1, 2, 4}
  Ambiguous = Ambiguous
  DayLength = 10
  Zero = Zero
INVARIANTS
  FiltersAreMeant
  ClientsGiveTheSame
  PagesShowEverything
  SchemasAreTrue
  PlansBindWhatIsDone
  LocaleMapsDecide
  DocumentsAreShown
  OptimizersAgree
CHECK_DEADLOCK FALSE

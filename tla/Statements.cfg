SPECIFICATION StatementSpec
CONSTANTS
  PageLimit = 2
  MaxExportRows = 6
  DefaultLimit = 3
  ScreenSize = 2
  Filters = {"all", "CREDIT"}
  Disorder = 2
  MaxRows = 5
INVARIANTS
  ExportIsComplete
  AlarmNeedsDisorder
  AllMeansAll
CHECK_DEADLOCK FALSE

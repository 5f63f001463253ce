SPECIFICATION ReportsSpec
CONSTANTS
  None = None
  MaxRows = 6
  Orders <- MCBothOrders
  Changes <- MCAllChanges
  Caps = {1, 2, 3, 4, 6}
  PAGE_SIZE = 2
  ServerMax = 2
  Populations <- MCPopulations
  Edited <- MCEdited
  MaxEdits = 1
  Products = {1, 2}
  Allowlist <- MCAllowlist
INVARIANTS
  ReportsTypeOK
  QuietIsExact
  GrowthHidesNothing
  RepeatsNeedInsertion
  ReportIsExact
  EachRowInOneState
CHECK_DEADLOCK FALSE

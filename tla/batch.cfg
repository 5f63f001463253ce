SPECIFICATION Spec
CONSTANTS
  Dates <- MCDates
  Policies = {"remaining", "missing"}
  MaxCalls = 5
INVARIANTS
  TypeOK
  ReportIsTrue
  ReportIsComplete
  EveryDateOnce
CHECK_DEADLOCK FALSE

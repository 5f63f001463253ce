SPECIFICATION Spec
CONSTANTS
  Dates <- MCDates
  Policies = {"remaining"}
  MaxCalls = 4
INVARIANT NoteLeadsToAllDates
CHECK_DEADLOCK FALSE

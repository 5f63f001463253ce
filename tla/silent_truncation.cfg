SPECIFICATION Spec
CONSTANTS
  None = None
  MaxRows = 6
  Orders <- MCOldestFirst
  Changes <- MCNoChanges
  Caps = {3}
  PAGE_SIZE = 2
  ServerMax = 2
INVARIANT NeverSilentlyPartial
CHECK_DEADLOCK FALSE

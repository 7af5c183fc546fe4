SPECIFICATION PreviewSpec
CONSTANTS
  None = None
  MaxCalls = 1
  Paths = {path1, path2}
  MaxPreviews = 2
INVARIANTS
  PreviewHeard
CHECK_DEADLOCK FALSE

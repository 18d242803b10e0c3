CONSTANTS
  InOrder = TRUE
  Restored = {FALSE}
  MaxRuns = 2
  MaxCalls = 3
  MaxFailures = 0
  MaxRefusals = 0

SPECIFICATION Spec
CHECK_DEADLOCK FALSE

INVARIANTS
  CancelStaysAvailable

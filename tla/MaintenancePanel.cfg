CONSTANTS
  InOrder = FALSE
  Restored = {TRUE, FALSE}
  MaxRuns = 2
  MaxCalls = 3
  MaxFailures = 2
  MaxRefusals = 1

SPECIFICATION FairSpec
CHECK_DEADLOCK FALSE

INVARIANTS
  PanelFollowsTheOperation
PROPERTIES
  PanelRecovers

CONSTANTS
  MaxGenerated = 2
  MaxOrders = 3
  Budgets = {0, 2}
  DeepLimits = {1}
  Unlimited = Unlimited
  MaxExecutions = 2

SPECIFICATION FairSpec
CHECK_DEADLOCK FALSE

INVARIANTS
  ExecutionIsConsistent
PROPERTIES
  StatusesAreTrue

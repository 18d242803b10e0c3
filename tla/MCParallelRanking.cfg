CONSTANTS
  NumWorkers = 2
  NumTasks = 3
  Orders <- MCOrders

SPECIFICATION FairSpec
CHECK_DEADLOCK FALSE

INVARIANTS
  RankingIsExact
PROPERTIES
  RankingAdvances

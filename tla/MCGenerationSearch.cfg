CONSTANTS
  Letters <- MCLetters
  Problems <- MCSearches
  MaxDead = 4

SPECIFICATION Spec
CHECK_DEADLOCK FALSE

INVARIANTS
  SearchIsTruthful
  PrefixHasNoGap
  EveryStratumIsServed

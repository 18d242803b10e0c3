CONSTANTS
  Processes = {p1, p2}
  Free = Free
  Keys = {1, 2, 3}
  Sizes = {1, 3}
  Limits <- MCLimits
  MaxSequence = 4

SPECIFICATION FairSpec

PROPERTIES
  StoreServesFifo

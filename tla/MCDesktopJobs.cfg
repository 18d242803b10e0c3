CONSTANTS
  Callers = {c1, c2}
  Free = Free
  MaxRuns = 2
  SettingsValues = {"old", "new"}
  Unsaved = Unsaved

SPECIFICATION FairSpec

INVARIANTS
  OwnerIsConsistent
  SnapshotIsOfItsJob
  CancelledWasAsked
PROPERTIES
  StopIsHonoured
  ImplementsSlot
  EveryWorkerEnds
  CallersReturn

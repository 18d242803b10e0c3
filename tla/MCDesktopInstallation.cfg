CONSTANTS
  Trees <- MCTrees
  CorpusFiles <- MCCorpusFiles
  Candidates = {"release", "new release"}
  NoCandidate = "none"

SPECIFICATION InstallSpec
CHECK_DEADLOCK FALSE

INVARIANTS
  RollbackRestores
  BlockedOnlyByTheApplication
  NothingIsLost

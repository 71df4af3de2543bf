SPECIFICATION MCSpec
CONSTANTS
  MaxRecords = 4
  MaxBatch = 2
  MaxFailures = 3
  Tests = {read, submit}
  Pathless = {}
  MaxSessions = 3
  MaxLive = 2
  MaxRuntimes = 2
SYMMETRY TestSymmetry
INVARIANTS
  CitedEvidenceKnown
  OrderIrrelevant
  MergeSound
  AskedOnce
  TreeSound
  ContextFaithful
  PacksSound
  NothingForgotten
CHECK_DEADLOCK FALSE

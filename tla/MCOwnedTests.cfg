SPECIFICATION MCSpec
CONSTANTS
  Parent = parent
  Child = child
  Others = {o1, o2}
  Stray = stray
  None = none
  LandsElsewhere = FALSE
  updated = updated
  PortableTests <- GeneratedTests
  PackTests = {show, change}
  ChangingTests = {change}
  all = all
  JobLimit = 2
  KillLimit = 2
  ProposedTests = {show, change, remove}
  ProposedChanging = {change, remove}
  RunLimit = 1
INVARIANTS
  PassedLeavesNothing
  AllTried
  OnlyOwnDeleted
  ServerTruthful
  ReportAgrees
PROPERTIES
  OwnedContract
  PortableContract
  RunEnds
CHECK_DEADLOCK FALSE

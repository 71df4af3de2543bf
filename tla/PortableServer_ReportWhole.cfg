SPECIFICATION Spec
CONSTANTS
  Tests = {show, change}
  Mutating = {change}
  All = all
  MaxJobs = 2
  MaxKills = 0
INVARIANTS
  ReportWhole
CHECK_DEADLOCK FALSE

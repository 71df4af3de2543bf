SPECIFICATION Spec
CONSTANTS
  MaxRecords = 3
  MaxBatch = 2
  MaxFailures = 2
INVARIANTS
  FailedRunOpens

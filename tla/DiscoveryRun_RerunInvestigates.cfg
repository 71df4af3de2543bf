SPECIFICATION Spec
CONSTANTS
  a1 = a1
  a2 = a2
  Answers <- MCAnswers
  None = None
  NumShards = 2
  NumModules = 1
  MaxAttempt = 1
  MaxFailures = 1
  MaxUpgrades = 0
INVARIANT RerunInvestigates

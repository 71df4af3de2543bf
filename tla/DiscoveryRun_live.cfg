SPECIFICATION FairSpec
CONSTANTS
  a1 = a1
  a2 = a2
  Answers <- MCAnswers
  None = None
  NumShards = 1
  NumModules = 2
  MaxAttempt = 2
  MaxFailures = 1
  MaxUpgrades = 0
PROPERTY ResumeCompletes

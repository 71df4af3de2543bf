SPECIFICATION Spec
CONSTANTS
  a1 = a1
  a2 = a2
  Answers <- MCAnswers
  None = None
  NumShards = 2
  NumModules = 2
  MaxAttempt = 2
  MaxFailures = 2
  MaxUpgrades = 1
SYMMETRY AnswerSymmetry
INVARIANTS
  TypeOK
  CompletedReadable
  FeaturesCurrent
  NeverStuck
  ApplicationCurrent
PROPERTY CompletedOutputStable

SPECIFICATION MCSpec
CONSTANTS
  BudgetTurns = 4
  BudgetFinalizeTurns = 0
  BudgetToolCalls = 3
  BudgetFormatRepairs = 0
  BudgetSemanticRepairs = 1
  MaxCalls = 2
  ContextBudget = 14
  CompactedSize = 2
  PromptSize = 1
  MessageSizes = {1, 5}
  SubmittedSize = 20
  RejectionBudget = 2
  ConversationGroups = 5
INVARIANTS
  WellFormed
  RepairBudgetsExact
  RequestsBounded
  RequestValid
  OnlyNeeded
CHECK_DEADLOCK FALSE

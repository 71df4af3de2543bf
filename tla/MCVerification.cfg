SPECIFICATION MCSpec
CONSTANTS
  secret = secret
  plain = plain
  redacted = redacted
  none = none
  module = module
  list = list
  open = open
  CodePeriod = 5
  CodeMargin = 2
  CodeDelay = 4
  CodeOversleep = 3
  Secret = secret
  Redacted = redacted
  None = none
  Interfaces = {1, 2, 3}
  Applications <- MCApplications
  Setups <- MCSetups
  ParamRoutes = {"/item/{id}"}
  Values = {plain}
  Features = {module, list, open}
  Parent <- MCParent
  DirectInterfaces <- MCDirect
  MaxInterfaces = 2
INVARIANTS
  AllAccounted
  VerifiedSound
  CodeSound
  SelectionSound
  ReplaySound
  PlanSound
CHECK_DEADLOCK FALSE

SPECIFICATION Spec
CONSTANTS
  Web = web
  API = api
  CLI = cli
  Background = background
  Integrations = integrations
  r1 = r1
  r2 = r2
  r3 = r3
  r4 = r4
  e1 = e1
  e2 = e2
  e3 = e3
  e4 = e4
  plain = plain
  old = old
  new = new
  Answers <- MCAnswers
  Accepted <- MCAccepted
  BackgroundAnswers <- MCBackgroundAnswers
  Worktrees <- ThreeTrees
  Targets <- OneTarget
  Applicable <- WebAndAPI
  WebRoutesPerGroup = 3
  MaxShardDepth = 1
  MaxFailures = 1
  MaxEdits = 2
INVARIANTS
  ExactCover
  LeavesCurrent
  StatesSound

SPECIFICATION Spec
CONSTANTS
  Parent = parent
  Child = child
  Others = {o1, o2}
  Stray = stray
  None = none
  LandsElsewhere = TRUE
INVARIANTS
  OnlyOwnDeleted
CHECK_DEADLOCK FALSE

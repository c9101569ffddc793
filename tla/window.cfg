SPECIFICATION Spec
CONSTANTS
  Window = mine
  Chosen = {other}
  None = None
  MaxClicks = 3
  MaxRuns = 2
INVARIANT StartedInside
INVARIANT SessionLeavesNothing
PROPERTY GuardReleased
CHECK_DEADLOCK FALSE

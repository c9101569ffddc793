SPECIFICATION Spec
CONSTANTS
  MaxSweeps = 1
  MaxFailures = 1
  WithTools = TRUE
INVARIANTS LiveLeftAlone
CHECK_DEADLOCK FALSE

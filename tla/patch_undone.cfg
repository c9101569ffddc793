SPECIFICATION Spec
CONSTANTS
  Paths = {"a", "b", "c"}
  Patches <- MCPatches
  MaxEdits = 0
  MaxFaults = 1
  MaxCrashes = 0
  MaxCalls = 2
INVARIANT UndoneTells
CHECK_DEADLOCK FALSE

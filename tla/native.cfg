SPECIFICATION FairSpec
CONSTANTS
  MaxSweeps = 1
  MaxFailures = 1
  WithTools = TRUE
INVARIANTS TypeOK ClosedMeansClean ToldTruth SweptMeansClean
PROPERTIES NeverBack GatewayGone AbandonedEnds
CHECK_DEADLOCK FALSE

SPECIFICATION MCFairSpec
CONSTANTS
  doc = doc
  ocr = ocr
  sum1 = sum1
  sum2 = sum2
  Items <- MCItems
  KindOf <- MCKindOf
  OcrOf <- MCOcrOf
  Rank <- MCRank
  Queued <- MCQueued
  Wired = {"document-extraction", "ocr", "summarize-local"}
  Concurrency <- MCConcurrency
  MaxCalls = 2
  MaxExits = 1
  MaxFaults = 1
INVARIANTS TypeOK NeverGivesUp ReservedOnDisk RunSettled CompletedMeansPublished
PROPERTIES KeepsCallBudget CompletedStays RunTerminates
CHECK_DEADLOCK FALSE

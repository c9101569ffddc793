SPECIFICATION MCSpec
CONSTANTS
  sum1 = sum1
  sum2 = sum2
  Items = {sum1}
  KindOf <- MCKindOf
  OcrOf <- MCOcrOf
  Rank <- MCRank
  Queued = {sum1}
  Wired = {"document-extraction", "ocr", "summarize-local"}
  Concurrency <- MCConcurrency
  MaxCalls = 3
  MaxExits = 1
  MaxFaults = 0
  Controllers = {"cli"}
  MaxCommands = 2
PROPERTY RetryUndoesCancel
CONSTRAINT WithinBudget
CHECK_DEADLOCK FALSE

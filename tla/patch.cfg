SPECIFICATION Spec
CONSTANTS
  Paths = {"a", "b", "c"}
  Patches <- MCPatches
  MaxEdits = 1
  MaxFaults = 3
  MaxCrashes = 1
  MaxCalls = 4
INVARIANTS TypeOK CallAtomic BackupHolds RecoveryHolds RecordTells
PROPERTIES NoBlindOverwrite HistoryKept
CHECK_DEADLOCK FALSE

SPECIFICATION BackupSpec
CONSTANTS
  Invocations <- ThreeInvocations
  Configs <- OneConfig
  Requests <- Others
  Serials = {0, 1}
  MaxClock = 0
  Threshold = 0
  MaxCrashes = 1
  BackupVersion = "1"
  MaxLosses = 1
INVARIANTS
  RetainedInOrder
  ReportsReadable
  SealedBundleRestores
  ScopeBootstrappedOnce
PROPERTIES
  RejectedForCause
CHECK_DEADLOCK FALSE

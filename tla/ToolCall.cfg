SPECIFICATION TCFairSpec
CONSTANTS
  Calls = {c1, c2}
  FailureThreshold = 2
  SuccessThreshold = 1
  RecoveryTimeout = 2
  CallTimeout = 1
  MaxFailures = 10
  Limit = 2
  MaxCalls = 4
INVARIANTS
  EveryCallObserved
  OutcomesDisjoint
  QuotaKept
PROPERTIES
  OpenSparesQuota
  ToolCallsEnd

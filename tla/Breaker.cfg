SPECIFICATION FairSpec
CONSTANTS
  Calls = {c1, c2, c3}
  FailureThreshold = 2
  SuccessThreshold = 2
  RecoveryTimeout = 2
  CallTimeout = 3
  MaxFailures = 7
INVARIANTS
  TypeOK
  CountersBelowThresholds
  OutageBounded
PROPERTIES
  ClosedByProbeOrLateCall
  ImplementsGate
  OpenIsTemporary

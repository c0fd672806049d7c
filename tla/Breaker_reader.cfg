SPECIFICATION STSpec
CONSTANTS
  Calls = {c1, c2}
  Readers = {r1}
  FailureThreshold = 2
  SuccessThreshold = 1
  RecoveryTimeout = 2
  CallTimeout = 1
  MaxFailures = 7
PROPERTIES
  HalfOpenAfterWindow

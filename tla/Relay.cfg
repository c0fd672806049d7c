SPECIFICATION RFairSpec
CONSTANTS
  Servers = {s1}
  Calls = {c1, c2}
  InitialBackoff = 1
  MaxBackoff = 2
  NoServer = NoServer
  FailureThreshold = 2
  SuccessThreshold = 2
  RecoveryTimeout = 2
  Null = Null
  Number = Number
  Settings <- MCSettings
  Followed <- MCFollowed
  Requests <- MCRequests
INVARIANTS
  RTypeOK
  InboundAsConfigured
  ValidConfigConnects
  StatusTellsCalls
PROPERTIES
  DeadSessionIsolated
  StartupAndShutdownEnd

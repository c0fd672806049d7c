SPECIFICATION Spec
CONSTANTS
  Servers = {s1, s2}
  Calls = {c1}
  InitialBackoff = 1
  MaxBackoff = 3
  NoServer = NoServer
INVARIANTS
  FallsBackAfterFailedStart

SPECIFICATION FairSpec
CONSTANTS
  Servers = {s1, s2}
  Calls = {c1, c2}
  InitialBackoff = 1
  MaxBackoff = 3
  NoServer = NoServer
INVARIANTS
  TypeOK
  EventMatchesSession
  WaitersHaveARunner
  NoLeak
PROPERTIES
  NoReopenAfterStop
  Reconnects
  StartAndStopEnd

SPECIFICATION Spec
CONSTANTS
  s1 = s1
  s2 = s2
  s3 = s3
  Servers = {s1, s2, s3}
  Auth <- ThreeServers
  Openers = {o1, o2}
  CacheTTL = 2
  Margin = 1
  Lifetimes = {3}
  Latency = 1
  Horizon = 5
  None = None
SYMMETRY Symmetry
INVARIANTS
  TypeOK
  ExpiredForLessThanTTL
PROPERTIES
  FreshWhenResolved

SPECIFICATION Spec
CONSTANTS
  Replicas = {r1, r2}
  Calls = {c1, c2}
  Backends = {"memory", "redis"}
  Limit = 1
  Subsecond = 2
  DaySeconds = 2
  Days = 2
  MaxPerDay = 3
SYMMETRY Symmetry
INVARIANTS
  TypeOK
  QuotaPerKey
  NewDayIsFresh
  LimitUntilLastSecond

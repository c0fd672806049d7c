------------------------------ MODULE RateLimiter ------------------------------
(****************************************************************************)
(* The daily quota of one server: rate_limiter.check over a state backend.  *)
(* The counter of a date lives in Redis, shared by the replicas, or in the  *)
(* memory of each replica.  With Redis a check is three steps on the wire:  *)
(* the key and its TTL are computed, INCR runs, and EXPIRE runs if INCR     *)
(* answered 1; the calling task can be cancelled, time out, lose its        *)
(* connection or die with its process at either await.                      *)
(*                                                                          *)
(* The clock counts ticks, Subsecond to the second: what int() drops when   *)
(* it rounds the seconds to midnight down is a number of ticks.             *)
(****************************************************************************)
EXTENDS Integers

CONSTANTS Replicas,      \* the relay processes
          Calls,         \* the slots of concurrent checks
          Backends,      \* the choices of STATE_BACKEND to check
          Limit,         \* requests_per_day
          Subsecond,     \* ticks in a second
          DaySeconds,    \* seconds in a day
          Days,          \* bound: the dates of the model
          MaxPerDay      \* bound: the checks begun on a date

ASSUME BackendAssumption == Backends \subseteq {"memory", "redis"}
ASSUME ReplicasAssumption == "redis" \notin Replicas
ASSUME LimitAssumption == Limit \in Nat \ {0}
ASSUME ClockAssumption == /\ Subsecond \in Nat \ {0}
                          /\ DaySeconds \in Nat \ {0}
                          /\ Days \in Nat \ {0}
ASSUME BoundAssumption == MaxPerDay \in Nat

VARIABLES
  backend,  \* STATE_BACKEND: where the counters are
  now,      \* the time, in ticks
  count,    \* in each store, the counter of each date; 0 is no key
  expiry,   \* in each store, when the key of each date expires, or Never
  pc,       \* where each check is
  replica,  \* the process a check runs in
  date,     \* the date in the key of a check
  ttl,      \* the TTL a check computed, in seconds
  begun,    \* history: the checks begun on each date
  admitted, \* history: the checks admitted since the key was created
  served    \* history: the checks admitted against each date's quota

clockVars == <<now, begun>>
storeVars == <<count, expiry, admitted>>
checkVars == <<pc, replica, date, ttl>>
vars == <<backend, clockVars, storeVars, checkVars, served>>

DayLength == DaySeconds * Subsecond
Dates == 0..(Days - 1)
Today == now \div DayLength
ToMidnight == (Today + 1) * DayLength - now

Redis == "redis"
Stores == {Redis} \cup Replicas

Never == -1

TypeOK ==
  /\ backend \in Backends
  /\ now \in 0..(Days * DayLength - 1)
  /\ count \in [Stores -> [Dates -> Nat]]
  /\ expiry \in [Stores -> [Dates -> Nat \cup {Never}]]
  /\ pc \in [Calls -> {"idle", "incr", "expire", "rejected"}]
  /\ replica \in [Calls -> Replicas]
  /\ date \in [Calls -> Dates]
  /\ ttl \in [Calls -> Nat]
  /\ begun \in [Dates -> Nat]
  /\ admitted \in [Stores -> [Dates -> Nat]]
  /\ served \in [Dates -> Nat]

Init ==
  /\ backend \in Backends
  /\ now = 0
  /\ count = [st \in Stores |-> [d \in Dates |-> 0]]
  /\ expiry = [st \in Stores |-> [d \in Dates |-> Never]]
  /\ pc = [c \in Calls |-> "idle"]
  /\ replica \in {[c \in Calls |-> r] : r \in Replicas}
  /\ date = [c \in Calls |-> 0]
  /\ ttl = [c \in Calls |-> 0]
  /\ begun = [d \in Dates |-> 0]
  /\ admitted = [st \in Stores |-> [d \in Dates |-> 0]]
  /\ served = [d \in Dates |-> 0]

-----------------------------------------------------------------------------

\* Mutants of SecondsUntilMidnight: the difference the wrong way round, and one
\* second short.
SecondsUntilMidnightSwapped == (now - (Today + 1) * DayLength) \div Subsecond
SecondsUntilMidnightShort ==
  IF ToMidnight \div Subsecond > 1 THEN (ToMidnight \div Subsecond) - 1 ELSE 1

\* _seconds_until_midnight: whole seconds, rounded down, at least one.
SecondsUntilMidnight ==
  IF ToMidnight \div Subsecond >= 1 THEN ToMidnight \div Subsecond ELSE 1

\* INCR, or the dict's += 1.
Increment(st, d) ==
  count' = [count EXCEPT ![st][d] = @ + 1]

\* Mutants of Exceeded: off by one, either way.
ExceededLate(new_count) == new_count > Limit + 1
ExceededEarly(new_count) == new_count >= Limit

Exceeded(new_count) == new_count > Limit

\* A check over the limit raises; otherwise the call goes on to the upstream.
Judge(c, st, d, new_count) ==
  IF Exceeded(new_count)
  THEN /\ pc' = [pc EXCEPT ![c] = "rejected"]
       /\ UNCHANGED <<admitted, served>>
  ELSE /\ pc' = [pc EXCEPT ![c] = "idle"]
       /\ admitted' = [admitted EXCEPT ![st][d] = @ + 1]
       /\ served' = [served EXCEPT ![d] = @ + 1]

\* check() in a process: the key and its TTL are computed, at one reading of
\* the clock.
Begin(c, r) ==
  /\ pc[c] = "idle" /\ begun[Today] < MaxPerDay
  /\ begun' = [begun EXCEPT ![Today] = @ + 1]
  /\ replica' = [replica EXCEPT ![c] = r]
  /\ date' = [date EXCEPT ![c] = Today]
  /\ ttl' = [ttl EXCEPT ![c] = SecondsUntilMidnight]

\* With the memory backend nothing awaits: the check is one step.
MemoryCheck(c, r) ==
  /\ backend = "memory"
  /\ Begin(c, r)
  /\ Increment(r, Today)
  /\ Judge(c, r, Today, count[r][Today] + 1)
  /\ UNCHANGED <<backend, now, expiry>>

RedisCheck(c, r) ==
  /\ backend = "redis"
  /\ Begin(c, r)
  /\ pc' = [pc EXCEPT ![c] = "incr"]
  /\ UNCHANGED <<backend, now, storeVars, served>>

Incr(c) ==
  LET new_count == count[Redis][date[c]] + 1 IN
  /\ pc[c] = "incr"
  /\ Increment(Redis, date[c])
  /\ IF new_count = 1
     THEN pc' = [pc EXCEPT ![c] = "expire"] /\ UNCHANGED <<admitted, served>>
     ELSE Judge(c, Redis, date[c], new_count)
  /\ UNCHANGED <<backend, clockVars, expiry, replica, date, ttl>>

\* INCR ran but its answer never reaches the check.
IncrLost(c) ==
  /\ pc[c] = "incr"
  /\ Increment(Redis, date[c])
  /\ pc' = [pc EXCEPT ![c] = "idle"]
  /\ UNCHANGED <<backend, clockVars, expiry, admitted, served, replica, date, ttl>>

Expire(c) ==
  /\ pc[c] = "expire"
  /\ expiry' = [expiry EXCEPT ![Redis][date[c]] = now + ttl[c] * Subsecond]
  /\ Judge(c, Redis, date[c], 1)
  /\ UNCHANGED <<backend, clockVars, count, replica, date, ttl>>

\* The breaker's timeout, a cancelled request, a lost connection: the check
\* ends at its await, before the command runs.
Abandon(c) ==
  /\ pc[c] \in {"incr", "expire"}
  /\ pc' = [pc EXCEPT ![c] = "idle"]
  /\ UNCHANGED <<backend, clockVars, storeVars, served, replica, date, ttl>>

Reject(c) ==
  /\ pc[c] = "rejected"
  /\ pc' = [pc EXCEPT ![c] = "idle"]
  /\ UNCHANGED <<backend, clockVars, storeVars, served, replica, date, ttl>>

\* A process restarts: its checks are gone, and so is what it held in memory.
Restart(r) ==
  /\ pc' = [c \in Calls |-> IF replica[c] = r THEN "idle" ELSE pc[c]]
  /\ IF backend = "memory"
     THEN /\ count' = [count EXCEPT ![r] = [d \in Dates |-> 0]]
          /\ admitted' = [admitted EXCEPT ![r] = [d \in Dates |-> 0]]
     ELSE UNCHANGED <<count, admitted>>
  /\ UNCHANGED <<backend, clockVars, expiry, served, replica, date, ttl>>

\* Redis removes a key when its time has come.
Tick ==
  LET Expired(st, d) == expiry[st][d] # Never /\ expiry[st][d] <= now + 1
      Keep(f, zero) == [st \in Stores |-> [d \in Dates |->
                          IF Expired(st, d) THEN zero ELSE f[st][d]]]
  IN
  /\ now < Days * DayLength - 1
  /\ now' = now + 1
  /\ count' = Keep(count, 0)
  /\ expiry' = Keep(expiry, Never)
  /\ admitted' = Keep(admitted, 0)
  /\ UNCHANGED <<backend, begun, checkVars, served>>

Next ==
  \/ \E c \in Calls :
       \/ \E r \in Replicas : MemoryCheck(c, r) \/ RedisCheck(c, r)
       \/ Incr(c) \/ IncrLost(c) \/ Expire(c) \/ Abandon(c) \/ Reject(c)
  \/ \E r \in Replicas : Restart(r)
  \/ Tick

Spec == Init /\ [][Next]_vars

-----------------------------------------------------------------------------

\* However the checks of all replicas interleave, are cut short or crash, no
\* more than Limit of them are admitted on one life of a counter.
QuotaPerKey ==
  \A st \in Stores, d \in Dates :
    admitted[st][d] <= Limit /\ admitted[st][d] <= count[st][d]

\* A day starts with its whole quota: a check is turned away only when more
\* than Limit checks were begun on its own date, even if the key of an
\* earlier date never expires or an earlier check is still under way.
NewDayIsFresh ==
  \A c \in Calls : pc[c] = "rejected" => begun[date[c]] > Limit

\* Rounding the TTL down can bring a key's end forward by less than a second:
\* up to the last second of the day the quota of the day is kept.
LimitUntilLastSecond ==
  backend = "redis" /\ ToMidnight >= Subsecond => served[Today] <= Limit
=============================================================================

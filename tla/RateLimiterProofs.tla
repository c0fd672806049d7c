--------------------------- MODULE RateLimiterProofs ---------------------------
(****************************************************************************)
(* The quota for any number of replicas and checks, any limit and any       *)
(* clock: a key never admits more than the limit, a day is not charged for  *)
(* another, and with Redis the limit of a day holds up to its last second.  *)
(****************************************************************************)
EXTENDS RateLimiter, FiniteSetTheorems, TLAPS

\* Whole days and seconds, and what is left of them.
LEMMA DivLemma ==
  ASSUME NEW a \in Nat, NEW b \in Nat \ {0}
  PROVE  /\ a \div b \in Nat
         /\ (a \div b) * b <= a
         /\ a < (a \div b) * b + b
OBVIOUS

\* A day and a second are at least a tick.
LEMMA UnitsLemma == DayLength \in Nat \ {0} /\ Days * DayLength \in Nat
BY ClockAssumption DEF DayLength

\* The date is one of the model's, and midnight is ahead.
LEMMA TodayLemma ==
  ASSUME TypeOK
  PROVE  /\ now \in Nat /\ Today \in Dates /\ Today \in Nat
         /\ (Today + 1) * DayLength \in Nat
         /\ ToMidnight \in Nat \ {0}
         /\ now + ToMidnight = (Today + 1) * DayLength
<1>1. now \in Nat /\ now < Days * DayLength
  BY UnitsLemma DEF TypeOK
<1>2. /\ Today \in Nat /\ Today * DayLength <= now
      /\ now < Today * DayLength + DayLength
  BY <1>1, UnitsLemma, DivLemma DEF Today
<1>3. Today < Days
  <2>1. SUFFICES ASSUME Today >= Days  PROVE FALSE
    BY <1>2, ClockAssumption
  <2>2. Today * DayLength >= Days * DayLength
    BY <1>2, <2>1, UnitsLemma, ClockAssumption
  <2>. QED  BY <1>1, <1>2, <2>2, UnitsLemma
<1>4. (Today + 1) * DayLength = Today * DayLength + DayLength
  BY <1>2, UnitsLemma
<1>. QED
  BY <1>1, <1>2, <1>3, <1>4, UnitsLemma, ClockAssumption DEF ToMidnight, Dates

\* The TTL reaches at least to the last second of the day.
LEMMA TTLLemma ==
  ASSUME TypeOK
  PROVE  /\ SecondsUntilMidnight \in Nat
         /\ SecondsUntilMidnight * Subsecond \in Nat
         /\ now + SecondsUntilMidnight * Subsecond > (Today + 1) * DayLength - Subsecond
<1>1. /\ ToMidnight \div Subsecond \in Nat
      /\ ToMidnight < (ToMidnight \div Subsecond) * Subsecond + Subsecond
      /\ (ToMidnight \div Subsecond) * Subsecond \in Nat
  <2>1. ToMidnight \in Nat /\ Subsecond \in Nat \ {0}
    BY TodayLemma, ClockAssumption
  <2>2. /\ ToMidnight \div Subsecond \in Nat
        /\ ToMidnight < (ToMidnight \div Subsecond) * Subsecond + Subsecond
    BY <2>1, DivLemma
  <2>. QED  BY <2>1, <2>2
<1>2. CASE ToMidnight \div Subsecond >= 1
  BY <1>1, <1>2, TodayLemma, ClockAssumption DEF SecondsUntilMidnight
<1>3. CASE ~(ToMidnight \div Subsecond >= 1)
  <2>1. ToMidnight \div Subsecond = 0 /\ SecondsUntilMidnight = 1
    BY <1>1, <1>3 DEF SecondsUntilMidnight
  <2>2. ToMidnight < Subsecond /\ SecondsUntilMidnight * Subsecond = Subsecond
    BY <1>1, <2>1, ClockAssumption
  <2>. QED  BY <2>1, <2>2, TodayLemma, ClockAssumption
<1>. QED  BY <1>2, <1>3
-----------------------------------------------------------------------------

\* What INCR does: the counter of one date in one store is one higher.
LEMMA IncrementLemma ==
  ASSUME TypeOK, NEW st \in Stores, NEW d \in Dates, Increment(st, d)
  PROVE  /\ count' \in [Stores -> [Dates -> Nat]]
         /\ count'[st][d] = count[st][d] + 1
         /\ \A s \in Stores, e \in Dates :
              s # st \/ e # d => count'[s][e] = count[s][e]
<1>1. /\ count \in [Stores -> [Dates -> Nat]]
      /\ count' = [count EXCEPT ![st][d] = @ + 1]
  BY DEF TypeOK, Increment
<1>. QED  BY <1>1

\* What judging a check does: it is turned away and nothing is admitted, or it
\* is admitted against its own key.
LEMMA JudgeLemma ==
  ASSUME TypeOK, NEW c \in Calls, NEW st \in Stores, NEW d \in Dates,
         NEW n \in Nat, Judge(c, st, d, n)
  PROVE  /\ pc' \in [Calls -> {"idle", "incr", "expire", "rejected"}]
         /\ admitted' \in [Stores -> [Dates -> Nat]]
         /\ served' \in [Dates -> Nat]
         /\ \A k \in Calls \ {c} : pc'[k] = pc[k]
         /\ \/ /\ n > Limit /\ pc'[c] = "rejected"
               /\ UNCHANGED <<admitted, served>>
            \/ /\ n <= Limit /\ pc'[c] = "idle"
               /\ admitted'[st][d] = admitted[st][d] + 1
               /\ served'[d] = served[d] + 1
               /\ \A s \in Stores, e \in Dates :
                    s # st \/ e # d => admitted'[s][e] = admitted[s][e]
               /\ \A e \in Dates \ {d} : served'[e] = served[e]
<1>1. /\ admitted \in [Stores -> [Dates -> Nat]]
      /\ served \in [Dates -> Nat]
      /\ pc \in [Calls -> {"idle", "incr", "expire", "rejected"}]
  BY DEF TypeOK
<1>2. CASE Exceeded(n)
  BY <1>1, <1>2 DEF Judge, Exceeded
<1>3. CASE ~Exceeded(n)
  <2>1. /\ admitted' = [admitted EXCEPT ![st][d] = @ + 1]
        /\ served' = [served EXCEPT ![d] = @ + 1]
        /\ pc' = [pc EXCEPT ![c] = "idle"]
        /\ n <= Limit
    BY <1>3, LimitAssumption DEF Judge, Exceeded
  <2>2. /\ admitted' \in [Stores -> [Dates -> Nat]]
        /\ admitted'[st][d] = admitted[st][d] + 1
        /\ \A s \in Stores, e \in Dates :
             s # st \/ e # d => admitted'[s][e] = admitted[s][e]
    BY <1>1, <2>1
  <2>3. /\ served' \in [Dates -> Nat]
        /\ served'[d] = served[d] + 1
        /\ \A e \in Dates \ {d} : served'[e] = served[e]
    BY <1>1, <2>1
  <2>. QED  BY <1>1, <2>1, <2>2, <2>3
<1>. QED  BY <1>2, <1>3

\* What the clock does: a key whose time has come is gone, every other stays.
LEMMA TickLemma ==
  ASSUME TypeOK, Tick
  PROVE  /\ now' = now + 1
         /\ count' \in [Stores -> [Dates -> Nat]]
         /\ expiry' \in [Stores -> [Dates -> Nat \cup {Never}]]
         /\ admitted' \in [Stores -> [Dates -> Nat]]
         /\ \A st \in Stores, d \in Dates :
              \/ /\ expiry[st][d] # Never /\ expiry[st][d] <= now + 1
                 /\ count'[st][d] = 0 /\ admitted'[st][d] = 0
                 /\ expiry'[st][d] = Never
              \/ /\ expiry[st][d] = Never \/ expiry[st][d] > now + 1
                 /\ count'[st][d] = count[st][d]
                 /\ admitted'[st][d] = admitted[st][d]
                 /\ expiry'[st][d] = expiry[st][d]
<1>1. /\ count \in [Stores -> [Dates -> Nat]]
      /\ expiry \in [Stores -> [Dates -> Nat \cup {Never}]]
      /\ admitted \in [Stores -> [Dates -> Nat]]
      /\ now \in Nat
  BY TodayLemma DEF TypeOK
<1>. DEFINE Expired(st, d) == expiry[st][d] # Never /\ expiry[st][d] <= now + 1
<1>2. /\ now' = now + 1
      /\ count' = [st \in Stores |-> [d \in Dates |->
                     IF Expired(st, d) THEN 0 ELSE count[st][d]]]
      /\ expiry' = [st \in Stores |-> [d \in Dates |->
                      IF Expired(st, d) THEN Never ELSE expiry[st][d]]]
      /\ admitted' = [st \in Stores |-> [d \in Dates |->
                        IF Expired(st, d) THEN 0 ELSE admitted[st][d]]]
  BY Zenon DEF Tick
<1>3. /\ count' \in [Stores -> [Dates -> Nat]]
      /\ expiry' \in [Stores -> [Dates -> Nat \cup {Never}]]
      /\ admitted' \in [Stores -> [Dates -> Nat]]
  BY <1>1, <1>2
<1>4. ASSUME NEW st \in Stores, NEW d \in Dates
      PROVE  /\ count'[st][d] = IF Expired(st, d) THEN 0 ELSE count[st][d]
             /\ expiry'[st][d] = IF Expired(st, d) THEN Never ELSE expiry[st][d]
             /\ admitted'[st][d] = IF Expired(st, d) THEN 0 ELSE admitted[st][d]
  BY <1>2, Zenon
<1>. QED  BY <1>1, <1>2, <1>3, <1>4 DEF Never

\* Every step keeps the types.
LEMMA TypeStep == TypeOK /\ [Next]_vars => TypeOK'
<1> SUFFICES ASSUME TypeOK, [Next]_vars
             PROVE  TypeOK'
  OBVIOUS
<1> USE DEF Redis, Stores
<1>1. ASSUME NEW c \in Calls, NEW r \in Replicas, MemoryCheck(c, r)
      PROVE  TypeOK'
  <2>1. Today \in Dates /\ SecondsUntilMidnight \in Nat
    BY TodayLemma, TTLLemma
  <2>2. /\ count[r][Today] + 1 \in Nat
        /\ Increment(r, Today) /\ Judge(c, r, Today, count[r][Today] + 1)
    BY <1>1, <2>1 DEF MemoryCheck, TypeOK
  <2>3. count' \in [Stores -> [Dates -> Nat]]
    BY <2>1, <2>2, IncrementLemma
  <2>4. /\ pc' \in [Calls -> {"idle", "incr", "expire", "rejected"}]
        /\ admitted' \in [Stores -> [Dates -> Nat]]
        /\ served' \in [Dates -> Nat]
    BY <2>1, <2>2, JudgeLemma
  <2>5. begun' \in [Dates -> Nat] /\ date' \in [Calls -> Dates]
    BY <1>1, <2>1 DEF MemoryCheck, Begin, TypeOK
  <2>6. replica' \in [Calls -> Replicas] /\ ttl' \in [Calls -> Nat]
    BY <1>1, <2>1 DEF MemoryCheck, Begin, TypeOK
  <2>7. UNCHANGED <<backend, now, expiry>>
    BY <1>1 DEF MemoryCheck
  <2>. QED  BY <2>3, <2>4, <2>5, <2>6, <2>7 DEF TypeOK
<1>2. ASSUME NEW c \in Calls, NEW r \in Replicas, RedisCheck(c, r)
      PROVE  TypeOK'
  <2>1. Today \in Dates /\ SecondsUntilMidnight \in Nat
    BY TodayLemma, TTLLemma
  <2>. QED
    BY <1>2, <2>1 DEF RedisCheck, Begin, TypeOK, storeVars
<1>3. ASSUME NEW c \in Calls, Incr(c)
      PROVE  TypeOK'
  <2>1. date[c] \in Dates /\ count[Redis][date[c]] + 1 \in Nat
    BY DEF TypeOK
  <2>2. count' \in [Stores -> [Dates -> Nat]]
    BY <1>3, <2>1, IncrementLemma DEF Incr
  <2>3. CASE count[Redis][date[c]] + 1 = 1
    BY <1>3, <2>2, <2>3 DEF Incr, TypeOK, clockVars
  <2>4. CASE count[Redis][date[c]] + 1 # 1
    <3>1. Judge(c, Redis, date[c], count[Redis][date[c]] + 1)
      BY <1>3, <2>4 DEF Incr
    <3>2. /\ pc' \in [Calls -> {"idle", "incr", "expire", "rejected"}]
          /\ admitted' \in [Stores -> [Dates -> Nat]]
          /\ served' \in [Dates -> Nat]
      BY <2>1, <3>1, JudgeLemma
    <3>. QED  BY <1>3, <2>2, <3>2 DEF Incr, TypeOK, clockVars
  <2>. QED  BY <2>3, <2>4
<1>4. ASSUME NEW c \in Calls, IncrLost(c)
      PROVE  TypeOK'
  <2>1. count' \in [Stores -> [Dates -> Nat]]
    BY <1>4, IncrementLemma DEF IncrLost, TypeOK
  <2>. QED  BY <1>4, <2>1 DEF IncrLost, TypeOK, clockVars
<1>5. ASSUME NEW c \in Calls, Expire(c)
      PROVE  TypeOK'
  <2>1. date[c] \in Dates /\ now + ttl[c] * Subsecond \in Nat
    <3>1. now \in Nat /\ ttl[c] \in Nat /\ Subsecond \in Nat
      BY TodayLemma, ClockAssumption DEF TypeOK
    <3>2. ttl[c] * Subsecond \in Nat
      BY <3>1
    <3>. QED  BY <3>1, <3>2 DEF TypeOK
  <2>2. expiry' \in [Stores -> [Dates -> Nat \cup {Never}]]
    BY <1>5, <2>1 DEF Expire, TypeOK
  <2>3. /\ pc' \in [Calls -> {"idle", "incr", "expire", "rejected"}]
        /\ admitted' \in [Stores -> [Dates -> Nat]]
        /\ served' \in [Dates -> Nat]
    BY <1>5, <2>1, JudgeLemma DEF Expire
  <2>. QED  BY <1>5, <2>2, <2>3 DEF Expire, TypeOK, clockVars
<1>6. ASSUME NEW c \in Calls, Abandon(c) \/ Reject(c)
      PROVE  TypeOK'
  BY <1>6 DEF Abandon, Reject, TypeOK, clockVars, storeVars
<1>7. ASSUME NEW r \in Replicas, Restart(r)
      PROVE  TypeOK'
  <2>1. pc' \in [Calls -> {"idle", "incr", "expire", "rejected"}]
    BY <1>7 DEF Restart, TypeOK
  <2>2. /\ count' \in [Stores -> [Dates -> Nat]]
        /\ admitted' \in [Stores -> [Dates -> Nat]]
    <3>1. [d \in Dates |-> 0] \in [Dates -> Nat]
      OBVIOUS
    <3>2. CASE backend = "memory"
      BY <1>7, <3>1, <3>2 DEF Restart, TypeOK
    <3>3. CASE backend # "memory"
      BY <1>7, <3>3 DEF Restart, TypeOK
    <3>. QED  BY <3>2, <3>3
  <2>. QED  BY <1>7, <2>1, <2>2 DEF Restart, TypeOK, clockVars
<1>8. CASE Tick
  <2>1. now' \in 0..(Days * DayLength - 1)
    BY <1>8, UnitsLemma DEF Tick, TypeOK
  <2>. QED  BY <1>8, <2>1, TickLemma DEF Tick, TypeOK, checkVars
<1>9. CASE UNCHANGED vars
  BY <1>9 DEF TypeOK, vars, clockVars, storeVars, checkVars
<1>. QED
  BY <1>1, <1>2, <1>3, <1>4, <1>5, <1>6, <1>7, <1>8, <1>9 DEF Next

\* The first state has the types.
LEMMA TypeInit == Init => TypeOK
<1> SUFFICES ASSUME Init  PROVE TypeOK
  OBVIOUS
<1>1. 0 \in Dates /\ 0 \in 0..(Days * DayLength - 1)
  <2>1. Days * DayLength > 0
    BY UnitsLemma, ClockAssumption
  <2>. QED  BY <2>1, UnitsLemma, ClockAssumption DEF Dates
<1>. QED  BY <1>1 DEF Init, TypeOK

\* Counters, TTLs and histories stay numbers of the model's dates, however
\* checks, crashes and the clock interleave.
THEOREM TypeCorrect == Spec => []TypeOK
BY TypeInit, TypeStep, PTL DEF Spec
-----------------------------------------------------------------------------

\* Of the checks on one key at most one owes it a TTL, the one INCR answered 1;
\* its own request is counted and not yet admitted.  A key with a TTL exists.
OwesTTL(c) ==
  /\ expiry[Redis][date[c]] = Never
  /\ admitted[Redis][date[c]] < count[Redis][date[c]]
  /\ admitted[Redis][date[c]] < Limit

NoAwaitInMemory ==
  backend = "memory" => \A c \in Calls : pc[c] \in {"idle", "rejected"}

NoKeyNoTTL ==
  \A d \in Dates : count[Redis][d] = 0 => expiry[Redis][d] = Never

OneOwesTTL ==
  /\ \A c \in Calls : pc[c] = "expire" => OwesTTL(c)
  /\ \A c, k \in Calls :
       pc[c] = "expire" /\ pc[k] = "expire" /\ date[c] = date[k] => c = k

KeyInv == QuotaPerKey /\ NoAwaitInMemory /\ NoKeyNoTTL /\ OneOwesTTL

\* Every step keeps it.
LEMMA KeyStep == TypeOK /\ KeyInv /\ [Next]_vars => KeyInv'
<1> SUFFICES ASSUME TypeOK, KeyInv, [Next]_vars
             PROVE  KeyInv'
  OBVIOUS
<1>. /\ Redis \in Stores /\ Replicas \subseteq Stores /\ Redis \notin Replicas
     /\ Limit \in Nat /\ Limit >= 1
  BY ReplicasAssumption, LimitAssumption DEF Redis, Stores
<1>t. /\ count \in [Stores -> [Dates -> Nat]]
      /\ admitted \in [Stores -> [Dates -> Nat]]
      /\ expiry \in [Stores -> [Dates -> Nat \cup {Never}]]
      /\ pc \in [Calls -> {"idle", "incr", "expire", "rejected"}]
      /\ date \in [Calls -> Dates]
  BY DEF TypeOK
<1>1. ASSUME NEW c \in Calls, NEW r \in Replicas, MemoryCheck(c, r)
      PROVE  KeyInv'
  <2>1. /\ backend = "memory" /\ backend' = backend
        /\ Increment(r, Today) /\ Judge(c, r, Today, count[r][Today] + 1)
    BY <1>1 DEF MemoryCheck
  <2>2. Today \in Dates /\ count[r][Today] + 1 \in Nat
    BY <1>t, TodayLemma
  <2>3. \A k \in Calls : pc'[k] \in {"idle", "rejected"}
    BY <2>1, <2>2, <1>t, JudgeLemma DEF KeyInv, NoAwaitInMemory
  <2>4. QuotaPerKey'
    <3>. SUFFICES ASSUME NEW st \in Stores, NEW d \in Dates
                  PROVE  admitted'[st][d] <= Limit /\ admitted'[st][d] <= count'[st][d]
      BY DEF QuotaPerKey
    <3>1. /\ admitted[st][d] <= Limit /\ admitted[st][d] <= count[st][d]
          /\ admitted[st][d] \in Nat /\ count[st][d] \in Nat
      BY <1>t DEF KeyInv, QuotaPerKey
    <3>2. count'[st][d] = IF st = r /\ d = Today THEN count[st][d] + 1 ELSE count[st][d]
      BY <2>1, <2>2, IncrementLemma
    <3>3. \/ admitted'[st][d] = admitted[st][d]
          \/ /\ st = r /\ d = Today /\ count[st][d] + 1 <= Limit
             /\ admitted'[st][d] = admitted[st][d] + 1
      BY <2>1, <2>2, JudgeLemma
    <3>. QED  BY <3>1, <3>2, <3>3
  <2>5. NoKeyNoTTL'
    <3>1. /\ \A d \in Dates : count'[Redis][d] = count[Redis][d]
          /\ expiry' = expiry
      BY <1>1, <2>1, <2>2, IncrementLemma DEF MemoryCheck
    <3>. QED  BY <3>1 DEF KeyInv, NoKeyNoTTL
  <2>6. NoAwaitInMemory' /\ OneOwesTTL'
    BY <2>3 DEF NoAwaitInMemory, OneOwesTTL
  <2>. QED  BY <2>4, <2>5, <2>6 DEF KeyInv
<1>2. ASSUME NEW c \in Calls, NEW r \in Replicas, RedisCheck(c, r)
      PROVE  KeyInv'
  <2>1. /\ backend = "redis" /\ UNCHANGED <<backend, count, expiry, admitted>>
        /\ pc' = [pc EXCEPT ![c] = "incr"]
        /\ date' = [date EXCEPT ![c] = Today]
    BY <1>2 DEF RedisCheck, Begin, storeVars
  <2>. QED
    BY <2>1, <1>t
    DEF KeyInv, QuotaPerKey, NoAwaitInMemory, NoKeyNoTTL, OneOwesTTL, OwesTTL
<1>3. ASSUME NEW c \in Calls, Incr(c)
      PROVE  KeyInv'
  <2>e. PICK e \in Dates : e = date[c]
    BY <1>t
  <2>1. /\ count[Redis][e] \in Nat /\ admitted[Redis][e] \in Nat
        /\ pc[c] = "incr" /\ Increment(Redis, e)
        /\ UNCHANGED <<backend, expiry, date>>
        /\ backend # "memory"
    BY <2>e, <1>3, <1>t DEF Incr, KeyInv, NoAwaitInMemory
  <2>2. /\ count' \in [Stores -> [Dates -> Nat]]
        /\ count'[Redis][e] = count[Redis][e] + 1
        /\ \A st \in Stores, d \in Dates :
             st # Redis \/ d # e => count'[st][d] = count[st][d]
    BY <2>e, <2>1, IncrementLemma
  <2>3. CASE count[Redis][e] + 1 = 1
    <3>1. pc' = [pc EXCEPT ![c] = "expire"] /\ UNCHANGED admitted
      BY <2>e, <1>3, <2>3 DEF Incr
    <3>2. count[Redis][e] = 0 /\ admitted[Redis][e] = 0 /\ expiry[Redis][e] = Never
      <4>1. count[Redis][e] = 0
        BY <2>1, <2>3
      <4>2. admitted[Redis][e] <= count[Redis][e] /\ expiry[Redis][e] = Never
        BY <4>1 DEF KeyInv, QuotaPerKey, NoKeyNoTTL
      <4>. QED  BY <2>1, <4>1, <4>2
    <3>3. \A k \in Calls : pc[k] = "expire" => date[k] # e
      BY <3>2 DEF KeyInv, OneOwesTTL, OwesTTL
    <3>4. QuotaPerKey'
      <4>. SUFFICES ASSUME NEW st \in Stores, NEW d \in Dates
                    PROVE  admitted'[st][d] <= Limit /\ admitted'[st][d] <= count'[st][d]
        BY DEF QuotaPerKey
      <4>1. /\ admitted[st][d] <= Limit /\ admitted[st][d] <= count[st][d]
            /\ admitted[st][d] \in Nat /\ count[st][d] \in Nat
        BY <1>t DEF KeyInv, QuotaPerKey
      <4>. QED  BY <2>e, <2>1, <2>2, <3>1, <4>1
    <3>5. NoKeyNoTTL'
      BY <2>1, <2>2, <3>2 DEF KeyInv, NoKeyNoTTL
    <3>6. OneOwesTTL'
      BY <2>e, <2>1, <2>2, <3>1, <3>2, <3>3, <1>t DEF KeyInv, OneOwesTTL, OwesTTL
    <3>. QED  BY <2>1, <3>4, <3>5, <3>6 DEF KeyInv, NoAwaitInMemory
  <2>4. CASE count[Redis][e] + 1 # 1
    <3>1. Judge(c, Redis, e, count[Redis][e] + 1)
      BY <2>e, <1>3, <2>4 DEF Incr
    <3>2. /\ admitted' \in [Stores -> [Dates -> Nat]]
          /\ \A k \in Calls : pc'[k] = pc[k] \/ pc'[k] \in {"idle", "rejected"}
          /\ \A st \in Stores, d \in Dates :
               \/ admitted'[st][d] = admitted[st][d]
               \/ /\ st = Redis /\ d = e /\ count[st][d] + 1 <= Limit
                  /\ admitted'[st][d] = admitted[st][d] + 1
      BY <2>1, <3>1, JudgeLemma
    <3>3. QuotaPerKey'
      <4>. SUFFICES ASSUME NEW st \in Stores, NEW d \in Dates
                    PROVE  admitted'[st][d] <= Limit /\ admitted'[st][d] <= count'[st][d]
        BY DEF QuotaPerKey
      <4>1. /\ admitted[st][d] <= Limit /\ admitted[st][d] <= count[st][d]
            /\ admitted[st][d] \in Nat /\ count[st][d] \in Nat
        BY <1>t DEF KeyInv, QuotaPerKey
      <4>. QED  BY <2>1, <2>2, <3>2, <4>1
    <3>4. NoKeyNoTTL'
      BY <2>1, <2>2 DEF KeyInv, NoKeyNoTTL
    <3>5. OneOwesTTL'
      <4>1. ASSUME NEW k \in Calls, pc[k] = "expire"
            PROVE  OwesTTL(k)'
        <5>1. /\ expiry[Redis][date[k]] = Never
              /\ admitted[Redis][date[k]] < count[Redis][date[k]]
              /\ admitted[Redis][date[k]] < Limit
          BY <4>1 DEF KeyInv, OneOwesTTL, OwesTTL
        <5>2. /\ date[k] \in Dates /\ admitted[Redis][date[k]] \in Nat
              /\ count[Redis][date[k]] \in Nat
          BY <1>t
        <5>. QED  BY <2>1, <2>2, <3>2, <5>1, <5>2 DEF OwesTTL
      <4>. QED  BY <2>1, <3>2, <4>1 DEF KeyInv, OneOwesTTL
    <3>. QED  BY <2>1, <3>3, <3>4, <3>5 DEF KeyInv, NoAwaitInMemory
  <2>. QED  BY <2>3, <2>4
<1>4. ASSUME NEW c \in Calls, IncrLost(c)
      PROVE  KeyInv'
  <2>e. PICK e \in Dates : e = date[c]
    BY <1>t
  <2>1. /\ Increment(Redis, e) /\ pc' = [pc EXCEPT ![c] = "idle"]
        /\ UNCHANGED <<backend, expiry, date, admitted>>
    BY <2>e, <1>4 DEF IncrLost
  <2>2. /\ count' \in [Stores -> [Dates -> Nat]]
        /\ count'[Redis][e] = count[Redis][e] + 1
        /\ \A st \in Stores, d \in Dates :
             st # Redis \/ d # e => count'[st][d] = count[st][d]
    BY <2>e, <2>1, IncrementLemma
  <2>3. QuotaPerKey'
    <3>. SUFFICES ASSUME NEW st \in Stores, NEW d \in Dates
                  PROVE  admitted'[st][d] <= Limit /\ admitted'[st][d] <= count'[st][d]
      BY DEF QuotaPerKey
    <3>1. /\ admitted[st][d] <= Limit /\ admitted[st][d] <= count[st][d]
          /\ admitted[st][d] \in Nat /\ count[st][d] \in Nat
      BY <1>t DEF KeyInv, QuotaPerKey
    <3>. QED  BY <2>1, <2>2, <3>1
  <2>4. NoKeyNoTTL'
    BY <2>1, <2>2, <1>t DEF KeyInv, NoKeyNoTTL
  <2>5. OneOwesTTL'
    <3>1. ASSUME NEW k \in Calls, pc[k] = "expire"
          PROVE  OwesTTL(k)'
      <4>1. /\ OwesTTL(k)
            /\ date[k] \in Dates /\ admitted[Redis][date[k]] \in Nat
            /\ count[Redis][date[k]] \in Nat
        BY <3>1, <1>t DEF KeyInv, OneOwesTTL
      <4>. QED  BY <2>1, <2>2, <4>1 DEF OwesTTL
    <3>. QED  BY <2>1, <3>1, <1>t DEF KeyInv, OneOwesTTL
  <2>. QED  BY <2>1, <2>3, <2>4, <2>5, <1>t DEF KeyInv, NoAwaitInMemory
<1>5. ASSUME NEW c \in Calls, Expire(c)
      PROVE  KeyInv'
  <2>e. PICK e \in Dates : e = date[c]
    BY <1>t
  <2>1. /\ pc[c] = "expire" /\ Judge(c, Redis, e, 1)
        /\ UNCHANGED <<backend, count, date>>
        /\ \A d \in Dates \ {e} : expiry'[Redis][d] = expiry[Redis][d]
    BY <2>e, <1>5, <1>t DEF Expire
  <2>2. /\ admitted' \in [Stores -> [Dates -> Nat]]
        /\ admitted'[Redis][e] = admitted[Redis][e] + 1
        /\ \A st \in Stores, d \in Dates :
             st # Redis \/ d # e => admitted'[st][d] = admitted[st][d]
        /\ pc'[c] = "idle" /\ \A k \in Calls \ {c} : pc'[k] = pc[k]
    BY <2>e, <2>1, JudgeLemma
  <2>3. \A k \in Calls \ {c} : pc'[k] = "expire" => date[k] # e
    BY <2>e, <2>1, <2>2 DEF KeyInv, OneOwesTTL
  <2>4. /\ admitted[Redis][e] < count[Redis][e] /\ admitted[Redis][e] < Limit
        /\ admitted[Redis][e] \in Nat /\ count[Redis][e] \in Nat
    BY <2>e, <2>1, <1>t DEF KeyInv, OneOwesTTL, OwesTTL
  <2>5. QuotaPerKey'
    <3>. SUFFICES ASSUME NEW st \in Stores, NEW d \in Dates
                  PROVE  admitted'[st][d] <= Limit /\ admitted'[st][d] <= count'[st][d]
      BY DEF QuotaPerKey
    <3>1. /\ admitted[st][d] <= Limit /\ admitted[st][d] <= count[st][d]
          /\ admitted[st][d] \in Nat /\ count[st][d] \in Nat
      BY <1>t DEF KeyInv, QuotaPerKey
    <3>. QED  BY <2>1, <2>2, <2>4, <3>1
  <2>6. NoKeyNoTTL'
    BY <2>1, <2>4 DEF KeyInv, NoKeyNoTTL
  <2>7. OneOwesTTL'
    <3>1. ASSUME NEW k \in Calls \ {c}, pc'[k] = "expire"
          PROVE  OwesTTL(k)'
      <4>1. /\ OwesTTL(k) /\ date[k] \in Dates \ {e}
        BY <2>2, <2>3, <3>1, <1>t DEF KeyInv, OneOwesTTL
      <4>. QED  BY <2>1, <2>2, <4>1 DEF OwesTTL
    <3>. QED  BY <2>1, <2>2, <3>1 DEF KeyInv, OneOwesTTL
  <2>. QED  BY <2>1, <2>2, <2>5, <2>6, <2>7 DEF KeyInv, NoAwaitInMemory
<1>6. ASSUME NEW c \in Calls, Abandon(c) \/ Reject(c)
      PROVE  KeyInv'
  <2>1. /\ pc' = [pc EXCEPT ![c] = "idle"]
        /\ UNCHANGED <<backend, count, expiry, admitted, date>>
    BY <1>6 DEF Abandon, Reject, storeVars
  <2>. QED
    BY <2>1, <1>t
    DEF KeyInv, QuotaPerKey, NoAwaitInMemory, NoKeyNoTTL, OneOwesTTL, OwesTTL
<1>7. ASSUME NEW r \in Replicas, Restart(r)
      PROVE  KeyInv'
  <2>1. /\ UNCHANGED <<backend, expiry, date>>
        /\ \A k \in Calls : pc'[k] = pc[k] \/ pc'[k] = "idle"
    BY <1>7 DEF Restart
  <2>2. \A d \in Dates : /\ count'[Redis][d] = count[Redis][d]
                         /\ admitted'[Redis][d] = admitted[Redis][d]
    BY <1>7, <1>t DEF Restart
  <2>3. QuotaPerKey'
    <3>1. \A st \in Stores, d \in Dates :
            \/ count'[st][d] = count[st][d] /\ admitted'[st][d] = admitted[st][d]
            \/ count'[st][d] = 0 /\ admitted'[st][d] = 0
      <4>1. CASE backend = "memory"
        BY <1>7, <4>1, <1>t DEF Restart
      <4>2. CASE backend # "memory"
        BY <1>7, <4>2 DEF Restart
      <4>. QED  BY <4>1, <4>2
    <3>. QED  BY <3>1 DEF KeyInv, QuotaPerKey
  <2>4. NoAwaitInMemory' /\ NoKeyNoTTL'
    BY <2>1, <2>2 DEF KeyInv, NoAwaitInMemory, NoKeyNoTTL
  <2>5. OneOwesTTL'
    BY <2>1, <2>2, <1>t DEF KeyInv, OneOwesTTL, OwesTTL
  <2>. QED  BY <2>3, <2>4, <2>5 DEF KeyInv
<1>8. CASE Tick
  <2>1. UNCHANGED <<backend, pc, date>>
    BY <1>8 DEF Tick, checkVars
  <2>2. \A st \in Stores, d \in Dates :
          \/ /\ count'[st][d] = 0 /\ admitted'[st][d] = 0
             /\ expiry'[st][d] = Never
          \/ /\ count'[st][d] = count[st][d] /\ admitted'[st][d] = admitted[st][d]
             /\ expiry'[st][d] = expiry[st][d]
    BY <1>8, TickLemma
  <2>3. QuotaPerKey' /\ NoKeyNoTTL'
    BY <2>2 DEF KeyInv, QuotaPerKey, NoKeyNoTTL
  <2>4. NoAwaitInMemory' /\ OneOwesTTL'
    BY <1>8, <2>1, <1>t, TickLemma DEF KeyInv, NoAwaitInMemory, OneOwesTTL, OwesTTL
  <2>. QED  BY <2>3, <2>4 DEF KeyInv
<1>9. CASE UNCHANGED vars
  BY <1>9
  DEF KeyInv, QuotaPerKey, NoAwaitInMemory, NoKeyNoTTL, OneOwesTTL, OwesTTL,
      vars, storeVars, checkVars
<1>. QED
  BY <1>1, <1>2, <1>3, <1>4, <1>5, <1>6, <1>7, <1>8, <1>9 DEF Next

\* However the checks of all replicas interleave, are cut short or crash, one
\* life of a counter never admits more requests than requests_per_day.
THEOREM QuotaHolds == Spec => []QuotaPerKey
<1>1. Init => KeyInv
  BY LimitAssumption
  DEF Init, KeyInv, QuotaPerKey, NoAwaitInMemory, NoKeyNoTTL, OneOwesTTL, OwesTTL, Redis, Stores
<1>2. KeyInv => QuotaPerKey
  BY DEF KeyInv
<1>. QED  BY <1>1, <1>2, TypeInit, TypeStep, KeyStep, PTL DEF Spec
-----------------------------------------------------------------------------

\* When the last second of a date begins.
LastSecond(d) == (d + 1) * DayLength - Subsecond

\* No TTL, set or still to be set, ends before its date's last second; until
\* then the key has seen all that the date has served.
TTLReachesLastSecond ==
  \A c \in Calls :
    pc[c] \in {"incr", "expire"} => now + ttl[c] * Subsecond > LastSecond(date[c])

KeyReachesLastSecond ==
  \A d \in Dates : expiry[Redis][d] # Never => expiry[Redis][d] > LastSecond(d)

KeySawAll ==
  backend = "redis" =>
    \A d \in Dates : now <= LastSecond(d) => served[d] = admitted[Redis][d]

LastSecondInv == TTLReachesLastSecond /\ KeyReachesLastSecond /\ KeySawAll

\* Every step keeps it.
LEMMA LastSecondStep ==
  TypeOK /\ LastSecondInv /\ [Next]_vars => LastSecondInv'
<1> SUFFICES ASSUME TypeOK, LastSecondInv, [Next]_vars
             PROVE  LastSecondInv'
  OBVIOUS
<1>. Redis \in Stores
  BY DEF Redis, Stores
<1>t. /\ admitted \in [Stores -> [Dates -> Nat]]
      /\ expiry \in [Stores -> [Dates -> Nat \cup {Never}]]
      /\ pc \in [Calls -> {"idle", "incr", "expire", "rejected"}]
      /\ date \in [Calls -> Dates] /\ ttl \in [Calls -> Nat]
      /\ served \in [Dates -> Nat] /\ now \in Nat
  BY TodayLemma DEF TypeOK
<1>d. /\ \A d \in Dates : LastSecond(d) \in Int
      /\ \A c \in Calls : ttl[c] * Subsecond \in Nat
  <2>1. ASSUME NEW d \in Dates  PROVE LastSecond(d) \in Int
    BY UnitsLemma, ClockAssumption DEF LastSecond, Dates
  <2>2. ASSUME NEW c \in Calls  PROVE ttl[c] * Subsecond \in Nat
    BY <1>t, ClockAssumption
  <2>. QED  BY <2>1, <2>2
<1>1. ASSUME NEW c \in Calls, NEW r \in Replicas,
             MemoryCheck(c, r) \/ RedisCheck(c, r)
      PROVE  LastSecondInv'
  <2>1. /\ date' = [date EXCEPT ![c] = Today]
        /\ ttl' = [ttl EXCEPT ![c] = SecondsUntilMidnight]
        /\ UNCHANGED <<backend, now, expiry>>
        /\ backend = "redis" => UNCHANGED <<admitted, served>>
    BY <1>1 DEF MemoryCheck, RedisCheck, Begin, storeVars
  <2>2. \A k \in Calls \ {c} : pc'[k] = pc[k]
    <3>1. CASE MemoryCheck(c, r)
      <4>1. /\ Today \in Dates /\ Judge(c, r, Today, count[r][Today] + 1)
            /\ count[r][Today] + 1 \in Nat
        BY <3>1, TodayLemma DEF MemoryCheck, TypeOK, Stores
      <4>. QED  BY <4>1, JudgeLemma DEF Stores
    <3>2. CASE RedisCheck(c, r)
      BY <3>2, <1>t DEF RedisCheck
    <3>. QED  BY <1>1, <3>1, <3>2
  <2>3. /\ ttl'[c] = SecondsUntilMidnight /\ date'[c] = Today
        /\ now + SecondsUntilMidnight * Subsecond > LastSecond(Today)
    BY <2>1, <1>t, TTLLemma DEF LastSecond
  <2>4. ASSUME NEW k \in Calls, pc'[k] \in {"incr", "expire"}
        PROVE  now' + ttl'[k] * Subsecond > LastSecond(date'[k])
    <3>1. CASE k = c
      BY <2>1, <2>3, <3>1
    <3>2. CASE k # c
      BY <2>1, <2>2, <2>4, <3>2, <1>t DEF LastSecondInv, TTLReachesLastSecond
    <3>. QED  BY <3>1, <3>2
  <2>5. TTLReachesLastSecond'
    BY <2>4 DEF TTLReachesLastSecond, LastSecond
  <2>6. KeyReachesLastSecond' /\ KeySawAll'
    BY <2>1 DEF LastSecondInv, KeyReachesLastSecond, KeySawAll, LastSecond
  <2>. QED  BY <2>5, <2>6 DEF LastSecondInv
<1>2. ASSUME NEW c \in Calls, Incr(c) \/ IncrLost(c)
      PROVE  LastSecondInv'
  <2>e. PICK e \in Dates : e = date[c]
    BY <1>t
  <2>1. /\ pc[c] = "incr"
        /\ UNCHANGED <<backend, now, expiry, date, ttl>>
    BY <1>2 DEF Incr, IncrLost, clockVars
  <2>2. /\ \A k \in Calls \ {c} : pc'[k] = pc[k]
        /\ \/ UNCHANGED <<admitted, served>>
           \/ /\ admitted'[Redis][e] = admitted[Redis][e] + 1
              /\ served'[e] = served[e] + 1
              /\ \A d \in Dates \ {e} : /\ admitted'[Redis][d] = admitted[Redis][d]
                                       /\ served'[d] = served[d]
    <3>1. CASE Judge(c, Redis, e, count[Redis][e] + 1)
      <4>1. count[Redis][e] + 1 \in Nat
        BY DEF TypeOK
      <4>. QED  BY <3>1, <4>1, JudgeLemma
    <3>2. CASE UNCHANGED <<admitted, served>> /\ pc' \in {[pc EXCEPT ![c] = "expire"], [pc EXCEPT ![c] = "idle"]}
      BY <3>2, <1>t
    <3>. QED  BY <2>e, <3>1, <3>2, <1>2 DEF Incr, IncrLost
  <2>3. TTLReachesLastSecond'
    BY <2>1, <2>2 DEF LastSecondInv, TTLReachesLastSecond, LastSecond
  <2>4. KeyReachesLastSecond'
    BY <2>1 DEF LastSecondInv, KeyReachesLastSecond, LastSecond
  <2>5. KeySawAll'
    BY <2>1, <2>2 DEF LastSecondInv, KeySawAll, LastSecond
  <2>. QED  BY <2>3, <2>4, <2>5 DEF LastSecondInv
<1>3. ASSUME NEW c \in Calls, Expire(c)
      PROVE  LastSecondInv'
  <2>e. PICK e \in Dates : e = date[c]
    BY <1>t
  <2>1. /\ pc[c] = "expire" /\ Judge(c, Redis, e, 1)
        /\ UNCHANGED <<backend, now, date, ttl>>
        /\ expiry'[Redis][e] = now + ttl[c] * Subsecond
        /\ \A d \in Dates \ {e} : expiry'[Redis][d] = expiry[Redis][d]
    BY <2>e, <1>3, <1>t DEF Expire, clockVars
  <2>2. /\ \A k \in Calls \ {c} : pc'[k] = pc[k]
        /\ pc'[c] \in {"idle", "rejected"}
        /\ \/ UNCHANGED <<admitted, served>>
           \/ /\ admitted'[Redis][e] = admitted[Redis][e] + 1
              /\ served'[e] = served[e] + 1
              /\ \A d \in Dates \ {e} : /\ admitted'[Redis][d] = admitted[Redis][d]
                                       /\ served'[d] = served[d]
    BY <2>1, JudgeLemma
  <2>3. TTLReachesLastSecond'
    BY <2>1, <2>2 DEF LastSecondInv, TTLReachesLastSecond, LastSecond
  <2>4. KeyReachesLastSecond'
    <3>1. now + ttl[c] * Subsecond > LastSecond(e)
      BY <2>e, <2>1 DEF LastSecondInv, TTLReachesLastSecond
    <3>. QED  BY <2>1, <3>1 DEF LastSecondInv, KeyReachesLastSecond, LastSecond
  <2>5. KeySawAll'
    BY <2>1, <2>2 DEF LastSecondInv, KeySawAll, LastSecond
  <2>. QED  BY <2>3, <2>4, <2>5 DEF LastSecondInv
<1>4. ASSUME NEW c \in Calls, Abandon(c) \/ Reject(c)
      PROVE  LastSecondInv'
  <2>1. /\ pc' = [pc EXCEPT ![c] = "idle"]
        /\ UNCHANGED <<backend, now, date, ttl, expiry, admitted, served>>
    BY <1>4 DEF Abandon, Reject, storeVars, clockVars
  <2>. QED
    BY <2>1, <1>t
    DEF LastSecondInv, TTLReachesLastSecond, KeyReachesLastSecond, KeySawAll,
        LastSecond
<1>5. ASSUME NEW r \in Replicas, Restart(r)
      PROVE  LastSecondInv'
  <2>1. /\ \A k \in Calls : pc'[k] = pc[k] \/ pc'[k] = "idle"
        /\ UNCHANGED <<backend, now, date, ttl, expiry, served>>
        /\ backend = "redis" => UNCHANGED admitted
    BY <1>5 DEF Restart, clockVars
  <2>. QED
    BY <2>1
    DEF LastSecondInv, TTLReachesLastSecond, KeyReachesLastSecond, KeySawAll,
        LastSecond
<1>6. CASE Tick
  <2>1. UNCHANGED <<backend, pc, date, ttl, served>> /\ now' = now + 1
    BY <1>6 DEF Tick, checkVars
  <2>2. TTLReachesLastSecond'
    BY <2>1, <1>t, <1>d DEF LastSecondInv, TTLReachesLastSecond, LastSecond
  <2>3. KeyReachesLastSecond'
    BY <1>6, TickLemma DEF LastSecondInv, KeyReachesLastSecond, LastSecond
  <2>4. KeySawAll'
    <3>. SUFFICES ASSUME backend = "redis", NEW d \in Dates,
                         now + 1 <= LastSecond(d)
                  PROVE  served[d] = admitted'[Redis][d]
      BY <2>1 DEF KeySawAll, LastSecond
    <3>1. now <= LastSecond(d) /\ served[d] = admitted[Redis][d]
      BY <1>t, <1>d DEF LastSecondInv, KeySawAll
    <3>2. ~(expiry[Redis][d] # Never /\ expiry[Redis][d] <= now + 1)
      BY <1>t, <1>d DEF LastSecondInv, KeyReachesLastSecond, Never
    <3>. QED  BY <1>6, <3>1, <3>2, TickLemma
  <2>. QED  BY <2>2, <2>3, <2>4 DEF LastSecondInv
<1>7. CASE UNCHANGED vars
  BY <1>7
  DEF LastSecondInv, TTLReachesLastSecond, KeyReachesLastSecond, KeySawAll,
      LastSecond, vars, clockVars, storeVars, checkVars
<1>. QED
  BY <1>1, <1>2, <1>3, <1>4, <1>5, <1>6, <1>7 DEF Next

\* With Redis a day serves no more than requests_per_day up to its last second:
\* int() in _seconds_until_midnight costs the key less than a second.
THEOREM LimitHoldsUntilLastSecond == Spec => []LimitUntilLastSecond
<1>1. Init => KeyInv /\ LastSecondInv
  BY LimitAssumption
  DEF Init, KeyInv, QuotaPerKey, NoAwaitInMemory, NoKeyNoTTL, OneOwesTTL,
      OwesTTL, LastSecondInv, TTLReachesLastSecond, KeyReachesLastSecond,
      KeySawAll, Redis, Stores
<1>2. TypeOK /\ KeyInv /\ LastSecondInv => LimitUntilLastSecond
  <2>. SUFFICES ASSUME TypeOK, KeyInv, LastSecondInv, backend = "redis",
                       ToMidnight >= Subsecond
                PROVE  served[Today] <= Limit
    BY DEF LimitUntilLastSecond
  <2>1. Today \in Dates /\ now <= LastSecond(Today)
    BY TodayLemma, ClockAssumption DEF LastSecond
  <2>2. served[Today] = admitted[Redis][Today]
    BY <2>1 DEF LastSecondInv, KeySawAll
  <2>. QED  BY <2>1, <2>2 DEF KeyInv, QuotaPerKey, Redis, Stores
<1>. QED
  BY <1>1, <1>2, TypeInit, TypeStep, KeyStep, LastSecondStep, PTL DEF Spec
-----------------------------------------------------------------------------

\* The checks of a date whose INCR is still to run.
Pending(d) == {c \in Calls : pc[c] = "incr" /\ date[c] = d}

\* A date is charged for no more checks than began on it, those still to be
\* counted included, and a check turned away saw its own date's limit passed.
SharedCharge(d) ==
  /\ IsFiniteSet(Pending(d))
  /\ count[Redis][d] + Cardinality(Pending(d)) <= begun[d]

ChargeInv ==
  /\ \A d \in Dates : SharedCharge(d)
  /\ \A r \in Replicas, d \in Dates : count[r][d] <= begun[d]
  /\ NewDayIsFresh

\* A date stays within its charge while its counter does not grow, its checks
\* begun do not shrink and no check of it starts to wait.
LEMMA ChargeShrinks ==
  ASSUME TypeOK, TypeOK', NEW d \in Dates, SharedCharge(d),
         count'[Redis][d] <= count[Redis][d], begun'[d] >= begun[d],
         Pending(d)' \subseteq Pending(d)
  PROVE  SharedCharge(d)'
<1>1. /\ IsFiniteSet(Pending(d)')
      /\ Cardinality(Pending(d)') <= Cardinality(Pending(d))
  BY FS_Subset DEF SharedCharge
<1>2. Cardinality(Pending(d)') \in Nat /\ Cardinality(Pending(d)) \in Nat
  BY <1>1, FS_CardinalityType DEF SharedCharge
<1>3. /\ count[Redis][d] \in Nat /\ begun[d] \in Nat
      /\ count'[Redis][d] \in Nat /\ begun'[d] \in Nat
  BY DEF TypeOK, Redis, Stores
<1>4. count'[Redis][d] + Cardinality(Pending(d)') <= begun'[d]
  BY <1>1, <1>2, <1>3 DEF SharedCharge
<1>. QED  BY <1>1, <1>4 DEF SharedCharge

\* Every step keeps it.
LEMMA ChargeStep ==
  TypeOK /\ TypeOK' /\ ChargeInv /\ [Next]_vars => ChargeInv'
<1> SUFFICES ASSUME TypeOK, TypeOK', ChargeInv, [Next]_vars
             PROVE  ChargeInv'
  OBVIOUS
<1>. /\ Redis \in Stores /\ Replicas \subseteq Stores /\ Redis \notin Replicas
     /\ Limit \in Nat /\ Limit >= 1
  BY ReplicasAssumption, LimitAssumption DEF Redis, Stores
<1>t. /\ count \in [Stores -> [Dates -> Nat]]
      /\ count' \in [Stores -> [Dates -> Nat]]
      /\ pc \in [Calls -> {"idle", "incr", "expire", "rejected"}]
      /\ date \in [Calls -> Dates] /\ begun \in [Dates -> Nat]
      /\ begun' \in [Dates -> Nat]
  BY DEF TypeOK
<1>1. ASSUME NEW c \in Calls, NEW r \in Replicas, MemoryCheck(c, r)
      PROVE  ChargeInv'
  <2>1. /\ pc[c] = "idle" /\ date' = [date EXCEPT ![c] = Today]
        /\ begun' = [begun EXCEPT ![Today] = @ + 1]
        /\ Increment(r, Today) /\ Judge(c, r, Today, count[r][Today] + 1)
    BY <1>1 DEF MemoryCheck, Begin
  <2>2. Today \in Dates /\ count[r][Today] + 1 \in Nat /\ count[r][Today] \in Nat
    BY <1>t, TodayLemma
  <2>3. /\ count'[r][Today] = count[r][Today] + 1
        /\ \A st \in Stores, d \in Dates :
             st # r \/ d # Today => count'[st][d] = count[st][d]
    BY <2>1, <2>2, IncrementLemma
  <2>4. /\ \A k \in Calls \ {c} : pc'[k] = pc[k]
        /\ \/ pc'[c] = "rejected" /\ count[r][Today] + 1 > Limit
           \/ pc'[c] = "idle"
    BY <2>1, <2>2, JudgeLemma
  <2>5. begun'[Today] = begun[Today] + 1 /\ \A d \in Dates : begun'[d] >= begun[d]
    BY <2>1, <2>2, <1>t
  <2>6. ASSUME NEW d \in Dates  PROVE SharedCharge(d)'
    <3>1. Pending(d)' \subseteq Pending(d)
      BY <2>1, <2>4, <1>t DEF Pending
    <3>2. count'[Redis][d] <= count[Redis][d]
      BY <2>3, <1>t
    <3>. QED  BY <2>5, <3>1, <3>2, ChargeShrinks DEF ChargeInv
  <2>7. ASSUME NEW q \in Replicas, NEW d \in Dates
        PROVE  count'[q][d] <= begun'[d]
    <3>1. /\ count[q][d] <= begun[d] /\ count[q][d] \in Nat
          /\ begun[d] \in Nat /\ begun'[d] \in Nat
      BY <1>t DEF ChargeInv
    <3>. QED  BY <2>3, <2>5, <3>1
  <2>8. NewDayIsFresh'
    <3>1. ASSUME NEW k \in Calls, pc'[k] = "rejected"
          PROVE  begun'[date'[k]] > Limit
      <4>1. CASE k = c
        <5>1. date'[k] = Today /\ count[r][Today] <= begun[Today] /\ begun[Today] \in Nat
          BY <2>1, <2>2, <1>t, <4>1 DEF ChargeInv
        <5>. QED  BY <2>2, <2>4, <2>5, <3>1, <4>1, <5>1
      <4>2. CASE k # c
        <5>1. /\ date'[k] = date[k] /\ date[k] \in Dates /\ begun[date[k]] > Limit
          BY <2>1, <2>4, <3>1, <1>t, <4>2 DEF ChargeInv, NewDayIsFresh
        <5>. QED  BY <2>5, <1>t, <5>1
      <4>. QED  BY <4>1, <4>2
    <3>. QED  BY <3>1 DEF NewDayIsFresh
  <2>. QED  BY <2>6, <2>7, <2>8 DEF ChargeInv
<1>2. ASSUME NEW c \in Calls, NEW r \in Replicas, RedisCheck(c, r)
      PROVE  ChargeInv'
  <2>t. PICK t \in Dates : t = Today
    BY TodayLemma
  <2>1. /\ pc[c] = "idle" /\ date' = [date EXCEPT ![c] = t]
        /\ begun' = [begun EXCEPT ![t] = @ + 1]
        /\ pc' = [pc EXCEPT ![c] = "incr"] /\ UNCHANGED count
    BY <1>2, <2>t DEF RedisCheck, Begin, storeVars
  <2>2. /\ begun'[t] = begun[t] + 1
        /\ \A d \in Dates \ {t} : begun'[d] = begun[d]
        /\ \A d \in Dates : begun'[d] >= begun[d]
    BY <2>1, <1>t
  <2>3. SharedCharge(t)'
    <3>1. Pending(t)' = Pending(t) \cup {c} /\ c \notin Pending(t)
      BY <2>1, <1>t DEF Pending
    <3>2. /\ IsFiniteSet(Pending(t)')
          /\ Cardinality(Pending(t)') = Cardinality(Pending(t)) + 1
          /\ Cardinality(Pending(t)) \in Nat
      BY <2>2, <3>1, FS_AddElement, FS_CardinalityType DEF ChargeInv, SharedCharge
    <3>3. /\ count[Redis][t] + Cardinality(Pending(t)) <= begun[t]
          /\ count[Redis][t] \in Nat /\ begun[t] \in Nat
      BY <2>2, <1>t DEF ChargeInv, SharedCharge
    <3>4. count'[Redis][t] + Cardinality(Pending(t)') <= begun'[t]
      BY <2>1, <2>2, <3>2, <3>3
    <3>. QED  BY <3>2, <3>4 DEF SharedCharge
  <2>4. ASSUME NEW d \in Dates \ {t}  PROVE SharedCharge(d)'
    <3>1. Pending(d)' \subseteq Pending(d)
      BY <2>1, <1>t DEF Pending
    <3>. QED  BY <2>1, <2>2, <1>t, <3>1, ChargeShrinks DEF ChargeInv
  <2>5. ASSUME NEW q \in Replicas, NEW d \in Dates
        PROVE  count'[q][d] <= begun'[d]
    <3>1. /\ count[q][d] <= begun[d] /\ count[q][d] \in Nat /\ begun[d] \in Nat
      BY <1>t DEF ChargeInv
    <3>. QED  BY <2>1, <2>2, <3>1
  <2>6. NewDayIsFresh'
    <3>1. ASSUME NEW k \in Calls, pc'[k] = "rejected"
          PROVE  begun'[date'[k]] > Limit
      <4>1. k # c /\ date'[k] = date[k] /\ date[k] \in Dates /\ begun[date[k]] > Limit
        BY <2>1, <3>1, <1>t DEF ChargeInv, NewDayIsFresh
      <4>. QED  BY <2>2, <4>1, <1>t
    <3>. QED  BY <3>1 DEF NewDayIsFresh
  <2>. QED  BY <2>3, <2>4, <2>5, <2>6 DEF ChargeInv
<1>3. ASSUME NEW c \in Calls, Incr(c) \/ IncrLost(c)
      PROVE  ChargeInv'
  <2>e. PICK e \in Dates : e = date[c]
    BY <1>t
  <2>1. /\ pc[c] = "incr" /\ Increment(Redis, e) /\ UNCHANGED <<begun, date>>
        /\ count[Redis][e] \in Nat /\ begun[e] \in Nat
    BY <2>e, <1>3, <1>t DEF Incr, IncrLost, clockVars
  <2>2. /\ count'[Redis][e] = count[Redis][e] + 1
        /\ \A st \in Stores, d \in Dates :
             st # Redis \/ d # e => count'[st][d] = count[st][d]
    BY <2>1, IncrementLemma
  <2>3. /\ \A k \in Calls \ {c} : pc'[k] = pc[k]
        /\ pc'[c] # "incr"
        /\ pc'[c] = "rejected" => count[Redis][e] + 1 > Limit
    <3>1. CASE Judge(c, Redis, e, count[Redis][e] + 1)
      BY <2>1, <3>1, JudgeLemma
    <3>2. CASE pc' \in {[pc EXCEPT ![c] = "expire"], [pc EXCEPT ![c] = "idle"]}
      BY <3>2, <1>t
    <3>. QED  BY <2>e, <3>1, <3>2, <1>3 DEF Incr, IncrLost
  <2>4. /\ c \in Pending(e) /\ Pending(e)' = Pending(e) \ {c}
        /\ \A d \in Dates \ {e} : Pending(d)' \subseteq Pending(d)
    BY <2>e, <2>1, <2>3 DEF Pending
  <2>5. /\ IsFiniteSet(Pending(e)')
        /\ Cardinality(Pending(e)) \in Nat /\ Cardinality(Pending(e)') \in Nat
        /\ Cardinality(Pending(e)') = Cardinality(Pending(e)) - 1
    <3>1. IsFiniteSet(Pending(e))
      BY DEF ChargeInv, SharedCharge
    <3>2. IsFiniteSet(Pending(e)')
          /\ Cardinality(Pending(e)') = Cardinality(Pending(e)) - 1
      BY <2>4, <3>1, FS_RemoveElement
    <3>. QED  BY <3>1, <3>2, FS_CardinalityType
  <2>6. count[Redis][e] + 1 <= begun[e] /\ SharedCharge(e)'
    <3>1. count[Redis][e] + Cardinality(Pending(e)) <= begun[e]
      BY DEF ChargeInv, SharedCharge
    <3>2. count'[Redis][e] + Cardinality(Pending(e)') <= begun'[e]
      BY <2>1, <2>2, <2>5, <3>1
    <3>. QED  BY <2>1, <2>5, <3>1, <3>2 DEF SharedCharge
  <2>7. ASSUME NEW d \in Dates \ {e}  PROVE SharedCharge(d)'
    BY <2>1, <2>2, <2>4, <1>t, ChargeShrinks DEF ChargeInv
  <2>8. ASSUME NEW q \in Replicas, NEW d \in Dates
        PROVE  count'[q][d] <= begun'[d]
    BY <2>1, <2>2 DEF ChargeInv
  <2>9. NewDayIsFresh'
    <3>1. ASSUME NEW k \in Calls, pc'[k] = "rejected"
          PROVE  begun'[date'[k]] > Limit
      <4>1. CASE k = c
        BY <2>e, <2>1, <2>3, <2>6, <3>1, <4>1
      <4>2. CASE k # c
        BY <2>1, <2>3, <3>1, <4>2 DEF ChargeInv, NewDayIsFresh
      <4>. QED  BY <4>1, <4>2
    <3>. QED  BY <3>1 DEF NewDayIsFresh
  <2>. QED  BY <2>6, <2>7, <2>8, <2>9 DEF ChargeInv
<1>4. ASSUME \A d \in Dates : Pending(d)' \subseteq Pending(d),
             \A st \in Stores, d \in Dates : count'[st][d] <= count[st][d],
             UNCHANGED <<begun, date>>,
             \A k \in Calls : pc'[k] = "rejected" => pc[k] = "rejected"
      PROVE  ChargeInv'
  <2>1. ASSUME NEW d \in Dates  PROVE SharedCharge(d)'
    BY <1>4, <1>t, ChargeShrinks DEF ChargeInv
  <2>2. ASSUME NEW q \in Replicas, NEW d \in Dates
        PROVE  count'[q][d] <= begun'[d]
    <3>1. count[q][d] <= begun[d] /\ count'[q][d] <= count[q][d]
      BY <1>4 DEF ChargeInv
    <3>. QED  BY <3>1, <1>4, <1>t
  <2>3. NewDayIsFresh'
    BY <1>4 DEF ChargeInv, NewDayIsFresh
  <2>. QED  BY <2>1, <2>2, <2>3 DEF ChargeInv
<1>5. ASSUME NEW c \in Calls, Expire(c) \/ Abandon(c) \/ Reject(c)
      PROVE  ChargeInv'
  <2>1. UNCHANGED <<count, begun, date>>
    BY <1>5 DEF Expire, Abandon, Reject, clockVars, storeVars
  <2>2. /\ \A k \in Calls \ {c} : pc'[k] = pc[k]
        /\ pc'[c] = "idle"
    <3>1. CASE Expire(c)
      <4>1. Judge(c, Redis, date[c], 1) /\ date[c] \in Dates
        BY <3>1, <1>t DEF Expire
      <4>. QED  BY <4>1, JudgeLemma
    <3>2. CASE Abandon(c) \/ Reject(c)
      BY <3>2, <1>t DEF Abandon, Reject
    <3>. QED  BY <1>5, <3>1, <3>2
  <2>3. \A d \in Dates : Pending(d)' \subseteq Pending(d)
    BY <2>1, <2>2 DEF Pending
  <2>. QED  BY <1>4, <1>t, <2>1, <2>2, <2>3
<1>6. ASSUME NEW r \in Replicas, Restart(r)
      PROVE  ChargeInv'
  <2>1. /\ \A k \in Calls : pc'[k] = pc[k] \/ pc'[k] = "idle"
        /\ UNCHANGED <<begun, date>>
    BY <1>6 DEF Restart, clockVars
  <2>2. \A st \in Stores, d \in Dates : count'[st][d] <= count[st][d]
    <3>1. CASE backend = "memory"
      BY <1>6, <1>t, <3>1 DEF Restart
    <3>2. CASE backend # "memory"
      BY <1>6, <1>t, <3>2 DEF Restart
    <3>. QED  BY <3>1, <3>2
  <2>3. \A d \in Dates : Pending(d)' \subseteq Pending(d)
    BY <2>1 DEF Pending
  <2>. QED  BY <1>4, <2>1, <2>2, <2>3
<1>7. CASE Tick
  <2>1. UNCHANGED <<begun, pc, date>>
    BY <1>7 DEF Tick, checkVars
  <2>2. \A st \in Stores, d \in Dates : count'[st][d] <= count[st][d]
    BY <1>7, <1>t, TickLemma
  <2>. QED  BY <1>4, <2>1, <2>2 DEF Pending
<1>8. CASE UNCHANGED vars
  BY <1>4, <1>8, <1>t DEF Pending, vars, clockVars, storeVars, checkVars
<1>. QED
  BY <1>1, <1>2, <1>3, <1>5, <1>6, <1>7, <1>8 DEF Next

\* A check is turned away only when more than requests_per_day checks were begun
\* on its own date: a key that lost its EXPIRE, or a check still at its await at
\* midnight, never costs the next day anything.
THEOREM NewDayStartsFresh == Spec => []NewDayIsFresh
<1>1. Init => ChargeInv
  <2>. SUFFICES ASSUME Init  PROVE ChargeInv
    OBVIOUS
  <2>1. ASSUME NEW d \in Dates  PROVE SharedCharge(d)
    <3>1. Pending(d) = {}
      BY DEF Init, Pending
    <3>2. count[Redis][d] = 0 /\ begun[d] = 0
      BY DEF Init, Redis, Stores
    <3>. QED  BY <3>1, <3>2, FS_EmptySet DEF SharedCharge
  <2>. QED
    BY <2>1 DEF Init, ChargeInv, NewDayIsFresh, Stores
<1>2. ChargeInv => NewDayIsFresh
  BY DEF ChargeInv
<1>. QED  BY <1>1, <1>2, TypeInit, TypeStep, ChargeStep, PTL DEF Spec
=============================================================================

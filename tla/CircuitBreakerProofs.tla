------------------------- MODULE CircuitBreakerProofs -------------------------
(****************************************************************************)
(* What CircuitBreaker guarantees for any number of calls and any           *)
(* thresholds and timeouts.  The invariants rest on WindowInv, which ties   *)
(* the three clocks together: while the breaker is open, the calls still    *)
(* running are older than the outage, and the recovery window (elapsed)     *)
(* lags behind the outage (openFor) by at most one call timeout.            *)
(****************************************************************************)
EXTENDS CircuitBreaker, TLAPS

USE FailureThresholdAssumption, SuccessThresholdAssumption,
    RecoveryTimeoutAssumption, CallTimeoutAssumption, MaxFailuresAssumption

WindowInv ==
  breaker.state = "open" =>
    /\ breaker.elapsed <= openFor
    /\ breaker.elapsed = RecoveryTimeout \/ openFor <= breaker.elapsed + CallTimeout
    /\ \A c \in running : openFor <= age[c]

IInv == TypeOK /\ CountersBelowThresholds /\ WindowInv

-----------------------------------------------------------------------------
(* The methods of the breaker. *)

\* Reading the state keeps the record well formed; it changes an open breaker
\* whose window has passed, and nothing else.
LEMMA ReadStateLemma ==
  ASSUME NEW b \in BreakerType
  PROVE  /\ ReadState(b) \in BreakerType
         /\ ReadState(b) = b
            \/ /\ b.state = "open" /\ b.elapsed = RecoveryTimeout
               /\ ReadState(b).state = "half_open" /\ ReadState(b).successes = 0
BY DEF ReadState, BreakerType, State

\* A success leaves an open breaker open, and closes a half-open one exactly
\* when the success threshold is met.
LEMMA OnSuccessLemma ==
  ASSUME NEW b \in BreakerType
  PROVE  /\ OnSuccess(b) \in BreakerType
         /\ OnSuccess(b).elapsed = b.elapsed
         /\ b.state = "open" => OnSuccess(b).state = "open"
         /\ b.state = "closed" =>
              OnSuccess(b).state = "closed" /\ OnSuccess(b).failures = 0
         /\ b.state = "half_open" =>
              \/ OnSuccess(b).state = "closed" /\ OnSuccess(b).failures = 0
              \/ /\ OnSuccess(b).state = "half_open"
                 /\ OnSuccess(b).successes < SuccessThreshold
BY DEF OnSuccess, BreakerType, State

\* A failure either leaves a closed breaker below its threshold, or ends in an
\* open breaker with a fresh window, or is one more failure of an open breaker
\* below the threshold.
LEMMA OnFailureLemma ==
  ASSUME NEW b \in BreakerType
  PROVE  /\ OnFailure(b) \in BreakerType
         /\ \/ OnFailure(b).state = "open" /\ OnFailure(b).elapsed = 0
            \/ /\ b.state = "closed" /\ OnFailure(b).state = "closed"
               /\ OnFailure(b).failures < FailureThreshold
            \/ /\ b.state = "open" /\ OnFailure(b).state = "open"
               /\ OnFailure(b).elapsed = b.elapsed
BY DEF OnFailure, BreakerType, State

\* Time only moves the window of an open breaker.
LEMMA PassTimeLemma ==
  ASSUME NEW b \in BreakerType
  PROVE  /\ PassTime(b) \in BreakerType
         /\ PassTime(b).state = b.state
         /\ PassTime(b).failures = b.failures
         /\ PassTime(b).successes = b.successes
         /\ b.state = "open" =>
              \/ b.elapsed < RecoveryTimeout /\ PassTime(b).elapsed = b.elapsed + 1
              \/ b.elapsed = RecoveryTimeout /\ PassTime(b).elapsed = b.elapsed
BY DEF PassTime, BreakerType, State

-----------------------------------------------------------------------------
(* The inductive invariant. *)

LEMMA InitIInv == Init => IInv
BY DEF Init, IInv, TypeOK, CountersBelowThresholds, WindowInv, NewBreaker,
       BreakerType, State, Horizon

LEMMA NextIInv == IInv /\ [Next]_vars => IInv'
<1> SUFFICES ASSUME IInv, [Next]_vars
             PROVE  IInv'
  OBVIOUS
<1> USE DEF IInv
<1>0. breaker \in BreakerType /\ Horizon \in Nat
  BY DEF TypeOK, Horizon
<1>1. ASSUME NEW c \in Calls, Admit(c)
      PROVE  IInv'
  <2>1. breaker' = ReadState(breaker) /\ breaker'.state # "open"
    BY <1>1 DEF Admit
  <2>2. TypeOK'
    BY <1>0, <1>1, <2>1, ReadStateLemma DEF Admit, TypeOK, BreakerType
  <2>3. CountersBelowThresholds'
    BY <1>0, <2>1, ReadStateLemma DEF CountersBelowThresholds, BreakerType
  <2>4. WindowInv'
    BY <2>1 DEF WindowInv
  <2>. QED  BY <2>2, <2>3, <2>4
<1>2. ASSUME Observe
      PROVE  IInv'
  <2>1. TypeOK'
    BY <1>0, <1>2, ReadStateLemma DEF Observe, TypeOK
  <2>2. CountersBelowThresholds'
    BY <1>0, <1>2, ReadStateLemma DEF Observe, CountersBelowThresholds
  <2>3. WindowInv'
    BY <1>0, <1>2, ReadStateLemma DEF Observe, WindowInv
  <2>. QED  BY <2>1, <2>2, <2>3
<1>3. ASSUME NEW c \in Calls, Succeed(c)
      PROVE  IInv'
  <2>1. TypeOK'
    BY <1>0, <1>3, OnSuccessLemma DEF Succeed, Leave, TypeOK, State
  <2>2. CountersBelowThresholds'
    BY <1>0, <1>3, OnSuccessLemma
    DEF Succeed, CountersBelowThresholds, BreakerType, State
  <2>3. WindowInv'
    <3>1. breaker'.state = "open" => breaker.state = "open"
      BY <1>0, <1>3, OnSuccessLemma DEF Succeed, BreakerType, State
    <3>. QED
      BY <1>0, <1>3, <3>1, OnSuccessLemma DEF Succeed, Leave, WindowInv, TypeOK
  <2>. QED  BY <2>1, <2>2, <2>3
<1>4. ASSUME NEW c \in Calls, Leave(c), RecordFailure
      PROVE  IInv'
  <2>1. TypeOK'
    BY <1>0, <1>4, OnFailureLemma DEF RecordFailure, Leave, TypeOK, State
  <2>2. CountersBelowThresholds'
    BY <1>0, <1>4, OnFailureLemma DEF RecordFailure, CountersBelowThresholds
  <2>3. WindowInv'
    <3>1. CASE breaker.state # "open" /\ breaker'.state = "open"
      BY <1>0, <1>4, <3>1, <2>1, OnFailureLemma
      DEF RecordFailure, Leave, WindowInv, TypeOK
    <3>2. CASE breaker.state = "open"
      <4>1. openFor' = openFor /\ openFor <= CallTimeout
        BY <1>0, <1>4, <3>2 DEF RecordFailure, Leave, WindowInv, TypeOK
      <4>. QED
        BY <1>0, <1>4, <3>2, <4>1, OnFailureLemma
        DEF RecordFailure, Leave, WindowInv, TypeOK, BreakerType
    <3>. QED  BY <3>1, <3>2 DEF WindowInv
  <2>. QED  BY <2>1, <2>2, <2>3
<1>5. ASSUME NEW c \in Calls, Cancel(c)
      PROVE  IInv'
  BY <1>5 DEF Cancel, Leave, TypeOK, CountersBelowThresholds, WindowInv, State
<1>6. ASSUME Tick
      PROVE  IInv'
  <2>1. TypeOK'
    <3>1. \A c \in running : age[c] + 1 \in 0..CallTimeout
      BY <1>6 DEF Tick, TypeOK
    <3>. QED
      BY <1>0, <1>6, <3>1, PassTimeLemma DEF Tick, TypeOK
  <2>2. CountersBelowThresholds'
    BY <1>0, <1>6, PassTimeLemma DEF Tick, CountersBelowThresholds
  <2>3. WindowInv'
    <3>1. SUFFICES ASSUME breaker.state = "open"
                   PROVE  WindowInv'
      BY <1>0, <1>6, PassTimeLemma DEF Tick, WindowInv
    <3>2. breaker'.elapsed <= openFor'
      BY <1>0, <1>6, <3>1, PassTimeLemma
      DEF Tick, WindowInv, TypeOK, BreakerType, Horizon
    <3>3. breaker'.elapsed = RecoveryTimeout
            \/ openFor' <= breaker'.elapsed + CallTimeout
      BY <1>0, <1>6, <3>1, PassTimeLemma DEF Tick, WindowInv, TypeOK, BreakerType
    <3>4. \A c \in running' : openFor' <= age'[c]
      BY <1>0, <1>6, <3>1 DEF Tick, WindowInv, TypeOK
    <3>. QED  BY <3>2, <3>3, <3>4 DEF WindowInv
  <2>. QED  BY <2>1, <2>2, <2>3
<1>7. ASSUME NEW c \in Calls, FailAtOnce(c)
      PROVE  IInv'
  <2> DEFINE now == ReadState(breaker)
  <2>1. now \in BreakerType /\ now.state # "open"
    BY <1>0, <1>7, ReadStateLemma DEF FailAtOnce
  <2>2. TypeOK'
    BY <1>0, <1>7, <2>1, OnFailureLemma DEF FailAtOnce, TypeOK
  <2>3. CountersBelowThresholds'
    BY <1>7, <2>1, OnFailureLemma DEF FailAtOnce, CountersBelowThresholds
  <2>4. WindowInv'
    <3>1. breaker'.state = "open" => breaker'.elapsed = 0 /\ openFor' = 0
      BY <1>7, <2>1, OnFailureLemma DEF FailAtOnce
    <3>. QED  BY <1>7, <2>2, <3>1 DEF FailAtOnce, WindowInv, TypeOK
  <2>. QED  BY <2>2, <2>3, <2>4
<1>8. CASE UNCHANGED vars
  BY <1>8 DEF vars, TypeOK, CountersBelowThresholds, WindowInv
<1>. QED
  BY <1>1, <1>2, <1>3, <1>4, <1>5, <1>6, <1>7, <1>8 DEF Next, Fail, TimeOut

\* The strengthened invariant holds in every reachable state.
THEOREM Invariance == Spec => []IInv
<1>. QED  BY InitIInv, NextIInv, PTL DEF Spec

\* Every variable of the breaker and its calls keeps its type.
THEOREM TypeCorrect == Spec => []TypeOK
<1>1. IInv => TypeOK
  BY DEF IInv
<1>. QED  BY <1>1, Invariance, PTL

\* _on_success and _on_failure never leave a counter at a threshold: a closed
\* breaker is below the failure threshold, a half-open one below the success
\* threshold.
THEOREM ThresholdsHold == Spec => []CountersBelowThresholds
<1>1. IInv => CountersBelowThresholds
  BY DEF IInv
<1>. QED  BY <1>1, Invariance, PTL

\* Whatever calls fail late, an outage lasts at most CallTimeout +
\* RecoveryTimeout: then the next reader finds the breaker half open.
THEOREM OutageIsBounded == Spec => []OutageBounded
<1>1. IInv => OutageBounded
  <2>1. SUFFICES ASSUME IInv, breaker.state = "open", openFor >= Horizon
                 PROVE  breaker.elapsed = RecoveryTimeout
    BY DEF OutageBounded, ReadState, IInv, TypeOK, BreakerType
  <2>. QED  BY <2>1 DEF IInv, TypeOK, BreakerType, WindowInv, Horizon
<1>. QED  BY <1>1, Invariance, PTL

-----------------------------------------------------------------------------
(* The circuit closes. *)

\* When the window has passed, every call still running has outlived it.
LEMMA WindowOutlived ==
  ASSUME IInv, breaker.state = "open", breaker.elapsed = RecoveryTimeout
  PROVE  RecoveryTimeout <= openFor /\ \A c \in running : MayClose(c)
<1>1. RecoveryTimeout <= openFor /\ openFor \in Nat
  BY DEF IInv, TypeOK, WindowInv, Horizon
<1>2. ASSUME NEW c \in running
      PROVE  age[c] >= RecoveryTimeout
  <2>1. openFor <= age[c] /\ age[c] \in 0..CallTimeout
    BY <1>2 DEF IInv, TypeOK, WindowInv
  <2>. QED  BY <1>1, <2>1
<1>. QED  BY <1>1, <1>2 DEF MayClose

\* One step keeps what a half-open breaker can hear.
LEMMA NextHalfOpenHears == IInv /\ HalfOpenHears /\ [Next]_vars => HalfOpenHears'
<1> SUFFICES ASSUME IInv, HalfOpenHears, [Next]_vars, breaker'.state = "half_open"
             PROVE  \A c \in running' : MayClose(c)'
  BY DEF HalfOpenHears
<1>0. /\ breaker \in BreakerType /\ seen \in [Calls -> State] /\ running \subseteq Calls
      /\ age \in [Calls -> 0..CallTimeout]
  BY DEF IInv, TypeOK
<1>1. ASSUME NEW d \in Calls, Admit(d)
      PROVE  \A c \in running' : MayClose(c)'
  <2>1. \A c \in running : MayClose(c)
    BY <1>0, <1>1, ReadStateLemma, WindowOutlived DEF Admit, HalfOpenHears
  <2>. QED  BY <1>0, <1>1, <2>1 DEF Admit, MayClose
<1>2. ASSUME Observe
      PROVE  \A c \in running' : MayClose(c)'
  <2>1. \A c \in running : MayClose(c)
    BY <1>0, <1>2, ReadStateLemma, WindowOutlived DEF Observe, HalfOpenHears
  <2>. QED  BY <1>2, <2>1 DEF Observe, MayClose
<1>3. ASSUME NEW d \in Calls, Succeed(d)
      PROVE  \A c \in running' : MayClose(c)'
  <2>1. breaker.state = "half_open"
    BY <1>0, <1>3, OnSuccessLemma DEF Succeed, BreakerType, State
  <2>. QED  BY <1>0, <1>3, <2>1 DEF Succeed, Leave, HalfOpenHears, MayClose
<1>4. ASSUME NEW d \in Calls, Leave(d), RecordFailure
      PROVE  FALSE
  BY <1>0, <1>4, OnFailureLemma DEF RecordFailure
<1>5. ASSUME NEW d \in Calls, Cancel(d)
      PROVE  \A c \in running' : MayClose(c)'
  BY <1>0, <1>5 DEF Cancel, Leave, HalfOpenHears, MayClose
<1>6. ASSUME Tick
      PROVE  \A c \in running' : MayClose(c)'
  <2>1. breaker.state = "half_open"
    BY <1>0, <1>6, PassTimeLemma DEF Tick
  <2>2. \A c \in running : age'[c] = age[c] + 1 /\ age[c] \in Nat
    BY <1>0, <1>6 DEF Tick
  <2>3. \A c \in running : age[c] >= RecoveryTimeout => age'[c] >= RecoveryTimeout
    BY <2>2
  <2>. QED  BY <1>6, <2>1, <2>3 DEF Tick, HalfOpenHears, MayClose
<1>7. ASSUME NEW d \in Calls, FailAtOnce(d)
      PROVE  FALSE
  BY <1>0, <1>7, ReadStateLemma, OnFailureLemma DEF FailAtOnce
<1>8. CASE UNCHANGED vars
  BY <1>8 DEF vars, HalfOpenHears, MayClose
<1>. QED
  BY <1>1, <1>2, <1>3, <1>4, <1>5, <1>6, <1>7, <1>8 DEF Next, Fail, TimeOut

\* Whatever the timeouts, a half-open breaker hears only from the calls it let
\* through while half open and from calls that outlived the recovery window.
THEOREM HalfOpenHearsLateCallsAtMost == Spec => []HalfOpenHears
<1>1. Init => HalfOpenHears
  BY DEF Init, HalfOpenHears
<1>. QED  BY <1>1, NextHalfOpenHears, Invariance, PTL DEF Spec

\* Whatever the timeouts, the circuit closes only from half open and only as a
\* call ends that tested the server or outlived the recovery window.
THEOREM NoEarlierCallCloses == Spec => ClosedByProbeOrLateCall
<1>1. IInv /\ HalfOpenHears /\ [Next]_vars =>
        [breaker.state # "closed" /\ breaker'.state = "closed"
           => /\ breaker.state = "half_open"
              /\ \E c \in running \ running' : MayClose(c)]_vars
  <2> SUFFICES ASSUME IInv, HalfOpenHears, Next,
                      breaker.state # "closed", breaker'.state = "closed"
               PROVE  /\ breaker.state = "half_open"
                      /\ \E c \in running \ running' : MayClose(c)
    OBVIOUS
  <2>0. breaker \in BreakerType
    BY DEF IInv, TypeOK
  <2>1. ASSUME NEW c \in Calls, Succeed(c)
        PROVE  /\ breaker.state = "half_open"
               /\ \E d \in running \ running' : MayClose(d)
    <3>1. breaker.state = "half_open"
      BY <2>0, <2>1, OnSuccessLemma DEF Succeed, BreakerType, State
    <3>2. c \in running \ running'
      BY <2>1 DEF Succeed, Leave
    <3>. QED  BY <3>1, <3>2 DEF HalfOpenHears
  <2>2. ~(\E c \in Calls : Admit(c)) /\ ~Observe
    BY <2>0, ReadStateLemma DEF Admit, Observe
  <2>3. ~(\E c \in Calls : Fail(c) \/ TimeOut(c) \/ Cancel(c))
    BY <2>0, OnFailureLemma DEF Fail, TimeOut, Cancel, RecordFailure
  <2>4. ~Tick
    BY <2>0, PassTimeLemma DEF Tick
  <2>5. ~(\E c \in Calls : FailAtOnce(c))
    BY <2>0, ReadStateLemma, OnFailureLemma DEF FailAtOnce
  <2>. QED  BY <2>1, <2>2, <2>3, <2>4, <2>5 DEF Next
<1>. QED
  BY <1>1, Invariance, HalfOpenHearsLateCallsAtMost, PTL
  DEF Spec, ClosedByProbeOrLateCall

-----------------------------------------------------------------------------
(* The gate. *)

\* Whatever the timeouts, the breaker implements the gate: late failures only
\* prolong the window, and nothing else lets a call through before its end.
THEOREM Refinement == Spec => ImplementsGate
<1>1. Init => Gate!Init
  BY DEF Init, Gate!Init, NewBreaker
<1>2. IInv /\ [Next]_vars => [Gate!Next]_(Gate!gateVars)
  <2> SUFFICES ASSUME IInv, [Next]_vars
               PROVE  Gate!Next \/ UNCHANGED Gate!gateVars
    OBVIOUS
  <2>0. breaker \in BreakerType /\ breaker.state \in State
    BY DEF IInv, TypeOK, BreakerType
  <2>a. \/ ReadState(breaker) = breaker
        \/ Gate!WindowPassed /\ ReadState(breaker).state = "half_open"
    <3>1. CASE breaker.state = "open" /\ breaker.elapsed = RecoveryTimeout
      <4>1. openFor >= RecoveryTimeout
        BY <3>1, WindowOutlived DEF IInv, TypeOK, Horizon
      <4>. QED  BY <2>0, <3>1, <4>1, ReadStateLemma DEF Gate!WindowPassed
    <3>. QED  BY <2>0, <3>1, ReadStateLemma
  <2> USE DEF Gate!gateVars
  <2>1. ASSUME NEW c \in Calls, Admit(c)
        PROVE  Gate!Begin(c)
    <3>1. Gate!AllowProbe
            \/ (breaker.state # "open" /\ UNCHANGED <<breaker, openFor>>)
      BY <2>a, <2>1 DEF Admit, Gate!AllowProbe
    <3>. QED  BY <2>1, <3>1 DEF Admit, Gate!Begin
  <2>2. ASSUME Observe
        PROVE  (Gate!AllowProbe /\ running' = running) \/ UNCHANGED Gate!gateVars
    BY <2>a, <2>2 DEF Observe, Gate!AllowProbe
  <2>3. ASSUME NEW c \in Calls, Succeed(c)
        PROVE  Gate!End(c)
    BY <2>0, <2>3, OnSuccessLemma DEF Succeed, Leave, Gate!End, State
  <2>4. ASSUME NEW c \in Calls, Leave(c), RecordFailure
        PROVE  Gate!End(c)
    BY <2>0, <2>4, OnFailureLemma DEF Leave, RecordFailure, Gate!End, Gate!Open, State
  <2>5. ASSUME NEW c \in Calls, Cancel(c)
        PROVE  Gate!End(c)
    BY <2>5 DEF Cancel, Leave, Gate!End
  <2>6. ASSUME Tick
        PROVE  Gate!Tick \/ UNCHANGED Gate!gateVars
    BY <2>0, <2>6, PassTimeLemma DEF Tick, Gate!Tick
  <2>7. ASSUME NEW c \in Calls, FailAtOnce(c)
        PROVE  Gate!Bounce \/ UNCHANGED Gate!gateVars
    <3>1. CASE ReadState(breaker) = breaker
      <4>1. \/ breaker'.state = "open" /\ openFor' = 0 /\ breaker.state # "open"
            \/ breaker'.state = breaker.state /\ openFor' = openFor
        BY <2>0, <2>7, <3>1, OnFailureLemma DEF FailAtOnce
      <4>. QED  BY <2>7, <4>1 DEF FailAtOnce, Gate!Bounce, Gate!Open
    <3>2. CASE Gate!WindowPassed /\ ReadState(breaker).state = "half_open"
      <4>1. breaker'.state = "open" /\ openFor' = 0
        BY <2>0, <2>7, <3>2, ReadStateLemma, OnFailureLemma DEF FailAtOnce
      <4>. QED  BY <2>7, <3>2, <4>1 DEF FailAtOnce, Gate!Bounce, Gate!Open
    <3>. QED  BY <2>a, <3>1, <3>2
  <2>8. CASE UNCHANGED vars
    BY <2>8 DEF vars
  <2>. QED
    BY <2>1, <2>2, <2>3, <2>4, <2>5, <2>6, <2>7, <2>8
    DEF Next, Fail, TimeOut, Gate!Next
<1>. QED  BY <1>1, <1>2, Invariance, PTL DEF Spec, ImplementsGate, Gate!Spec
=============================================================================

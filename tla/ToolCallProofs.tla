---------------------------- MODULE ToolCallProofs ----------------------------
(****************************************************************************)
(* Tool calls for any number of calls, any quota and any thresholds: a tool *)
(* call uses the breaker only as CircuitBreaker allows, so what is proved   *)
(* of the breaker holds here too; the quota is kept; the latency histogram  *)
(* misses no call; and the counters tell how each call ended.               *)
(****************************************************************************)
EXTENDS ToolCall, CircuitBreakerProofs, FiniteSetTheorems, TLAPS

USE LimitAssumption

\* A tool call goes through the breaker the way CircuitBreaker describes: the
\* theorems of CircuitBreakerProofs hold of it.
THEOREM UsesBreaker == TCSpec => Spec
<1>1. TCInit => Init
  BY DEF TCInit
<1>2. [TCNext]_tcVars => [Next]_vars
  <2> SUFFICES ASSUME TCNext
               PROVE  [Next]_vars
    BY DEF tcVars
  <2>1. ASSUME NEW c \in Calls,
               \/ Send(c) \/ QuotaExhausted(c)
               \/ TransportError(c) \/ PassOn(c) \/ CallTimedOut(c)
               \/ ToolError(c) \/ AnswerPlain(c) \/ AnswerText(c)
               \/ AnswerToScan(c)
        PROVE  Next
    BY <2>1
    DEF Send, QuotaExhausted, TransportError, PassOn, SetupFails, CallTimedOut,
        ToolError, AnswerPlain, AnswerText, AnswerToScan, Next
  <2>2. ASSUME NEW c \in Calls, Scanned(c) \/ CancelCall(c) \/ SetupFails(c)
        PROVE  [Next]_vars
    BY <2>2 DEF Scanned, CancelCall, SetupFails, Next
  <2>3. CASE RejectOpen \/ ReadStatus \/ Clock \/ Midnight
    BY <2>3 DEF RejectOpen, ReadStatus, Clock, Midnight, Next
  <2>. QED  BY <2>1, <2>2, <2>3 DEF TCNext
<1>. QED  BY <1>1, <1>2, PTL DEF TCSpec, Spec

-----------------------------------------------------------------------------

\* The counters of today: what was counted beyond the quota was not sent.
QuotaInv ==
  /\ quota \in Nat /\ sent \in Nat
  /\ Limit # 0 => sent = IF quota <= Limit THEN quota ELSE Limit

\* The counters of today stay in step, whatever step is taken.
LEMMA QuotaStep == QuotaInv /\ [TCNext]_tcVars => QuotaInv'
<1> SUFFICES ASSUME QuotaInv, [TCNext]_tcVars
             PROVE  QuotaInv'
  OBVIOUS
<1>1. ASSUME NEW c \in Calls, Send(c)
      PROVE  QuotaInv'
  BY <1>1 DEF Send, WithinQuota, CountQuota, QuotaInv
<1>2. ASSUME NEW c \in Calls, QuotaExhausted(c)
      PROVE  QuotaInv'
  BY <1>2 DEF QuotaExhausted, WithinQuota, CountQuota, QuotaInv
<1>3. CASE UNCHANGED <<quota, sent>>
  BY <1>3 DEF QuotaInv
<1>4. CASE Midnight
  BY <1>4 DEF Midnight, QuotaInv
<1>. QED
  BY <1>1, <1>2, <1>3, <1>4
  DEF TCNext, tcVars, toolVars, TransportError, PassOn, SetupFails, CallTimedOut,
      ToolError, AnswerPlain, AnswerText, AnswerToScan, Scanned, CancelCall,
      RejectOpen, ReadStatus, Clock

\* The upstream never gets more calls a day than the quota, and none of it is
\* spent on calls that are not sent.
THEOREM QuotaIsKept == TCSpec => []QuotaKept
<1>1. TCInit => QuotaInv
  BY DEF TCInit, QuotaInv
<1>2. QuotaInv => QuotaKept
  BY DEF QuotaInv, QuotaKept
<1>. QED  BY <1>1, <1>2, QuotaStep, PTL DEF TCSpec

\* While the breaker is open and its window has not passed, no step consumes
\* quota or reaches the pool.
THEOREM OpenBreakerSparesQuota == TCSpec => OpenSparesQuota
<1>1. TCInit => QuotaInv
  BY DEF TCInit, QuotaInv
<1>2. QuotaInv /\ [TCNext]_tcVars =>
        [ReadState(breaker).state = "open" => quota' <= quota /\ sent' <= sent]_tcVars
  <2> SUFFICES ASSUME QuotaInv, TCNext, ReadState(breaker).state = "open"
               PROVE  quota' <= quota /\ sent' <= sent
    OBVIOUS
  <2>1. ASSUME NEW c \in Calls
        PROVE  ~Send(c) /\ ~QuotaExhausted(c)
    BY DEF Send, QuotaExhausted, Admit, FailAtOnce
  <2>2. CASE UNCHANGED <<quota, sent>>
    BY <2>2 DEF QuotaInv
  <2>3. CASE Midnight
    BY <2>3 DEF Midnight, QuotaInv
  <2>. QED
    BY <2>1, <2>2, <2>3
    DEF TCNext, TransportError, PassOn, SetupFails, CallTimedOut, ToolError,
        AnswerPlain, AnswerText, AnswerToScan, Scanned, CancelCall, RejectOpen,
        ReadStatus, Clock, toolVars
<1>3. QuotaInv /\ [TCNext]_tcVars => QuotaInv'
  BY QuotaStep
<1>. QED  BY <1>1, <1>2, <1>3, PTL DEF TCSpec, OpenSparesQuota

-----------------------------------------------------------------------------

ObservedInv ==
  /\ metrics \in [Metrics -> Nat]
  /\ IsFiniteSet(running) /\ IsFiniteSet(scanning)
  /\ running \cap scanning = {}
  /\ EveryCallObserved

\* One more call under way is one more in the sum, one less one less.
LEMMA AddCall ==
  ASSUME NEW S, IsFiniteSet(S), NEW c
  PROVE  /\ c \notin S => /\ IsFiniteSet(S \cup {c})
                          /\ Cardinality(S \cup {c}) = Cardinality(S) + 1
         /\ c \in S => /\ IsFiniteSet(S \ {c})
                       /\ Cardinality(S \ {c}) = Cardinality(S) - 1
         /\ Cardinality(S) \in Nat
BY FS_AddElement, FS_RemoveElement, FS_CardinalityType

\* Finish counts the call in the histogram and leaves tool_calls_total alone
\* unless it is named.
LEMMA FinishLemma ==
  ASSUME metrics \in [Metrics -> Nat], NEW ms, Finish(ms)
  PROVE  /\ metrics' \in [Metrics -> Nat]
         /\ metrics'["tool_call_duration_count"] = metrics["tool_call_duration_count"] + 1
         /\ metrics'["tool_calls_total"] =
              IF "tool_calls_total" \in ms THEN metrics["tool_calls_total"] + 1
                                           ELSE metrics["tool_calls_total"]
BY DEF Finish, Add, Metrics

\* Every call is observed in the latency histogram exactly once, whichever of
\* its exits it takes.
THEOREM LatencyComplete == TCSpec => []EveryCallObserved
<1>1. TCInit => ObservedInv
  BY FS_EmptySet
  DEF TCInit, Init, ObservedInv, EveryCallObserved, InProgress, Metrics
<1>2. ObservedInv /\ [TCNext]_tcVars => ObservedInv'
  <2> SUFFICES ASSUME ObservedInv, [TCNext]_tcVars
               PROVE  ObservedInv'
    OBVIOUS
  <2> USE DEF ObservedInv, EveryCallObserved, InProgress
  <2>0. /\ Cardinality(running) \in Nat /\ Cardinality(scanning) \in Nat
        /\ metrics["tool_calls_total"] \in Nat
        /\ metrics["tool_call_duration_count"] \in Nat
    BY FS_CardinalityType DEF Metrics
  <2>1. ASSUME NEW c \in Calls, Send(c)
        PROVE  ObservedInv'
    <3>1. /\ metrics' \in [Metrics -> Nat]
          /\ metrics'["tool_calls_total"] = metrics["tool_calls_total"] + 1
          /\ metrics'["tool_call_duration_count"] = metrics["tool_call_duration_count"]
      BY <2>1 DEF Send, Add, Metrics
    <3>2. /\ c \notin running /\ c \notin scanning
          /\ running' = running \cup {c} /\ scanning' = scanning
      BY <2>1 DEF Send, Free, Admit
    <3>3. /\ IsFiniteSet(running')
          /\ Cardinality(running') = Cardinality(running) + 1
      BY <3>2, AddCall
    <3>. QED  BY <2>0, <3>1, <3>2, <3>3
  <2>2. ASSUME NEW ms, Finish(ms), "tool_calls_total" \in ms,
               UNCHANGED <<running, scanning>>
        PROVE  ObservedInv'
    BY <2>0, <2>2, FinishLemma
  <2>3. ASSUME NEW c \in Calls, Leave(c), NEW ms, Finish(ms),
               "tool_calls_total" \notin ms, scanning' = scanning
        PROVE  ObservedInv'
    BY <2>0, <2>3, FinishLemma, AddCall DEF Leave
  <2>4. ASSUME NEW c \in scanning, scanning' = scanning \ {c}, NEW ms, Finish(ms),
               "tool_calls_total" \notin ms, running' = running
        PROVE  ObservedInv'
    <3>1. /\ IsFiniteSet(scanning')
          /\ Cardinality(scanning') = Cardinality(scanning) - 1
      BY <2>4, AddCall
    <3>2. /\ metrics' \in [Metrics -> Nat]
          /\ metrics'["tool_call_duration_count"] = metrics["tool_call_duration_count"] + 1
          /\ metrics'["tool_calls_total"] = metrics["tool_calls_total"]
      BY <2>4, FinishLemma
    <3>. QED  BY <2>0, <2>4, <3>1, <3>2
  <2>5. ASSUME NEW c \in Calls, AnswerToScan(c)
        PROVE  ObservedInv'
    <3>1. /\ c \in running /\ running' = running \ {c}
          /\ scanning' = scanning \cup {c} /\ metrics' = metrics
      BY <2>5 DEF AnswerToScan, Succeed, Leave
    <3>2. c \notin scanning
      BY <3>1
    <3>3. /\ IsFiniteSet(running') /\ IsFiniteSet(scanning')
          /\ Cardinality(running') = Cardinality(running) - 1
          /\ Cardinality(scanning') = Cardinality(scanning) + 1
      BY <3>1, <3>2, AddCall
    <3>. QED  BY <2>0, <3>1, <3>2, <3>3
  <2>6. CASE UNCHANGED <<running, scanning, metrics>>
    BY <2>6
  <2>. QED
    BY <2>1, <2>2, <2>3, <2>4, <2>5, <2>6
    DEF TCNext, tcVars, vars, toolVars, QuotaExhausted, FailAtOnce,
        TransportError, PassOn, SetupFails, CallTimedOut, ToolError, AnswerPlain,
        AnswerText, Screen, Scanned, CancelCall, RejectOpen, Observe, ReadStatus,
        Clock, Tick, Midnight, Succeed, Fail, TimeOut, Cancel
<1>. QED  BY <1>1, <1>2, PTL DEF TCSpec, ObservedInv

-----------------------------------------------------------------------------

\* The counters of a call path are those of the metrics module, one natural
\* number each.
CountersOK ==
  /\ metrics \in [Metrics -> Nat]
  /\ quota \in Nat /\ sent \in Nat
  /\ unreported \in Nat /\ delivered \in Nat /\ cancelled \in Nat
  /\ scanning \subseteq Calls

OutcomesInv == CountersOK /\ OutcomesDisjoint

\* The calls that ended in a failure that has a counter.
OutcomeSum ==
    metrics["circuit_open_total"] + metrics["rate_limit_exceeded_total"]
  + metrics["tool_timeout_total"] + metrics["tool_errors_transport"]
  + metrics["tool_errors_tool_error"] + metrics["injection_blocked_total"]
  + metrics["rate_limit_signal_total"]

\* Whether a set of counters names one.
One(m, ms) == IF m \in ms THEN 1 ELSE 0

\* How many of them a set of counters names.
Named(ms) ==
    One("circuit_open_total", ms)
  + One("rate_limit_exceeded_total", ms)
  + One("tool_timeout_total", ms)
  + One("tool_errors_transport", ms)
  + One("tool_errors_tool_error", ms)
  + One("injection_blocked_total", ms)
  + One("rate_limit_signal_total", ms)

\* Sums are added term by term.
LEMMA AddThem ==
  ASSUME NEW a1 \in Nat, NEW a2 \in Nat, NEW a3 \in Nat, NEW a4 \in Nat,
         NEW a5 \in Nat, NEW a6 \in Nat, NEW a7 \in Nat,
         NEW b1 \in Nat, NEW b2 \in Nat, NEW b3 \in Nat, NEW b4 \in Nat,
         NEW b5 \in Nat, NEW b6 \in Nat, NEW b7 \in Nat
  PROVE  (a1 + b1) + (a2 + b2) + (a3 + b3) + (a4 + b4) + (a5 + b5) + (a6 + b6) + (a7 + b7)
       = (a1 + a2 + a3 + a4 + a5 + a6 + a7) + (b1 + b2 + b3 + b4 + b5 + b6 + b7)
OBVIOUS

\* The counters after Finish: one more call observed, and one more in each
\* outcome that is named.
LEMMA FinishCounts ==
  ASSUME metrics \in [Metrics -> Nat], NEW ms, Finish(ms)
  PROVE  /\ metrics' \in [Metrics -> Nat]
         /\ metrics'["tool_call_duration_count"] = metrics["tool_call_duration_count"] + 1
         /\ OutcomeSum' = OutcomeSum + Named(ms)
<1>1. /\ metrics' \in [Metrics -> Nat]
      /\ \A m \in Metrics :
           metrics'[m] = metrics[m] + One(m, ms \cup {"tool_call_duration_count"})
  BY DEF Finish, Add, One
<1>2. \A m : m # "tool_call_duration_count" =>
                One(m, ms \cup {"tool_call_duration_count"}) = One(m, ms)
  BY DEF One
<1>3. /\ metrics'["tool_call_duration_count"] = metrics["tool_call_duration_count"] + 1
      /\ metrics'["circuit_open_total"] =
           metrics["circuit_open_total"] + One("circuit_open_total", ms)
      /\ metrics'["rate_limit_exceeded_total"] =
           metrics["rate_limit_exceeded_total"] + One("rate_limit_exceeded_total", ms)
      /\ metrics'["tool_timeout_total"] =
           metrics["tool_timeout_total"] + One("tool_timeout_total", ms)
      /\ metrics'["tool_errors_transport"] =
           metrics["tool_errors_transport"] + One("tool_errors_transport", ms)
      /\ metrics'["tool_errors_tool_error"] =
           metrics["tool_errors_tool_error"] + One("tool_errors_tool_error", ms)
      /\ metrics'["injection_blocked_total"] =
           metrics["injection_blocked_total"] + One("injection_blocked_total", ms)
      /\ metrics'["rate_limit_signal_total"] =
           metrics["rate_limit_signal_total"] + One("rate_limit_signal_total", ms)
  BY <1>1, <1>2 DEF One, Metrics
<1>4. /\ metrics["circuit_open_total"] \in Nat /\ One("circuit_open_total", ms) \in Nat
      /\ metrics["rate_limit_exceeded_total"] \in Nat /\ One("rate_limit_exceeded_total", ms) \in Nat
      /\ metrics["tool_timeout_total"] \in Nat /\ One("tool_timeout_total", ms) \in Nat
      /\ metrics["tool_errors_transport"] \in Nat /\ One("tool_errors_transport", ms) \in Nat
      /\ metrics["tool_errors_tool_error"] \in Nat /\ One("tool_errors_tool_error", ms) \in Nat
      /\ metrics["injection_blocked_total"] \in Nat /\ One("injection_blocked_total", ms) \in Nat
      /\ metrics["rate_limit_signal_total"] \in Nat /\ One("rate_limit_signal_total", ms) \in Nat
  BY DEF One, Metrics
<1>5. OutcomeSum' =
        (metrics["circuit_open_total"] + One("circuit_open_total", ms))
      + (metrics["rate_limit_exceeded_total"] + One("rate_limit_exceeded_total", ms))
      + (metrics["tool_timeout_total"] + One("tool_timeout_total", ms))
      + (metrics["tool_errors_transport"] + One("tool_errors_transport", ms))
      + (metrics["tool_errors_tool_error"] + One("tool_errors_tool_error", ms))
      + (metrics["injection_blocked_total"] + One("injection_blocked_total", ms))
      + (metrics["rate_limit_signal_total"] + One("rate_limit_signal_total", ms))
  BY <1>3 DEF OutcomeSum
<1>6. (metrics["circuit_open_total"] + One("circuit_open_total", ms))
    + (metrics["rate_limit_exceeded_total"] + One("rate_limit_exceeded_total", ms))
    + (metrics["tool_timeout_total"] + One("tool_timeout_total", ms))
    + (metrics["tool_errors_transport"] + One("tool_errors_transport", ms))
    + (metrics["tool_errors_tool_error"] + One("tool_errors_tool_error", ms))
    + (metrics["injection_blocked_total"] + One("injection_blocked_total", ms))
    + (metrics["rate_limit_signal_total"] + One("rate_limit_signal_total", ms))
      = OutcomeSum + Named(ms)
  BY <1>4, AddThem DEF OutcomeSum, Named
<1>. QED  BY <1>1, <1>3, <1>5, <1>6

\* Whatever the step, a call that ends goes into one outcome, or into none.
LEMMA OutcomesStep == OutcomesInv /\ [TCNext]_tcVars => OutcomesInv'
<1> SUFFICES ASSUME OutcomesInv, [TCNext]_tcVars
             PROVE  OutcomesInv'
  OBVIOUS
<1> USE DEF OutcomesInv, CountersOK, OutcomesDisjoint
<1>0. metrics \in [Metrics -> Nat] /\ \A m \in Metrics : metrics[m] \in Nat
  OBVIOUS
<1>a. /\ metrics["tool_call_duration_count"] \in Nat
      /\ metrics["circuit_open_total"] \in Nat
      /\ metrics["rate_limit_exceeded_total"] \in Nat
      /\ metrics["tool_timeout_total"] \in Nat
      /\ metrics["tool_errors_transport"] \in Nat
      /\ metrics["tool_errors_tool_error"] \in Nat
      /\ metrics["injection_blocked_total"] \in Nat
      /\ metrics["rate_limit_signal_total"] \in Nat
  BY <1>0 DEF Metrics
<1>1. ASSUME NEW c \in Calls, Send(c)
      PROVE  OutcomesInv'
  BY <1>1 DEF Send, Add, CountQuota, Metrics
<1>2. ASSUME NEW ms, Finish(ms), scanning' \subseteq Calls,
             quota' \in Nat, sent' = sent,
             \/ Named(ms) = 1 /\ UNCHANGED <<unreported, delivered, cancelled>>
             \/ Named(ms) = 0 /\ unreported' = unreported + 1 /\ UNCHANGED <<delivered, cancelled>>
             \/ Named(ms) = 0 /\ delivered' = delivered + 1 /\ UNCHANGED <<unreported, cancelled>>
             \/ Named(ms) = 0 /\ cancelled' = cancelled + 1 /\ UNCHANGED <<unreported, delivered>>
      PROVE  OutcomesInv'
  <2>2. /\ metrics' \in [Metrics -> Nat]
        /\ metrics'["tool_call_duration_count"] = metrics["tool_call_duration_count"] + 1
        /\ OutcomeSum' = OutcomeSum + Named(ms)
    BY <1>0, <1>2, FinishCounts
  <2>3. OutcomeSum \in Nat
    BY <1>a DEF OutcomeSum
  <2>4. CountersOK'
    BY <1>2, <2>2
  <2>5. metrics["tool_call_duration_count"] = OutcomeSum + delivered + cancelled + unreported
    BY <1>a, <2>3 DEF OutcomeSum
  <2>6. metrics'["tool_call_duration_count"]
          = OutcomeSum' + delivered' + cancelled' + unreported'
    BY <1>a, <1>2, <2>2, <2>3, <2>5
  <2>. QED  BY <2>4, <2>6 DEF OutcomeSum
<1>3. /\ Named({}) = 0
      /\ Named({"tool_calls_total"}) = 0
      /\ Named({"tool_calls_total", "circuit_open_total"}) = 1
      /\ Named({"tool_calls_total", "rate_limit_exceeded_total"}) = 1
      /\ Named({"tool_timeout_total"}) = 1
      /\ Named({"tool_errors_transport"}) = 1
      /\ Named({"tool_errors_tool_error"}) = 1
      /\ Named({"injection_blocked_total"}) = 1
      /\ Named({"rate_limit_signal_total"}) = 1
  BY DEF One, Named
<1>4. ASSUME NEW c \in Calls, QuotaExhausted(c)
      PROVE  OutcomesInv'
  <2>1. quota' \in Nat /\ scanning' \subseteq Calls
    BY <1>4 DEF QuotaExhausted, CountQuota
  <2>. QED  BY <1>2, <1>3, <1>4, <2>1 DEF QuotaExhausted
<1>5. CASE RejectOpen
  BY <1>2, <1>3, <1>5 DEF RejectOpen
<1>6. ASSUME Screen, scanning' \subseteq Calls,
             UNCHANGED <<quota, sent, cancelled>>
      PROVE  OutcomesInv'
  BY <1>2, <1>3, <1>6 DEF Screen
<1>7. ASSUME NEW c \in Calls, AnswerToScan(c)
      PROVE  OutcomesInv'
  BY <1>7 DEF AnswerToScan
<1>8. CASE Midnight
  BY <1>8 DEF Midnight
<1>9. CASE UNCHANGED toolVars
  BY <1>9 DEF toolVars
<1>10. ASSUME NEW c \in Calls,
              \/ TransportError(c) \/ CallTimedOut(c) \/ ToolError(c)
              \/ PassOn(c) \/ AnswerPlain(c) \/ CancelCall(c)
       PROVE  OutcomesInv'
  <2>1. scanning' \subseteq Calls
    BY <1>10 DEF TransportError, CallTimedOut, ToolError, PassOn,
                 AnswerPlain, CancelCall
  <2>. QED
    BY <1>2, <1>3, <1>10, <2>1
    DEF TransportError, CallTimedOut, ToolError, PassOn, AnswerPlain,
        CancelCall
<1>11. ASSUME NEW c \in Calls, AnswerText(c) \/ Scanned(c)
       PROVE  OutcomesInv'
  BY <1>6, <1>11 DEF AnswerText, Scanned
<1>12. ASSUME NEW c \in Calls, SetupFails(c)
       PROVE  OutcomesInv'
  BY <1>2, <1>3, <1>12 DEF SetupFails
<1>. QED
  BY <1>1, <1>4, <1>5, <1>7, <1>8, <1>9, <1>10, <1>11, <1>12
  DEF TCNext, tcVars, ReadStatus, Clock

\* Every call that ends is counted as one failure or as none, and what is counted
\* is never returned: the rest are results, cancellations and the exceptions that
\* no counter records.
THEOREM OutcomesAreDisjoint == TCSpec => []OutcomesDisjoint
<1>1. TCInit => OutcomesInv
  BY DEF TCInit, OutcomesInv, CountersOK, OutcomesDisjoint, Metrics
<1>2. OutcomesInv => OutcomesDisjoint
  BY DEF OutcomesInv
<1>. QED  BY <1>1, <1>2, OutcomesStep, PTL DEF TCSpec

\* The tool calls keep their types, the breaker's state among them.
THEOREM TypesKept == TCSpec => []TCTypeOK
<1>1. TCInit => OutcomesInv
  BY DEF TCInit, OutcomesInv, CountersOK, OutcomesDisjoint, Metrics
<1>2. OutcomesInv /\ TypeOK => TCTypeOK
  BY DEF OutcomesInv, CountersOK, TCTypeOK
<1>3. TCSpec => []OutcomesInv
  BY <1>1, OutcomesStep, PTL DEF TCSpec
<1>. QED  BY <1>2, <1>3, UsesBreaker, TypeCorrect, PTL

\* What is proved of the breaker alone holds of it under tool calls: none of
\* their ways to end makes it miss a transition.
THEOREM ThresholdsHoldForTools == TCSpec => []CountersBelowThresholds
BY UsesBreaker, ThresholdsHold, PTL
=============================================================================

-------------------------------- MODULE ToolCall --------------------------------
(****************************************************************************)
(* server_registry.call_tool for one server: concurrent tool calls through  *)
(* the circuit breaker, the daily quota and the pool, the post-processing   *)
(* of the answer, and the metrics of every way a call can end.              *)
(*                                                                          *)
(* The breaker and the clock of its calls are those of CircuitBreaker,      *)
(* whose actions occur here as parts of steps that also do the rest.  The   *)
(* quota is counted by the memory backend (its check never awaits; the      *)
(* steps of the Redis one are in RateLimiter).  What the pool and the       *)
(* upstream do is an outcome; how the pool gets a session is in             *)
(* SessionPool.  What the answer holds is an outcome too: of the            *)
(* transformations only their order and the ways they end a call matter.    *)
(****************************************************************************)
EXTENDS CircuitBreaker, FiniteSets

CONSTANTS Limit,     \* requests_per_day; 0 is none
          MaxCalls   \* bound: the calls made

ASSUME LimitAssumption == Limit \in Nat
ASSUME MaxCallsAssumption == MaxCalls \in Nat

\* The counters of observability/metrics.py that a call touches; the last is
\* the count of the tool_call_duration_seconds histogram.
Metrics ==
  {"tool_calls_total", "circuit_open_total", "rate_limit_exceeded_total",
   "tool_timeout_total", "tool_errors_transport", "tool_errors_tool_error",
   "injection_blocked_total", "rate_limit_signal_total",
   "tool_call_duration_count"}

VARIABLES
  scanning,  \* the calls waiting for the language model, in llm_redact
  quota,     \* today's counter in the memory backend
  sent,      \* history: the calls handed to the pool today
  metrics,   \* the counters
  unreported, \* history: calls that ended in an exception no counter records
  delivered, \* history: calls that returned a result
  cancelled  \* history: calls cancelled by the client

toolVars == <<scanning, quota, sent, metrics, unreported, delivered, cancelled>>
tcVars == <<vars, toolVars>>

TCTypeOK ==
  /\ TypeOK
  /\ scanning \subseteq Calls
  /\ quota \in Nat
  /\ sent \in Nat
  /\ metrics \in [Metrics -> Nat]
  /\ unreported \in Nat
  /\ delivered \in Nat
  /\ cancelled \in Nat

TCInit ==
  /\ Init
  /\ scanning = {}
  /\ quota = 0 /\ sent = 0
  /\ metrics = [m \in Metrics |-> 0]
  /\ unreported = 0 /\ delivered = 0 /\ cancelled = 0

-----------------------------------------------------------------------------

Add(ms) == metrics' = [m \in Metrics |-> IF m \in ms THEN metrics[m] + 1 ELSE metrics[m]]

\* Mutant of Finish: only failures are observed.
FinishFailure(ms) ==
  Add(IF ms = {} THEN {} ELSE ms \cup {"tool_call_duration_count"})

\* The finally clause runs whatever ends the call.
Finish(ms) == Add(ms \cup {"tool_call_duration_count"})

Free(c) == c \notin running \cup scanning

\* Mutant of WithinQuota: the count is compared before it is incremented.
WithinQuotaBefore == Limit = 0 \/ quota <= Limit

\* rate_limiter.check with the memory backend: count first, then compare.
\* Without a limit nothing is counted.
WithinQuota == Limit = 0 \/ quota + 1 <= Limit
CountQuota == quota' = IF Limit = 0 THEN quota ELSE quota + 1

\* A call begins; the breaker lets it through and the quota too.
Send(c) ==
  /\ Free(c) /\ metrics["tool_calls_total"] < MaxCalls
  /\ WithinQuota
  /\ Admit(c)
  /\ CountQuota
  /\ sent' = sent + 1
  /\ Add({"tool_calls_total"})
  /\ UNCHANGED <<scanning, unreported, delivered, cancelled>>

\* The quota is exhausted: the RuntimeError is raised inside _upstream, so
\* the breaker counts it as a failure.
QuotaExhausted(c) ==
  /\ Free(c) /\ metrics["tool_calls_total"] < MaxCalls
  /\ ~WithinQuota
  /\ FailAtOnce(c)
  /\ CountQuota
  /\ Finish({"tool_calls_total", "rate_limit_exceeded_total"})
  /\ UNCHANGED <<scanning, sent, unreported, delivered, cancelled>>

\* Mutant of RejectOpen: the quota is counted before the breaker is asked.
RejectOpenCounted ==
  /\ metrics["tool_calls_total"] < MaxCalls
  /\ ReadState(breaker).state = "open"
  /\ Observe
  /\ CountQuota
  /\ Finish({"tool_calls_total", "circuit_open_total"})
  /\ UNCHANGED <<scanning, sent, unreported, delivered, cancelled>>

\* CircuitOpenError: _upstream never runs.
RejectOpen ==
  /\ metrics["tool_calls_total"] < MaxCalls
  /\ ReadState(breaker).state = "open"
  /\ Observe
  /\ Finish({"tool_calls_total", "circuit_open_total"})
  /\ UNCHANGED <<scanning, quota, sent, unreported, delivered, cancelled>>

\* The settings of the server cannot be used (a timeout that is no number, say):
\* the exception leaves before there is a breaker.
SetupFails(c) ==
  /\ Free(c) /\ metrics["tool_calls_total"] < MaxCalls
  /\ Finish({"tool_calls_total"})
  /\ unreported' = unreported + 1
  /\ UNCHANGED <<vars, scanning, quota, sent, delivered, cancelled>>

\* Any exception of the upstream or the transport; a TimeoutError of a socket
\* is told as if the time of the call were up.
TransportError(c) ==
  /\ Fail(c)
  /\ Finish({"tool_errors_transport"}) \/ Finish({"tool_timeout_total"})
  /\ UNCHANGED <<scanning, quota, sent, unreported, delivered, cancelled>>

\* A RuntimeError is passed on as it is, not only that of the quota: those of
\* get_session, of resolving a connection (oauth2.py:53) and of the client
\* library leave without a count.
PassOn(c) ==
  /\ Fail(c)
  /\ Finish({})
  /\ unreported' = unreported + 1
  /\ UNCHANGED <<scanning, quota, sent, delivered, cancelled>>

CallTimedOut(c) ==
  /\ TimeOut(c)
  /\ Finish({"tool_timeout_total"})
  /\ UNCHANGED <<scanning, quota, sent, unreported, delivered, cancelled>>

\* The upstream answers isError: for the breaker a success.
ToolError(c) ==
  /\ Succeed(c)
  /\ Finish({"tool_errors_tool_error"})
  /\ UNCHANGED <<scanning, quota, sent, unreported, delivered, cancelled>>

\* Mutant of Screen: a blocked answer is counted and still returned.
ScreenOnlyCounts ==
  /\ Finish({"injection_blocked_total"})
  /\ delivered' = delivered + 1
  /\ UNCHANGED unreported

\* What post-processing makes of a text: prompt_injection.check, then
\* check_response, then a result; or json.loads raises what line 154 does not
\* catch (ValueError for a huge integer, RecursionError), or shaping does.
Screen ==
  \/ /\ \/ Finish({"injection_blocked_total"})
        \/ Finish({"rate_limit_signal_total"})
     /\ UNCHANGED <<delivered, unreported>>
  \/ /\ Finish({})
     /\ delivered' = delivered + 1
     /\ UNCHANGED unreported
  \/ /\ Finish({})
     /\ unreported' = unreported + 1
     /\ UNCHANGED delivered

\* The upstream answers with nothing, or with data that is no text.
AnswerPlain(c) ==
  /\ Succeed(c)
  /\ Finish({})
  /\ delivered' = delivered + 1
  /\ UNCHANGED <<scanning, quota, sent, unreported, cancelled>>

\* The upstream answers with a text, processed within the same step...
AnswerText(c) ==
  /\ Succeed(c)
  /\ Screen
  /\ UNCHANGED <<scanning, quota, sent, cancelled>>

\* ... or, where pii_scan is configured, after an answer of the language model
\* that is awaited outside the breaker and its timeout.
AnswerToScan(c) ==
  /\ Succeed(c)
  /\ scanning' = scanning \cup {c}
  /\ UNCHANGED <<quota, sent, metrics, unreported, delivered, cancelled>>

\* llm_redact returns: the model's text, or the regex fallback on any error.
Scanned(c) ==
  /\ c \in scanning
  /\ scanning' = scanning \ {c}
  /\ Screen
  /\ UNCHANGED <<vars, quota, sent, cancelled>>

\* The client is gone: CancelledError at either await.
CancelCall(c) ==
  /\ \/ Cancel(c) /\ UNCHANGED scanning
     \/ c \in scanning /\ scanning' = scanning \ {c} /\ UNCHANGED vars
  /\ Finish({})
  /\ cancelled' = cancelled + 1
  /\ UNCHANGED <<quota, sent, unreported, delivered>>

\* A status request whose read of the state nothing interrupts.
ReadStatus == Observe /\ UNCHANGED toolVars

Clock == Tick /\ UNCHANGED toolVars

\* The key of the new date has no counter yet.
Midnight ==
  /\ quota' = 0 /\ sent' = 0
  /\ UNCHANGED <<vars, scanning, metrics, unreported, delivered, cancelled>>

TCNext ==
  \/ \E c \in Calls :
       \/ SetupFails(c) \/ Send(c) \/ QuotaExhausted(c)
       \/ TransportError(c) \/ PassOn(c) \/ CallTimedOut(c)
       \/ ToolError(c) \/ AnswerPlain(c) \/ AnswerText(c) \/ AnswerToScan(c)
       \/ Scanned(c) \/ CancelCall(c)
  \/ RejectOpen
  \/ ReadStatus
  \/ Clock
  \/ Midnight

TCSpec == TCInit /\ [][TCNext]_tcVars

\* Timers fire, the clock advances, and httpx ends the scan in 30 seconds.
TCFairness ==
  /\ WF_tcVars(Clock)
  /\ \A c \in Calls : WF_tcVars(CallTimedOut(c)) /\ WF_tcVars(Scanned(c))

TCFairSpec == TCSpec /\ TCFairness

-----------------------------------------------------------------------------

InProgress == Cardinality(running) + Cardinality(scanning)

\* Every call is observed exactly once in the latency histogram, whichever of
\* the exits it takes: the calls counted are those observed and those under way.
EveryCallObserved ==
  metrics["tool_calls_total"] = metrics["tool_call_duration_count"] + InProgress

\* /metrics counts a failed call once or not at all, and never one that then
\* returns a result.  Not at all are those that raise what no handler of
\* call_tool counts (unreported): an error in the server's settings, a
\* RuntimeError of the pool, the connection or the library, and what parsing
\* or shaping an answer raises beside JSONDecodeError and TypeError.
OutcomesDisjoint ==
  metrics["tool_call_duration_count"] =
      metrics["circuit_open_total"] + metrics["rate_limit_exceeded_total"]
    + metrics["tool_timeout_total"] + metrics["tool_errors_transport"]
    + metrics["tool_errors_tool_error"] + metrics["injection_blocked_total"]
    + metrics["rate_limit_signal_total"] + delivered + cancelled + unreported

\* The upstream never gets more calls a day than the quota, and the quota of a
\* day is never spent on anything but calls handed to the pool.
QuotaKept ==
  Limit # 0 => sent <= Limit /\ (quota <= Limit => sent = quota)

\* server_registry.py:92-94: the quota is consumed only when the breaker
\* lets the call through.  While it is open and the window has not passed, no
\* step consumes any and none reaches the pool.
OpenSparesQuota ==
  [][ReadState(breaker).state = "open" => quota' <= quota /\ sent' <= sent]_tcVars

\* Every call ends, the scan after the breaker's timeout included.
ToolCallsEnd == \A c \in Calls : ~Free(c) ~> Free(c)
=============================================================================

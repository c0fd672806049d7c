# A TLA+ model of mcp-relay

mcp-relay is a gateway: an LLM client calls tools over SSE, and the relay
forwards each call to one of several remote MCP servers, with credentials,
a circuit breaker, a daily quota and a chain of transformations around it. It
is one asyncio process (or several replicas of it), and nearly everything that is
hard about it is what happens between two awaits. These modules model that part;
TLC checks them on small instances and TLAPS proves the safety of nearly all of them
for every value of the constants.

Paths below are relative to the repository; `…/` is `src/mcp_relay/`.

## 1. The system

| component | code | state it keeps | operations |
|---|---|---|---|
| circuit breaker | `…/resilience/circuit_breaker.py` | per server: state, failure and success counts, time of opening | `state`, `call`, `_on_success`, `_on_failure` |
| session pool | `…/transport/session_pool.py`, `session.py` | per server: runner task, session, `_connected` and `_shutdown` events, startup error; the pool's dictionary | `start`, `stop`, `get_session`, `call_tool`, the connection loop |
| daily quota | `…/resilience/rate_limiter.py`, `state_backend.py`, `backends/` | a counter per server and date, in memory or in Redis with a TTL | `check`, `check_response` |
| tool call path | `…/registry/server_registry.py` `call_tool` | counters and the latency histogram in `…/observability/metrics.py` | one call with all its exits |
| tool registry, refresher | `…/registry/` | `_registered`, `_blocked`, `_tool_metadata`, the tools of FastMCP | `register_all`, `_refresh_once`, `refresh_loop`, `discover`, `build` |
| credentials | `…/auth/resolver.py`, `oauth2.py`, `credential_cache.py` | cached OAuth2 tokens, cached headers | `resolve_connection`, `fetch_token`, `get_cached`, `set_cached` |
| status endpoints | `…/api/` | none | `/health`, `/registry`, `/metrics`; reading a breaker's state may change it |
| application lifecycle | `…/main.py`, `server.py` | the refresh task | load the inbound tokens, `register_all`, pool start, serve, cancel the refresher, pool stop |
| response shaper | `…/transform/response_shaper.py` | none | pruning, flattening, row caps, CSV and Markdown, truncation |
| security pipeline | `…/security/` | none | PII and key redaction, injection check, scan by a language model |
| secret resolver | `…/auth/secret_resolver.py` | none (six external stores) | `resolve`, `resolve_secret_refs` |
| configuration loader | `…/config/loader.py`, `models.py` | none | `load_servers`, `load_security_policies`, `validate_servers` |
| inbound authentication | `…/middleware/authentication.py`, `_load_inbound_tokens` | the set of tokens, fixed at startup | `dispatch` |
| logging | `…/observability/logging.py` | none | formatting |

**How they interact.** `call_tool` asks the breaker, and inside the coroutine the
breaker guards it asks the quota, then the pool; the pool's `call_tool` waits for
the session its runner task holds, or opens one of its own. Every opening, by a
runner, an ephemeral call or a discovery, first resolves its connection through the two
credential caches. The breaker's `wait_for` is the only timeout around a call.
After the breaker has heard of the success the answer is transformed, perhaps
scanned by a language model (a second await, outside the breaker), checked and
returned. The refresher runs beside the calls, discovers each server in turn and
edits FastMCP's tools and the tables that `/registry` reads. `/health` and
`/registry` are plain functions, so Starlette runs them in threads, beside the event
loop. `main.py` holds it together: tokens are loaded, then the lifespan registers
tools, starts the pool, reads the policies once more for the refresh interval, serves,
and on the way down cancels the refresher and stops the pool.

**What is hard.** State read before an await and used after it (breaker, event and
session, free tool names); outcomes that arrive in another order than their
calls; cancellation at any await, of calls and of runners; processes that die
between two Redis commands; clocks that pass midnight or an expiry in the middle
of an operation; passes over servers that fail half way; status requests in threads
while the loop runs; a cancellation that is caught and lost; a boot that
fails when half of it is running.

**What makes each component correct.**

- *Breaker*: no transition is missed or made twice however outcomes interleave;
  an outage lasts the whole recovery window and then ends; what closes the circuit
  tested the server or outlived that window.
- *Pool*: no call waits for a session nobody will open; nothing leaks when tasks
  are cancelled; stop is final and ends; a lost session is replaced.
- *Quota*: no more calls than the limit on a day, across replicas, lost answers
  and midnight; no new day charged for an old one.
- *Tool call*: each call observed once and counted as one failure at most, and nothing
  counted as a failure is returned; quota spent only on calls that are sent.
- *Registry*: the tables agree with what is exposed; a name belongs to one server;
  a blocked tool is not exposed; new tools appear and gone ones go.
- *Credentials*: no expired token, and no token of another client.
- *Shaper*: it removes noise and nothing else, at every depth, whatever options
  are combined.
- *Security pipeline*: an enabled filter holds for what is returned, whichever
  filters are combined; a rate-limit signal is seen.
- *Secrets, loader, inbound authentication*: a reference means its secret; what validation
  accepts can be connected to; exactly the configured tokens are let in.
- *Lifecycle*: shutdown ends, whatever fails, hangs or is cancelled where; startup
  does, unless an upstream keeps it waiting.
- *Status*: what `/health` says of a server is what a call meets.

## 2. The modules

```
CallGate                 what a breaker promises, abstractly
Breaker                  the CircuitBreaker object and its operators
  CircuitBreaker         one breaker and its concurrent calls; implements CallGate
    CircuitBreakerProofs
    StatusThreads        the same breaker read from threads
    ToolCall             call_tool: breaker + quota + outcomes + metrics
      ToolCallProofs
SessionPool              runners, sessions, start, stop and calls
  SessionPoolProofs
Boot                     what configuration and secrets become
  Relay                  main.py: Boot + SessionPool + Breaker + refresh task
    MCRelay
    RelayProofs          with those of SessionPoolProofs
RateLimiter              the quota over memory or Redis
  MCRateLimiter
  RateLimiterProofs
ToolRegistry             registration and refresh
  MCToolRegistry
  ToolRegistryProofs
Credentials              the two caches of resolve_connection
  MCCredentials
  CredentialsProofs
ResponseShaper           JSON values and their transformations
  AnswerPipeline         the filters of an answer, its parsing, signals and shaping
    MCAnswers
    AnswerPipelineProofs
```

A definition named "mutant of X", placed before X, is X with a plausible bug.
Nothing refers to it; put in the place of X it shows that a property can fail.

**Breaker** has the object as a record. `ReadState` is the `state` property, which
turns an open breaker half open when the window has passed; the wall clock is kept
as the time since opening, saturated at the window. `OnSuccess` and `OnFailure`
are the two private methods.

**CircuitBreaker** gives it callers. `Admit` is `call` up to the await, `Succeed`,
`Fail`, `TimeOut` and `Cancel` are its exits (a cancelled call records nothing,
because `CancelledError` is no `Exception`), `FailAtOnce` a coroutine that raises
before its first await, `Observe` any other reader of the state. `seen` is the
local `current`; `openFor` is history.

**StatusThreads** adds readers in threads. A read that changes the state is three steps,
`Decide`, `SetState` and `ResetSuccesses`, with the event loop running in between; one
that nothing interrupts is `Observe`.

**CallGate** is the abstract specification: calls begin only while the gate is
not open, an open gate lets none through before the whole window has passed since it
opened, it opens and closes only as a call ends, and it closes only from half open.
It promises nothing of when the calls in flight began.

**SessionPool** has one `runner[s]` per connection loop, whose value is the await
the loop is at: opening, holding, closing after a drop (with or without an exception),
sleeping after either, and the two places a cancellation can reach it. `StartServer`
and `StopServer` are the loop bodies of `SessionPool.start` and `stop`, which handle
one server at a time; `Call`, `Refuse`, `Return`, `CallRaises` and `TimeOut` are
`SessionPool.call_tool`. Below `open_session` lies the MCP client library:
of it only this is assumed, that an attempt yields a session, raises or never ends
(`session.py:44-45` and `55-56` await `initialize()` without a timeout), and
that a held session may end with an exception, without one, or die silently.
`Wake` is the return of `_sleep_backoff`, by timeout or by `_shutdown`; `Retry` is the loop's
guard behind it.
`asyncio.Event.set` schedules its waiters ahead of anything the setting task does
later and the ready queue is first in, first out, so a waiter resumes within the
step that sets the event.

**RateLimiter** splits `check` where it awaits: with Redis, `RedisCheck` computes key and
TTL, `Incr` and `Expire` are the two commands, and `Abandon` and `IncrLost` end a
check before a command runs or after it ran but before its answer came. With
memory a check is one step. `Tick` is the clock and Redis's expiry; `Restart` a
process's end. A second has `Subsecond` ticks, so that rounding the TTL down to
whole seconds is visible. The code reads the clock twice, for the date and for
the TTL, microseconds apart; the model reads it once.

**ToolCall** extends CircuitBreaker: each exit of `call_tool` is a breaker action
conjoined with the metrics it touches. `Finish` is the `finally` clause. Some
exceptions leave uncounted, and `unreported` is the history of them: `SetupFails` (before there is a breaker),
`PassOn` (any `RuntimeError` of the pool, the connection or the library) and, in `Screen`, what
parsing or shaping raises beside `JSONDecodeError` and `TypeError`. The
quota is that of the memory backend; how the Redis steps can be cut short is
RateLimiter's subject, how a session is found SessionPool's. What a transformation does
to a text is left out: only the order of the checks and how they end a call is kept.

**ToolRegistry** handles a server in the steps between its awaits: `TakeUp`
(discovery has answered; blocked names are noted at once), `AddTool` one tool at a
time, `FinishServer` (stale tools removed, tables stored). `BuildFails` is the
`ValueError` of `inspect.Signature` for a schema with an optional property before
a required one; it ends the pass, and the servers behind are not handled. A lookup that
`AddTool` awaits is part of its step, since no other task writes the tools. A pass reads the files when it begins (`policy`, `todo`); a server that
is not listed is passed over with its tools as they are, one that was not there at
startup enters the tables at the end of its first pass. A proxy name is a pair of prefix and name, since only equality of
names matters. Upstreams, the blocklist and the list of servers change at any time.

**Credentials** follows an opening through `resolve_connection`: `Open` (the header
cache, then the await on the secrets), `UseToken` or `Request` in `fetch_token`,
`Issue` at the issuer and `Arrive` at the relay, `Fail`. A token carries its issuer's
clock, the cache entry the relay's reckoning of it. Where the issuer leaves out `expires_in`, the
relay's default of 3600 seconds is taken to be right: it is one of the `Lifetimes`.

**Boot** is what the relay makes of its configuration, as operators: `Resolve` and its
parts are the six secret backends, `ReplaceRefs` the replacement of references in a string,
`InboundTokens` and `Accepts` the inbound middleware, `Validated` is `validate_servers`,
`Connection` is `resolve_connection` beyond its caches, with what httpx then refuses (`Takes`). A string is a sequence of
literals and references; where the code may raise, an operator gives the set of its
results, empty when it raises.

**Relay** runs the application around the actions of SessionPool and the operators of
Breaker: the boot, with `register_all` going through the list of servers, then the pool's tasks, the refresh loop and the calls beside
each other, then one of the two ways down. A shutdown cancels the refresher, awaits
it and stops the pool. A startup that fails after the pool was started (the policies are
read again, outside the `try`) leaves the loops to `asyncio.run`, which cancels them
with `_shutdown` clear. In both, a cancellation that unwinding turns into another
exception is caught and the task goes on: `RefresherGoesOn`, `LoopGoesOn`. Of the
refresher only the await it is at is kept; the quota is left out.

**AnswerPipeline** follows an answer through `call_tool`: the filters run on its text,
of which it is kept what they find in it, what of that an escape hides from them until the
text is parsed, whether it parses, is no JSON or too much for the parser, and whether a label
in the place of PII would break its JSON; then it is parsed, tested for signals and
shaped. The language model may answer any text, standing for any value. `Process` has
every exit from the injection check on: blocked, an exception that nothing catches, a signal,
a value, a text (no JSON, or a `TypeError` because an option has an element that cannot be hashed).

**ResponseShaper** is a set of operators, one per function of the code, over JSON
values; `Shape` is one call on one answer and one configuration. Texts are
empty or not, a table is its number of rows, and a dict is the set of its fields: where the
code takes the first key, any may be the first. `Json[n]` are the values nested `n` deep at most, and
each function that the code calls for the parts of a value is a recursive function over that depth.
`Content`, which the code does not have, is the reference: the scalars of a value with the
keys on the way to them.

## 3. What TLC checks

| run | instance | shows |
|---|---|---|
| `Breaker` | 3 calls, thresholds 2 and 2, timeout 3, window 2 | `CountersBelowThresholds`: no order of outcomes misses a transition. `OutageBounded`: late failures restart the window, but for no longer than a call lasts. `ClosedByProbeOrLateCall`: what closes the circuit is a call that was let through to test the server, or one that has outlived the window. `ImplementsGate`: refinement. `OpenIsTemporary`: an outage ends (liveness). |
| `Pool` | 2 servers, 2 calls, backoff 1 to 3 | `EventMatchesSession`: a call is refused only after a failed start or during stop, never in a reconnect. `WaitersHaveARunner`: no lost wake-up. `NoLeak`, `NoReopenAfterStop`: cancellation at every await, a lost one included. `Reconnects`, `StartAndStopEnd`: liveness; stop always ends, start unless a first attempt hangs. |
| `Quota` | 2 replicas, 2 concurrent checks, limit 1, 2 days of 2 seconds of 2 ticks, 3 checks a day, both backends | `QuotaPerKey`, `NewDayIsFresh`, and for Redis `LimitUntilLastSecond`: what rounding the TTL can do to the daily limit, and no more. |
| `ToolCall` | 2 concurrent calls, 4 in all, quota 2, a breaker that opens on 2 failures | `EveryCallObserved`, `OutcomesDisjoint`: the metrics balance over all exits, the uncounted ones named. `QuotaKept`, `OpenSparesQuota`: the order of breaker and quota. `ToolCallsEnd`: liveness, the scan included. |
| `Answers` | 3640 answers nested three deep under every combination of the shape options, and a smaller set under every combination of filters, texts and answers of the model | `NoEmptiesLeft`, `OnlyNoiseRemoved`: the shape options compose, in the order the code gives them. `FiltersHold`: an enabled filter holds for what is returned, but for what escapes hid from it and for keys and PII the model wrote. `SignalEndsCall`: a signal ends the call, unless redaction has broken the JSON or an option cannot be hashed. |
| `Registry` | 2 servers that may offer the same unprefixed name, the second with a tool that cannot be built, coming and going in the configuration | `TablesMatchTools`, `EntriesMatchTools`: also through passes that break off. `BlocklistEnforcedWhereReached`: the kill switch works for a server that every pass reaches, because its tools and those of the servers before it can be built. `ToolsFollowUpstream` (liveness): in unbroken passes new tools come and withdrawn or blocked ones go. |
| `Credentials` | 2 openings, 3 servers of one client, two sharing a scope; cache lifetime 2, margin 1, latency 1, tokens of 3, clock to 5 | `FreshWhenResolved`: the margin covers a token's time on its way, whatever overtakes what. `ExpiredForLessThanTTL`: how stale the header cache can make a token. |
| `Relay` | each of some fourteen hundred settings booted, one of them followed: 1 server, 2 calls, thresholds 2, window 2 | `InboundAsConfigured`: the middleware lets in what the policies say, unless all tokens turn out empty. `ValidConfigConnects`: what validation lets pass can be connected to exactly if it has none of six named mistakes, in lists of up to two servers. `StatusTellsCalls`: `/health` and what a call meets. `DeadSessionIsolated`, `StartupAndShutdownEnd`: liveness. |

Four runs end in a counterexample, and are meant to: each checks one sentence of
the repository that the code does not keep.

| run | sentence | what the code does |
|---|---|---|
| `Breaker_reader` | `circuit_breaker.py:6`, "HALF_OPEN — recovery window elapsed" | a status request in a thread that has decided to half open the breaker is overtaken by a probe that closes it; its assignment makes a closed breaker half open, and one failure then opens it |
| `Pool_fallback` | `session_pool.py:189-191`, a call falls back to an ephemeral session if "startup failed and reconnect hasn't succeeded yet" | the object of a server that failed at startup stays in the pool, so calls to it are refused with "session unavailable" |
| `Registry_killswitch` | `config/security_policies.yaml:6`, blocked tools "are never exposed to the LLM client" | a tool that cannot be built ends every refresh pass before the removal step, so a tool blocked later stays exposed |
| `Credentials_expiry` | `config/remote_servers.examples.yaml:111-112`, a token is cached, "refreshing it before expiry" | headers are cached for five minutes whatever is left of the token in them |

Other disagreements met while modelling, which have no run of their own.

*Breaker and calls*

- `circuit_breaker.py:6` and `README.md:742` let "one probe" through; every call that
  arrives while half open is let through. CallGate therefore admits any number.
- Where a call may outlive the recovery window, the late success of one that was admitted
  before the trip closes a half-open circuit, against the "test" of `circuit_breaker.py:6-7`;
  `ClosedByProbeOrLateCall` says what holds for all settings. With the defaults (30 s and 60 s)
  no call is so late; both are configurable per server, and with Pattern 7 of
  `config/remote_servers.examples.yaml` (60 s and 30 s) calls are.
- Exceeding the quota raises inside the coroutine the breaker guards, so it counts as a
  failure: a few rejected calls open the circuit of a healthy server, and `/health`
  calls it `degraded`, "Circuit open or half-open (upstream failing)" (`README.md:1009`).
- A check cut short between INCR and EXPIRE leaves a key without expiry, and no later check
  gives it one; `README.md:905` says keys "automatically expire at midnight".
- A key whose TTL was rounded down can end in the last second of its day and a
  second quota start, against "enforced correctly" in `README.md:893`;
  `LimitUntilLastSecond` says how much.

*Pool and lifecycle*

- A server whose first connection fails is never tried again, although
  `session_pool.py:173-174` says "until reconnect succeeds", and `/health` calls it "connecting"
  for good (`README.md:1010`). `Reconnects` and `StatusTellsCalls` except such servers.
- A startup that fails after the pool was started never calls `pool.stop`; with a lost
  cancellation the loop goes on and keeps the process alive.
- `initialize()` and `list_tools()` have no timeout: an upstream that keeps its stream open and
  never answers holds up the discovery, or `SessionPool.start`, of all servers behind it, and with it
  the boot. `StartAndStopEnd` and `StartupAndShutdownEnd` name the server that is being waited for.
- Not every failure of a call is counted: a `RuntimeError` of the pool, of resolving the connection
  (`oauth2.py:53`) or of the client library passes `server_registry.py:110` as it is, and so does what
  `json.loads` raises beside `JSONDecodeError`. `OutcomesDisjoint` counts them as `unreported`.

*Registry*

- Discovery answers `[]` for an unreachable server, so one failed refresh unregisters all its
  tools (`README.md:612`: "when a tool disappears it is unregistered").
- A tool that cannot be built takes the kill switch from its own server and from all servers
  behind it in the file, which no refresh handles any more. The first is what
  `Registry_killswitch` shows; `BlocklistEnforcedWhereReached` excludes both.
- A server that is disabled or removed keeps its tools until a restart; one that is added
  at run time gets tools but is in neither `/registry` ("every configured server",
  `README.md:828`) nor `/health`, which read the list of startup. Nothing rejects duplicate server names,
  and a refresh does not validate what it reads.
- A pass that a tool breaks, over a server that was not registered at startup, leaves
  the tools it had added exposed and in no table: `Tracked` in `TablesMatchTools`.
- `_tool_metadata` has one entry per proxy name: a block on one server overwrites the
  entry of another server's tool of that name, and removing a tool that has just
  been blocked drops the description of the blocked entry (`README.md:878`).
  `EntriesMatchTools` is what does hold.
- `tool_refresh_total` counts the cycles begun, where `README.md:618` says completed.

*Configuration, secrets, inbound authentication*

- `loader.py:28` promises "the first config error found". Six mistakes pass and show only when the
  server is connected to: a null `auth`; a number where a URL or a header needs a text; a URL
  without the placeholder; a secret that is not there; a bearer token that turns out empty; a
  `token_url` that is null. `ValidConfigConnects` shows that there are no others among the settings
  modelled, and that such a server offers no tools; the relay comes up all the same if another one does.
- If every token of `inbound_auth` resolves to an empty text, there is no middleware and
  every request is let through (`main.py:62`), although `README.md:641` and `config/security_policies.yaml:78-79`
  require a token on every request. `InboundAsConfigured` holds only unless `TokensLost`, which is this case.
- `README.md:647` and `security_policies.yaml:79` exempt `/metrics`; the code (`authentication.py:15-18`) and
  `README.md:979` exempt `/health` alone, and so does `InboundAsConfigured`, which tries both.
- In a string with several references, a secret that itself reads like a reference can take
  a replacement meant for a later one. `PlainSecrets` excludes it.
- `secret_resolver.py:82-83` promises `KeyError` for a missing secret; the libraries of
  Google Cloud and Vault KV 2 raise their own exceptions, every exception of Azure becomes `KeyError`, and a
  Vault value that is null becomes the text "None".
- The key of the OAuth2 cache leaves out the audience, so `OwnClientAndScope` cannot say
  audience.

*Answers*

- Error answers pass only the key redaction, and the filters look only at the first item of an
  answer (`README.md:453-470` describes them for all tool output). They look at the text and not at the value:
  what an escape such as `\u0040` hides they do not find, and `json.loads` brings it back.
- The text of the language model replaces what the filters left, and only the injection check looks at it:
  keys and PII that it writes are returned.
- `sanitize_args` redacts
  only texts at the top level of the arguments.
- A label in the place of PII breaks the JSON where a number has 16 digits (a time in microseconds)
  or an address follows an escape: the answer is returned as an unshaped text and not
  tested for signals. `SignalEndsCall` names it.
- A JSON member `"api_key": "…"` is not matched by the key pattern, because of the quotation mark.
- `max_rows` caps every top-level list whose first item is a dict
  (`response_shaper.py:143`), where `README.md:533` says the first list found.

**Bounds.** Every counter that the code lets grow is bounded in a guard or by a
constant named for it: `MaxFailures`, `MaxPerDay`, `MaxCalls`, `Days`, `Horizon` of
Credentials; Relay stops a failure count at the threshold, beyond which the code does not tell
counts apart. Breaker: three calls are one more than either threshold, so that a call can
be late on either side of a trip, and `MaxFailures` lets every one of them fail after
it. Pool: two servers suffice for start and stop to wait for one while the other
runs, fails or drops; three backoff values for growth, cap and reset. Quota: a
limit of 1 with two slots makes any two checks collide; two ticks a second make the
rounding visible; two days give one midnight. ToolCall: four calls cross the quota and the breaker's
threshold in one behaviour. Registry: one shared name is the whole of a
collision; `Catalogue` and `Blockable` leave each server the names with which it can collide, break a
pass or be blocked, `Optional` the one server that comes and goes. Credentials: the clock runs one tick past the moment an expired token could
last be served. Answers: a `Depth` of 3 is one more than the limits and the formats look into, so
that cleaning goes below them; `FilteredInputs` and `FilteredConfigs` are answers with and without a signal key,
and shapes that strip it, truncating or not, for which all filters are tried, over texts with every
combination of matches, all of them hidden from the filters or none. Relay: one
server, since servers share nothing but the order in which start and stop handle them,
which Pool checks with two; two calls, so that one is late when the other trips the
breaker; `Followed` is the one setting whose application is followed beyond its boot, and
`ListSettings` has every pair of servers out of one that connects, one that validation refuses and one whose
mistake it overlooks, each enabled or disabled.

**Fairness.** The event loop runs ready tasks and due timers: weak fairness on the clock, on
timeouts, on runner and refresher steps. Timers are urgent, as for a loop that is not
blocked: time does not pass while one is due. Nothing forces a call, a drop, a stop, a blocklist edit or an upstream change.
No fairness is assumed of an attempt to open a session or of a discovery at startup: they may hang, and
`StartAndStopEnd` and `StartupAndShutdownEnd` say that nothing but such a server keeps the boot from ending,
and nothing at all the way down.
Two strong fairness conditions are assumptions on the servers: one that keeps being tried
lets one attempt succeed (`OpenOk`, stated as the premise of `Reconnects`), and one that keeps being asked answers from
time to time (`Refresh`, on which `ToolsFollowUpstream` depends; the weak fairness on `RefresherStep`
also takes it that a discovery in a refresh ends). The scan ends because httpx gives it 30 seconds.
Relay has weak fairness on the boot but for the discoveries, on the ways down and on a loop that is closing or
sleeping; `DeadSessionIsolated` takes as its premise that calls to the server are made and fail.

Deadlock is checked in every run: what may really come to rest, a stopped pool, a
relay whose startup failed or whose process is gone, an answer that has been returned, has a stuttering step of its own.

## 4. What is proved

| module | theorems | argument |
|---|---|---|
| `CircuitBreakerProofs` | `TypeCorrect`, `ThresholdsHold`, `OutageIsBounded`, `HalfOpenHearsLateCallsAtMost`, `NoEarlierCallCloses`, `Refinement` | `WindowInv` ties three clocks together: while the breaker is open, every running call is at least as old as the outage, so none is left `CallTimeout` after it began, and the recovery window, restarted by late failures, lags behind the outage by at most one `CallTimeout`. The same invariant gives `WindowOutlived`: a call that is left when the window has passed is at least as old as the window is long, which is all that the last three theorems need, whatever the two timeouts are. |
| `SessionPoolProofs` | `TypeCorrect`, `EventAgrees`, `NoLostWakeup`, `NothingLeaks`, `StopIsFinal`, `BackingOff` | `IInv` says for every await of a connection loop what event, session, connection and flags then are (`RunnerInv`), which loops exist in each phase of the pool (`PhaseInv`) and what a waiting call knows (`CallInv`). None of the properties is inductive by itself: each needs to know what a loop will find when it resumes. |
| `ToolCallProofs` | `UsesBreaker`, `ThresholdsHoldForTools`, `TypesKept`, `QuotaIsKept`, `OpenBreakerSparesQuota`, `LatencyComplete`, `OutcomesAreDisjoint` | Every step of ToolCall is a step of CircuitBreaker or leaves its variables alone, so the breaker's theorems carry over. `OutcomesInv` follows the sum of the counters through the exits: each adds one to the calls observed and one to a failure counter, or to the calls delivered, cancelled or unreported, and never to two of them. |
| `CredentialsProofs` | `TypeCorrect`, `ResolvedIsFresh`, `StalenessBounded`, `OwnTokens` | `TokensSound`: the relay's idea of a token's end is late by at most the latency. `HeadersSound`: headers outlive their token by at most the cache lifetime. `InFlight` ties both to the tokens under way. |
| `RateLimiterProofs` | `TypeCorrect`, `QuotaHolds`, `LimitHoldsUntilLastSecond`, `NewDayStartsFresh` | `OneOwesTTL`: of the checks on a key only the one that `INCR` answered 1 sets the TTL; its request is counted and not yet admitted, which leaves room for it under the limit. `TTLReachesLastSecond`, `KeyReachesLastSecond`: the floor of the seconds costs less than a second, so until then the key has seen all that its date has served (`KeySawAll`). `SharedCharge`: a counter and the checks whose `INCR` is still to run never exceed the checks begun on that date. |
| `ToolRegistryProofs` | `TypeCorrect`, `TablesAgree`, `EntriesAgree`, `BlocklistHolds` | `PassInv` says what a pass knows of the server it handles: at startup it is new, afterwards `current` is what `_registered` holds for it, the same object if the server is known. With it `TablesInv`, the ownership of names, survives a pass that breaks; at startup it holds of every server, which is what makes the servers of the startup tracked ever after. `PolicyInv`, that nothing blocked is among the tools a pass may expose and that a pass has handled all servers before the one it is at, then gives the kill switch: a pass that breaks is past every server with only buildable tools before it (`ReachedBuilds`). |
| `RelayProofs` | `RTypeCorrect`, `StatusIsTrue`, `TokensAsConfigured`, `ConfigIsReported`, `ExitCloses`, `DrivesPool`, `PoolIsSafe` | Every step of the application is a step of the pool or leaves it alone (`PoolSteps`), but for `CancelLoops` of a failed startup, which cancels the loops behind the pool's back. So the pool's `IInv` holds up to then, `StageInv` says in which phase the pool is at each stage, and `HoldInv`, that a session or a connection has a loop that holds it, survives the failed startup as well and gives `ExitCloses`. `BootInv` keeps what startup made of the settings; that this is what they mean is `Substitution`: the references replaced one after the other, each at its first occurrence in what the string has become, give what replacing them all at once would, if no secret reads like a reference. It is proved by induction over the string: after n pieces the string is the first n parts, which hold no reference, followed by the rest as it was. `ConnectsIff` then goes through the auth types: a validated server connects exactly if none of the six mistakes is in it. |
| `AnswerPipelineProofs` | `EnabledFiltersHold`, `SignalsEndCalls`, `NoEmptyValues`, `OnlyNoiseGoes` | `FilteredInv`: until the call ends, `raw` is the text as the filters so far leave it; the lemmas say what the filters leave of a text, and what a call that ends from the injection check on returns. `ShapedInv`: what is shaped is the upstream's answer, in a way the section allows, so the last two theorems are about `Shape`, for values of any depth. A lemma for each recursive function (`FlattenLevels`, `StripFieldsLevels`, `StripNullsLevels`, `InsideLevels`, `ContentLevels`) says what it makes of a value from what it makes of the parts. By induction over the depth follow `StripNullsFull` (no empty value is left, because the parts are cleaned before they are judged), `ArrangeFull` (a cap keeps a row of a list, a table is not empty) and, one for each step of cleaning, `ContentFlattened`, `ContentStripped` and `ContentCleaned`, whose composition is `ShapeContent`. |

All hold for any sets of servers, replicas and calls, any thresholds, timeouts and quotas,
from the named assumptions in the modules, which TLC evaluates in the runs. The
bounds (`MaxFailures`, `MaxCalls`, `Horizon`, `Days`, `MaxPerDay`, `Depth`) are arbitrary naturals in the proofs. Of
the assumptions, `LatencyAssumption` of Credentials is about the world: the issuer's
answer takes no longer than the 60 s margin (each phase of the request has a
timeout of 15 s) and tokens live longer than their delivery takes. `ConfigAssumption` of
ToolRegistry is what `config/remote_servers.yaml:65` asks for, that server names are unique;
the loader does not check it. `SettingsAssumption` of Relay says what the model's settings are: a
string is a sequence of pieces, a scalar that is none is not one, and every name that is
referred to has an entry, empty where there is no such secret; the servers are a sequence, and those enabled in
the setting that is followed are the pool's.

`BackingOff` (the backoff shrinks only by a connection) and `OwnTokens` (no token of another client
or scope) state properties that no run checks, being proved for every instance; so
do `ExitCloses` (the process ends with no session and no connection), `DrivesPool` and `PoolIsSafe`.

The provers cannot instantiate the library's induction theorems, which take a predicate.
`NatInduct` in RelayProofs and AnswerPipelineProofs states induction on a set instead, from the
well-foundedness of the naturals, and with it what the recursive functions `ReplaceRefs`,
`FlattenSeq` and those of the shaper compute is proved (`Recursion`, `JsonLevels`). No module
declares a RECURSIVE operator.

Only model-checked: every liveness property (fairness and `ENABLED` are out of the
prover's reach).

## 5. What is not modelled

- What regular expressions match beyond whether they find something, the layout of
  JSON responses, the parameter lists in `/registry`, log lines: data, not control.
- `sanitize_args`, a map over the arguments without state; `GET /metrics`, which only formats.
- What a header or a URL may not hold beside nothing and what is no text (control characters, say).
- How long a discovery in a refresh takes: one that never ends stops the refresher until the shutdown cancels it.
- The two instants at which `/registry` reads `_registered` and `_tool_metadata`: between them a
  description may be gone.
- The wait of uvicorn for open requests at shutdown, which is outside the repository: in Relay
  calls may still begin while the application goes down.
- `CircuitBreaker.reset` and `credential_cache.invalidate`, which no code of the relay calls.

## 6. Plan

The order was: breaker, pool, quota, call path, registry, credentials, shaper, each with
its proofs where they fit; then status threads, the filters of an answer, the boot and the
application around the pool; then the proofs about the quota, the registry, the application,
the filters and the shaper. What is left: the breaker's promise per server in Relay, as a refinement of CallGate.

--------------------------------- MODULE Relay ---------------------------------
(****************************************************************************)
(* The application around its components, main.py: the boot, the session    *)
(* pool, the calls that go through each server's breaker to the pool, the   *)
(* refresh task and the two ways down, an orderly shutdown and a startup    *)
(* that fails after the pool was started.                                   *)
(*                                                                          *)
(* The actions of SessionPool and the operators of Breaker occur here as    *)
(* parts of the application's steps.  The quota is left out (ToolCall), and *)
(* so are the tables of the refresher (ToolRegistry), of which only the     *)
(* await it is at is kept.  A breaker's failure count stops at the          *)
(* threshold, beyond which the code does not tell counts apart.             *)
(****************************************************************************)
EXTENDS SessionPool, Breaker, Boot

CONSTANTS Settings,  \* the settings the relay is booted with
          Followed,  \* bound: those with which it is followed beyond the boot
          Requests   \* the inbound requests tried

EnabledServers(st) == {server \in Range(st.servers) : server.enabled}

\* The strings that are resolved, what the secrets resolve to, and their pieces.
StringsOf(st) ==
  Range(st.inbound.tokens) \cup
    ({server.auth.value : server \in {sv \in Range(st.servers) : sv.auth # Null}}
       \ {Null, Number})
SecretsOf(st) == UNION {Resolve(st.store, n) : n \in DOMAIN st.store.entries}
PiecesOf(st) == UNION {Range(t) : t \in StringsOf(st) \cup SecretsOf(st)}

\* A string is a sequence, so no scalar that is none is one, and every name that
\* is referred to has an entry, {} where there is no such secret.  The servers
\* of the pool are those that are enabled.
ASSUME SettingsAssumption ==
  /\ Null # Number
  /\ \A st \in Settings :
       /\ StringsOf(st) \cup SecretsOf(st) \subseteq Seq(PiecesOf(st))
       /\ {Null, Number} \cap Seq(PiecesOf(st)) = {}
       /\ st.servers \in Seq(Range(st.servers))
       /\ \A t \in StringsOf(st) : \A i \in DOMAIN t :
            t[i].ref => t[i].id \in DOMAIN st.store.entries
  /\ \A st \in Followed : {server.name : server \in EnabledServers(st)} = Servers

VARIABLES
  stage,      \* how far the application is
  settings,   \* its settings
  tokens,     \* the tokens of the inbound middleware
  handled,    \* how many servers register_all is done with
  offering,   \* those of them that have tools, by their place in the file
  breaker,    \* the breaker of each server
  refresher,  \* the await the refresh task is at
  swallowed   \* history: a cancellation ended as another exception, was caught,
              \* and the cancelled task goes on

bootVars == <<settings, tokens, handled, offering>>
relayVars == <<stage, bootVars, breaker, refresher, swallowed>>
rVars == <<vars, relayVars>>

Booting == {"loading", "validating", "registering", "pooling"}
GoingDown == {"cancelling", "stopping", "aborting", "unwinding"}

RTypeOK ==
  /\ TypeOK
  /\ stage \in Booting \cup GoingDown \cup {"serving", "exited"}
  /\ handled \in Nat /\ offering \subseteq 1..handled
  /\ breaker \in [Servers -> BreakerType]
  /\ refresher \in {"none", "sleeping", "reading", "discovering",
                    "cancelled", "cancelled discovering", "done"}
  /\ swallowed \in BOOLEAN

RInit ==
  /\ Init
  /\ stage = "loading"
  /\ settings \in Settings
  /\ tokens = {} /\ handled = 0 /\ offering = {}
  /\ breaker = [s \in Servers |-> NewBreaker]
  /\ refresher = "none"
  /\ swallowed = FALSE

-----------------------------------------------------------------------------
(* Startup. *)

\* build_app_async; an exception ends the process.
LoadTokens ==
  LET loaded == InboundTokens(settings) IN
  /\ stage = "loading"
  /\ \/ loaded # {} /\ tokens' = Only(loaded) /\ stage' = "validating"
     \/ loaded = {} /\ stage' = "exited" /\ UNCHANGED tokens
  /\ UNCHANGED <<vars, settings, handled, offering, breaker, refresher, swallowed>>

\* register_all up to its loop: the first mistake that validate_servers finds, in
\* a disabled server too, ends the process, and so does a file it cannot read.
Validate ==
  /\ stage = "validating"
  /\ \/ (\A server \in Range(settings.servers) : Validated(server)) /\ stage' = "registering"
     \/ stage' = "exited"
  /\ UNCHANGED <<vars, bootVars, breaker, refresher, swallowed>>

\* The loop of register_all.
NextServer == settings.servers[handled + 1]

SkipServer ==
  /\ stage = "registering" /\ handled < Len(settings.servers)
  /\ ~NextServer.enabled
  /\ handled' = handled + 1
  /\ UNCHANGED <<vars, stage, settings, tokens, offering, breaker, refresher, swallowed>>

\* The discovery of a server ends, if it does: a server that cannot be connected
\* to, or raises, has no tools, like one whose tools are all blocked; of one
\* that answers, a tool that cannot be built ends the process.
RegisterServer ==
  /\ stage = "registering" /\ handled < Len(settings.servers)
  /\ NextServer.enabled
  /\ handled' = handled + 1
  /\ \/ UNCHANGED <<stage, offering>>
     \/ /\ Connection(settings.store, NextServer) # {}
        /\ \/ offering' = offering \cup {handled + 1} /\ UNCHANGED stage
           \/ stage' = "exited" /\ UNCHANGED offering
  /\ UNCHANGED <<vars, settings, tokens, breaker, refresher, swallowed>>

\* Startup fails if servers are enabled and none has tools.
RegisterDone ==
  /\ stage = "registering" /\ handled = Len(settings.servers)
  /\ stage' = IF EnabledServers(settings) # {} /\ offering = {} THEN "exited" ELSE "pooling"
  /\ UNCHANGED <<vars, bootVars, breaker, refresher, swallowed>>

StartPool ==
  /\ stage = "pooling" /\ settings \in Followed
  /\ StartDone \/ \E s \in Servers : StartServer(s)
  /\ UNCHANGED relayVars

\* With the pool running _lifespan reads the policies again, for the interval;
\* 0 is no refresher.
Serve ==
  /\ stage = "pooling" /\ phase = "serving"
  /\ stage' = "serving"
  /\ refresher' \in {"none", "sleeping"}
  /\ UNCHANGED <<vars, bootVars, breaker, swallowed>>

\* The file cannot be read any more or the interval is no number.  This is
\* outside the try: pool.stop is not called.
ServeFails ==
  /\ stage = "pooling" /\ phase = "serving"
  /\ stage' = "aborting"
  /\ UNCHANGED <<vars, bootVars, breaker, refresher, swallowed>>

-----------------------------------------------------------------------------
(* The tasks that run beside each other. *)

Runner(s) ==
  /\ OpenOk(s) \/ FirstOpenFails(s) \/ ReopenFails(s) \/ DieSilently(s)
     \/ Drop(s, "closing_ok") \/ Drop(s, "closing_exc") \/ Unwound(s) \/ Retry(s)
  /\ stage # "exited"
  /\ UNCHANGED relayVars

\* The refresh loop: sleep, read both files, discover; a cycle that fails is
\* logged and the loop goes on.
RefresherStep ==
  /\ \/ refresher = "sleeping" /\ refresher' = "reading"
     \/ refresher = "reading" /\ refresher' \in {"discovering", "sleeping"}
     \/ refresher = "discovering" /\ refresher' = "sleeping"
  /\ stage # "exited"
  /\ UNCHANGED <<vars, stage, bootVars, breaker, swallowed>>

Note(s, outcome) ==
  breaker' = [breaker EXCEPT ![s] =
                [outcome EXCEPT !.failures = IF @ > FailureThreshold
                                             THEN FailureThreshold ELSE @]]

\* A call of server_registry.call_tool that its breaker lets through.
Begin(c, s) ==
  LET now == ReadState(breaker[s]) IN
  /\ stage \in {"serving", "cancelling", "stopping"}
  /\ now.state # "open"
  /\ Call(c, s)
  /\ Note(s, now)
  /\ UNCHANGED <<stage, bootVars, refresher, swallowed>>

Succeeds(c) ==
  /\ Return(c)
  /\ Note(target[c], OnSuccess(breaker[target[c]]))
  /\ UNCHANGED <<stage, bootVars, refresher, swallowed>>

\* Mutant of RecordFailure: an exception that is no error of the upstream,
\* a timeout say, does not count.
RecordFailureOfAnswer(c) ==
  IF link[target[c]] = "up" \/ pc[c] = "ephemeral"
  THEN Note(target[c], OnFailure(breaker[target[c]]))
  ELSE UNCHANGED breaker

RecordFailure(c) == Note(target[c], OnFailure(breaker[target[c]]))

\* The session is unavailable, the upstream or the transport raises, or the
\* time is up.
Fails(c) ==
  /\ Refuse(c) \/ Return(c) \/ CallRaises(c) \/ TimeOut(c)
  /\ RecordFailure(c)
  /\ UNCHANGED <<stage, bootVars, refresher, swallowed>>

\* The client is gone: the breaker records nothing.
Cancel(c) ==
  /\ pc[c] \in {"waiting", "using", "ephemeral"}
  /\ Leave(c)
  /\ UNCHANGED relayVars

Tick ==
  /\ \E s \in Servers : Note(s, PassTime(breaker[s]))
  /\ UNCHANGED <<vars, stage, bootVars, refresher, swallowed>>

-----------------------------------------------------------------------------
(* The way down. *)

\* Mutant of CancelRefresher: it is left to find out by itself.
CancelRefresherNot(r) == r

\* Where task.cancel() finds the refresh task.
CancelRefresher(r) == CASE r = "none" -> "none"
                        [] r = "discovering" -> "cancelled discovering"
                        [] OTHER -> "cancelled"

\* uvicorn ends the lifespan, which cancels the refresher and awaits it.
Shutdown ==
  /\ stage = "serving"
  /\ stage' = "cancelling"
  /\ refresher' = CancelRefresher(refresher)
  /\ UNCHANGED <<vars, bootVars, breaker, swallowed>>

RefresherEnds ==
  /\ refresher \in {"cancelled", "cancelled discovering"}
  /\ refresher' = "done"
  /\ UNCHANGED <<vars, stage, bootVars, breaker, swallowed>>

\* Unwinding the connection of a discovery raises something else instead, which
\* discover catches: the cancellation is lost.
RefresherGoesOn ==
  /\ refresher = "cancelled discovering"
  /\ refresher' = "sleeping"
  /\ swallowed' = TRUE
  /\ UNCHANGED <<vars, stage, bootVars, breaker>>

StopPool ==
  /\ stage = "cancelling" /\ refresher \in {"none", "done"}
  /\ stage' = "stopping"
  /\ UNCHANGED <<vars, bootVars, breaker, refresher, swallowed>>

\* SessionPool.stop, and with its end the process's.
Stopping ==
  /\ stage = "stopping"
  /\ \/ \E s \in Servers : StopServer(s) \/ StopReturns(s) \/ CancelEnds(s) \/ CancelRaises(s)
     \/ StopDone
  /\ stage' = IF phase' = "stopped" THEN "exited" ELSE "stopping"
  /\ UNCHANGED <<bootVars, breaker, refresher, swallowed>>

\* A failed startup instead returns to asyncio.run, which cancels the loops, with
\* _shutdown clear, and waits for them.
CancelLoops ==
  /\ stage = "aborting"
  /\ stage' = "unwinding"
  /\ runner' = [s \in Servers |-> CancelRunner(runner[s])]
  /\ UNCHANGED <<poolVars, session, connected, shutdown, failed, first, backoff,
                 link, callVars, bootVars, breaker, refresher, swallowed>>

LoopEnds(s) ==
  /\ stage = "unwinding"
  /\ CancelEnds(s)
  /\ UNCHANGED relayVars

\* _shutdown is clear: the loop sleeps and goes on.
LoopGoesOn(s) ==
  /\ stage = "unwinding"
  /\ CancelRaises(s)
  /\ swallowed' = TRUE
  /\ UNCHANGED <<stage, bootVars, breaker, refresher>>

Abort ==
  /\ stage = "unwinding" /\ \A s \in Servers : runner[s] = "done"
  /\ stage' = "exited"
  /\ UNCHANGED <<vars, bootVars, breaker, refresher, swallowed>>

\* The process is gone, or the settings are not followed any further.
AtRest ==
  /\ stage = "exited" \/ (stage = "pooling" /\ settings \notin Followed)
  /\ UNCHANGED rVars

-----------------------------------------------------------------------------

Starting ==
  LoadTokens \/ Validate \/ SkipServer \/ RegisterDone \/ StartPool \/ Serve \/ ServeFails

Ending ==
  \/ RefresherEnds \/ RefresherGoesOn \/ StopPool \/ CancelLoops \/ Abort
  \/ \E s \in Servers : LoopEnds(s) \/ LoopGoesOn(s)

RNext ==
  \/ Starting \/ RegisterServer \/ RefresherStep \/ Tick
  \/ \E s \in Servers : Runner(s)
  \/ \E c \in Calls : \/ \E s \in Servers : Begin(c, s)
                      \/ Succeeds(c) \/ Fails(c) \/ Cancel(c)
  \/ Shutdown \/ Ending \/ Stopping
  \/ AtRest

RSpec == RInit /\ [][RNext]_rVars

\* As in SessionPool: the event loop runs what is ready and every timer that is
\* due, and unwinding ends.  Attempts to open and discoveries, which have no
\* timeout, may hang, and nothing forces a shutdown.
RFairness ==
  /\ WF_rVars(Starting) /\ WF_rVars(Ending) /\ WF_rVars(Stopping)
  /\ \A s \in Servers :
       WF_rVars(Runner(s) /\ runner[s] \in Closing \cup Sleeping /\ runner'[s] # runner[s])

RFairSpec == RSpec /\ RFairness

-----------------------------------------------------------------------------

\* A reference as the reader of the configuration understands it: each stands
\* for its secret, all at the same time.
Meaning(string) ==
  FlattenSeq([i \in DOMAIN string |->
                IF string[i].ref THEN Only(Resolve(settings.store, string[i].id))
                                 ELSE <<string[i]>>])

\* No secret holds what reads like a reference.
PlainSecrets ==
  \A n \in DOMAIN settings.store.entries : \A v \in Resolve(settings.store, n) :
    \A i \in DOMAIN v : ~v[i].ref

\* The tokens of security_policies.yaml, the references in them replaced; those
\* that turn out empty the code drops.
ConfiguredTokens == {Meaning(t) : t \in Range(settings.inbound.tokens)} \ {<< >>}

\* With bearer tokens that all turn out empty the code installs no middleware
\* and lets every request through, although README.md:641 wants a token then.
TokensLost == settings.inbound.type = "bearer" /\ ConfiguredTokens = {}

\* README.md:640-647: once the relay is up, and unless TokensLost, bearer auth
\* lets a request through with one of the configured tokens, or to /health, and
\* no other, not to /metrics either (authentication.py:15-18, against README).
InboundAsConfigured ==
  stage \notin {"loading", "exited"} /\ PlainSecrets /\ ~TokensLost =>
    \A r \in Requests :
      Accepts(tokens, r) <=>
        \/ r.path = "/health" \/ settings.inbound.type = "none"
        \/ r.token \in ConfiguredTokens

\* The mistakes that validate_servers does not look for: a null section, a number
\* where a text is needed, a URL without the placeholder, a secret that is not
\* there, a bearer token that turns out empty, a token_url that is null.
Overlooked(server) ==
  LET auth == server.auth
      isText == auth.value \notin {Null, Number} IN
  \/ auth = Null
  \/ auth.type \in AuthTypes \ {"none", "bearer", OAuthType} /\ auth.value = Number
  \/ auth.type = "api_key_url_path" /\ server.url # "with placeholder"
  \/ isText /\ ~Resolvable(settings.store, auth.value)
  \/ auth.type = "bearer" /\ isText /\ Meaning(auth.value) = << >>
  \/ auth.type = OAuthType /\ "token_url" \in auth.nulls

\* What is connected to carries the secret in its place.
CarriesSecret(conn, auth) ==
  auth.type # "none" /\ auth.value \notin {Null, Number} =>
    conn.credential = Meaning(auth.value)

\* loader.py:28: mistakes are reported at startup.  A server that validation
\* lets pass can be connected to, with its secret, exactly if it has none of the
\* mistakes that validation overlooks.  When the relay is up, every server in the
\* file is validated, no server with such a mistake offers tools, and one that
\* has none does, unless all are disabled.
ValidConfigConnects ==
  PlainSecrets =>
    /\ \A server \in Range(settings.servers) : Validated(server) =>
         /\ Overlooked(server) <=> Connection(settings.store, server) = {}
         /\ \A conn \in Connection(settings.store, server) : CarriesSecret(conn, server.auth)
    /\ stage \in {"pooling", "serving"} =>
         /\ \A server \in Range(settings.servers) : Validated(server)
         /\ \A i \in offering : ~Overlooked(settings.servers[i])
         /\ EnabledServers(settings) # {} => offering # {}

\* What GET /health calls the server.
SessionStatus(s) ==
  CASE s \notin entries -> "not_started"
    [] s \in entries /\ shutdown[s] -> "closed"
    [] s \in entries /\ ~shutdown[s] /\ connected[s] /\ session[s] -> "connected"
    [] OTHER -> "connecting"

\* Mutant of Status: the session alone decides.
StatusOfSession(s) ==
  IF SessionStatus(s) = "connected" THEN "ok" ELSE SessionStatus(s)

Status(s) ==
  CASE SessionStatus(s) = "connected" /\ ReadState(breaker[s]).state = "closed" -> "ok"
    [] SessionStatus(s) = "connecting" -> "connecting"
    [] OTHER -> "degraded"

\* README.md:1008-1010: a server that is "ok" takes a call at once, and on one
\* that is "connecting" a call waits for a loop that is reconnecting, unless
\* the server failed to start (then it is refused) or the process is going down.
StatusTellsCalls ==
  stage = "serving" =>
  \A s \in Servers :
    /\ Status(s) = "ok" => connected[s] /\ session[s] /\ breaker[s].state = "closed"
    /\ Status(s) = "connecting" =>
         \/ failed[s] /\ connected[s]
         \/ ~connected[s] /\ runner[s] \in {"opening"} \cup Sleeping

\* A connection that died without anyone being told is isolated by the breaker:
\* as long as calls are made, and fail, the server does not stay "ok".
DeadSessionIsolated ==
  \A s \in Servers :
    (<>[](link[s] = "dead") /\ []<><<\E c \in Calls : target[c] = s /\ Fails(c)>>_rVars)
      => <>[](Status(s) # "ok")

\* Whatever fails or hangs and whatever is cancelled where, the way down comes to
\* an end, unless a cancellation was lost (session.py and tool_discovery.py
\* catch what unwinding raises in its place).  Startup does too, but for one
\* case: a server keeps its discovery, or its first session, open for ever.
StartupAndShutdownEnd ==
  /\ stage \in GoingDown ~> stage = "exited" \/ swallowed
  /\ <>[](stage \in Booting) =>
       \/ <>[](stage = "registering" /\ handled < Len(settings.servers) /\ NextServer.enabled)
       \/ \E s \in Servers : <>[](current = s /\ runner[s] = "opening")
       \/ settings \notin Followed
=============================================================================

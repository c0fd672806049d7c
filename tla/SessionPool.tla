------------------------------ MODULE SessionPool ------------------------------
(****************************************************************************)
(* The pool of persistent sessions: SessionPool and its _ServerSession      *)
(* objects, each with a runner task that opens, holds and reopens the       *)
(* connection, and the calls that use them.  Each action is what one task   *)
(* does from one await to the next.                                         *)
(*                                                                          *)
(* open_session is the code's wrapper over the MCP client library.  Of the  *)
(* library only this is assumed: opening yields a session, raises, or never *)
(* ends (the session has no read timeout and initialize() no bound); a held *)
(* session may end with an exception, or with none, or may die without the  *)
(* runner being told; leaving it takes time.                                *)
(*                                                                          *)
(* Event.set schedules the waiting tasks before anything the setting task   *)
(* does next, so whoever waits resumes within the step that sets the event. *)
(****************************************************************************)
EXTENDS Naturals

CONSTANTS Servers,         \* the enabled server configurations
          Calls,           \* the slots of concurrent calls
          InitialBackoff, MaxBackoff,
          NoServer         \* not a server

ASSUME BackoffAssumption ==
  /\ InitialBackoff \in Nat \ {0}
  /\ MaxBackoff \in Nat
  /\ InitialBackoff <= MaxBackoff

ASSUME NoServerAssumption == NoServer \notin Servers

VARIABLES
  phase,     \* where the application is between SessionPool.start and stop
  current,   \* the server start or stop is waiting for, or NoServer
  entries,   \* the keys of SessionPool._sessions
  runner,    \* where each connection loop is
  session,   \* _session is not None
  connected, \* the event _connected
  shutdown,  \* the event _shutdown
  failed,    \* _startup_error is not None
  first,     \* the loop's local `first`
  backoff,   \* the loop's local `backoff`
  link,      \* the connection of the session: none, up or dead
  pc,        \* where each call is
  target     \* the server a call is for

poolVars == <<phase, current, entries>>
serverVars == <<runner, session, connected, shutdown, failed, first, backoff, link>>
callVars == <<pc, target>>
vars == <<poolVars, serverVars, callVars>>

Sleeping == {"sleeping_ok", "sleeping_exc"}
Closing == {"closing_ok", "closing_exc"}
Cancelled == {"cancel_open", "cancel_sleep"}

TypeOK ==
  /\ phase \in {"starting", "serving", "stopping", "stopped"}
  /\ current \in Servers \cup {NoServer}
  /\ entries \subseteq Servers
  /\ runner \in [Servers -> {"none", "opening", "holding", "done"}
                              \cup Closing \cup Sleeping \cup Cancelled]
  /\ session \in [Servers -> BOOLEAN]
  /\ connected \in [Servers -> BOOLEAN]
  /\ shutdown \in [Servers -> BOOLEAN]
  /\ failed \in [Servers -> BOOLEAN]
  /\ first \in [Servers -> BOOLEAN]
  /\ backoff \in [Servers -> InitialBackoff..MaxBackoff]
  /\ link \in [Servers -> {"none", "up", "dead"}]
  /\ pc \in [Calls -> {"idle", "waiting", "using", "refused", "ephemeral"}]
  /\ target \in [Calls -> Servers \cup {NoServer}]

Init ==
  /\ phase = "starting" /\ current = NoServer /\ entries = {}
  /\ runner = [s \in Servers |-> "none"]
  /\ session = [s \in Servers |-> FALSE]
  /\ connected = [s \in Servers |-> FALSE]
  /\ shutdown = [s \in Servers |-> FALSE]
  /\ failed = [s \in Servers |-> FALSE]
  /\ first = [s \in Servers |-> TRUE]
  /\ backoff = [s \in Servers |-> InitialBackoff]
  /\ link = [s \in Servers |-> "none"]
  /\ pc = [c \in Calls |-> "idle"]
  /\ target = [c \in Calls |-> NoServer]

-----------------------------------------------------------------------------
(* SessionPool.start: one server after the other.  The order of the list is *)
(* configuration, any order here.                                           *)

StartServer(s) ==
  /\ phase = "starting" /\ current = NoServer /\ s \notin entries
  /\ current' = s
  /\ runner' = [runner EXCEPT ![s] = "opening"]
  /\ UNCHANGED <<phase, entries, session, connected, shutdown, failed, first,
                 backoff, link, callVars>>

StartDone ==
  /\ phase = "starting" /\ current = NoServer /\ entries = Servers
  /\ phase' = "serving"
  /\ UNCHANGED <<current, entries, serverVars, callVars>>

-----------------------------------------------------------------------------
(* The connection loop. *)

\* _connected is set: if start() waits for s it returns, or raises the startup
\* error; the pool keeps the object either way.
StartReturns(s) ==
  IF phase = "starting" /\ current = s
  THEN entries' = entries \cup {s} /\ current' = NoServer /\ UNCHANGED phase
  ELSE UNCHANGED poolVars

\* open_session yields a session.
OpenOk(s) ==
  /\ runner[s] = "opening"
  /\ runner' = [runner EXCEPT ![s] = "holding"]
  /\ link' = [link EXCEPT ![s] = "up"]
  /\ session' = [session EXCEPT ![s] = TRUE]
  /\ failed' = [failed EXCEPT ![s] = FALSE]
  /\ connected' = [connected EXCEPT ![s] = TRUE]
  /\ first' = [first EXCEPT ![s] = FALSE]
  /\ backoff' = [backoff EXCEPT ![s] = InitialBackoff]
  /\ pc' = [c \in Calls |-> IF pc[c] = "waiting" /\ target[c] = s
                             THEN "using" ELSE pc[c]]
  /\ StartReturns(s)
  /\ UNCHANGED <<shutdown, target>>

\* Mutant of FirstOpenFails: start() is not told.
FirstOpenFailsSilently(s) ==
  /\ runner[s] = "opening" /\ first[s]
  /\ runner' = [runner EXCEPT ![s] = "done"]
  /\ failed' = [failed EXCEPT ![s] = TRUE]
  /\ UNCHANGED <<poolVars, session, connected, shutdown, first, backoff, link,
                 callVars>>

\* The first attempt raises: the error goes to start() and the loop returns.
FirstOpenFails(s) ==
  /\ runner[s] = "opening" /\ first[s]
  /\ runner' = [runner EXCEPT ![s] = "done"]
  /\ session' = [session EXCEPT ![s] = FALSE]
  /\ failed' = [failed EXCEPT ![s] = TRUE]
  /\ connected' = [connected EXCEPT ![s] = TRUE]
  /\ StartReturns(s)
  /\ UNCHANGED <<shutdown, first, backoff, link, callVars>>

\* Mutant of LoseSession: the event stays set.
LoseSessionKeepsEvent(s, sleep) ==
  /\ runner' = [runner EXCEPT ![s] = sleep]
  /\ session' = [session EXCEPT ![s] = FALSE]
  /\ link' = [link EXCEPT ![s] = "none"]
  /\ UNCHANGED <<poolVars, connected, shutdown, failed, first, backoff, callVars>>

\* The session is given up and the loop sleeps before the next attempt; where
\* it sleeps (inside the try, or inside the handler) is kept.
LoseSession(s, sleep) ==
  /\ runner' = [runner EXCEPT ![s] = sleep]
  /\ session' = [session EXCEPT ![s] = FALSE]
  /\ connected' = [connected EXCEPT ![s] = FALSE]
  /\ link' = [link EXCEPT ![s] = "none"]
  /\ UNCHANGED <<poolVars, shutdown, failed, first, backoff, callVars>>

\* Mutant of ReopenFails: the loop gives up.
ReopenFailsEnds(s) ==
  /\ runner[s] = "opening" /\ ~first[s]
  /\ LoseSession(s, "done")

ReopenFails(s) ==
  /\ runner[s] = "opening" /\ ~first[s]
  /\ LoseSession(s, "sleeping_exc")

\* The connection dies and nothing tells the runner.
DieSilently(s) ==
  /\ runner[s] = "holding" /\ link[s] = "up"
  /\ link' = [link EXCEPT ![s] = "dead"]
  /\ UNCHANGED <<poolVars, runner, session, connected, shutdown, failed, first,
                 backoff, callVars>>

\* The library ends the session and begins to unwind it; until that is done
\* get_session still returns it.
Drop(s, how) ==
  /\ runner[s] = "holding"
  /\ runner' = [runner EXCEPT ![s] = how]
  /\ link' = [link EXCEPT ![s] = "dead"]
  /\ UNCHANGED <<poolVars, session, connected, shutdown, failed, first,
                 backoff, callVars>>

\* The context manager is left without an exception, or with one.
Unwound(s) ==
  \/ runner[s] = "closing_ok" /\ LoseSession(s, "sleeping_ok")
  \/ runner[s] = "closing_exc" /\ LoseSession(s, "sleeping_exc")

\* Mutant of NextBackoff: without the cap.
NextBackoffUncapped(b) == 2 * b

NextBackoff(b) == IF 2 * b < MaxBackoff THEN 2 * b ELSE MaxBackoff

\* _sleep_backoff returns (at once when _shutdown is set) and the loop goes on
\* as `go` says.
Wake(s, go) ==
  /\ runner[s] \in Sleeping
  /\ backoff' = [backoff EXCEPT ![s] = NextBackoff(@)]
  /\ runner' = [runner EXCEPT ![s] = go]
  /\ UNCHANGED <<poolVars, session, connected, shutdown, failed, first, link,
                 callVars>>

\* Mutant of Retry: `while True`.
RetryUnguarded(s) == Wake(s, "opening")

\* `while not self._shutdown.is_set()`.
Retry(s) ==
  \/ ~shutdown[s] /\ Wake(s, "opening")
  \/ shutdown[s] /\ Wake(s, "done")

\* The cancelled loop ends: `break`, or the CancelledError leaves the handler
\* it was raised in.
CancelEnds(s) ==
  /\ runner[s] \in Cancelled
  /\ runner' = [runner EXCEPT ![s] = "done"]
  /\ session' = [session EXCEPT ![s] = FALSE]
  /\ link' = [link EXCEPT ![s] = "none"]
  /\ UNCHANGED <<poolVars, connected, shutdown, failed, first, backoff, callVars>>

\* Unwinding raises something else instead, the cancellation is lost: the
\* handler clears _connected and sleeps, and only _shutdown ends the loop.
CancelRaises(s) ==
  /\ runner[s] = "cancel_open"
  /\ LoseSession(s, "sleeping_exc")

-----------------------------------------------------------------------------
(* SessionPool.stop. *)

\* Where task.cancel() finds the loop.
CancelRunner(r) == CASE r = "done" -> "done"
                     [] r \in Sleeping -> "cancel_sleep"
                     [] OTHER -> "cancel_open"

\* _ServerSession.stop up to its await; a loop that is over needs none.
StopServer(s) ==
  /\ phase \in {"serving", "stopping"} /\ current = NoServer
  /\ s \in entries /\ ~shutdown[s]
  /\ phase' = "stopping"
  /\ shutdown' = [shutdown EXCEPT ![s] = TRUE]
  /\ runner' = [runner EXCEPT ![s] = CancelRunner(@)]
  /\ current' = s
  /\ UNCHANGED <<entries, session, connected, failed, first, backoff, link, callVars>>

StopReturns(s) ==
  /\ phase = "stopping" /\ current = s /\ runner[s] = "done"
  /\ session' = [session EXCEPT ![s] = FALSE]
  /\ current' = NoServer
  /\ UNCHANGED <<phase, entries, runner, connected, shutdown, failed, first,
                 backoff, link, callVars>>

\* Mutant of StopDone: the map is cleared after the first server.
StopDoneEarly ==
  /\ phase = "stopping" /\ current = NoServer
  /\ phase' = "stopped"
  /\ entries' = {}
  /\ UNCHANGED <<current, serverVars, callVars>>

StopDone ==
  /\ phase = "stopping" /\ current = NoServer /\ \A s \in entries : shutdown[s]
  /\ phase' = "stopped"
  /\ entries' = {}
  /\ UNCHANGED <<current, serverVars, callVars>>

-----------------------------------------------------------------------------
(* SessionPool.call_tool. *)

\* With an entry: get_session waits for _connected (not at all when it is
\* set), then raises if there is no session.  Without: an ephemeral session.
Call(c, s) ==
  /\ pc[c] = "idle" /\ phase # "starting"
  /\ target' = [target EXCEPT ![c] = s]
  /\ pc' = [pc EXCEPT ![c] = CASE s \notin entries -> "ephemeral"
                               [] s \in entries /\ ~connected[s] -> "waiting"
                               [] s \in entries /\ connected[s] /\ session[s] -> "using"
                               [] OTHER -> "refused"]
  /\ UNCHANGED <<poolVars, serverVars>>

Leave(c) ==
  /\ pc' = [pc EXCEPT ![c] = "idle"]
  /\ target' = [target EXCEPT ![c] = NoServer]
  /\ UNCHANGED <<poolVars, serverVars>>

\* get_session raises "session unavailable".
Refuse(c) ==
  /\ pc[c] = "refused"
  /\ Leave(c)

\* The upstream answers, with a result or an error.
Return(c) ==
  /\ pc[c] = "ephemeral" \/ (pc[c] = "using" /\ link[target[c]] = "up")
  /\ Leave(c)

\* A call on a session whose connection is gone raises, if it does not hang.
CallRaises(c) ==
  /\ pc[c] = "using" /\ link[target[c]] # "up"
  /\ Leave(c)

\* asyncio.wait_for in CircuitBreaker.call.
TimeOut(c) ==
  /\ pc[c] \in {"waiting", "using", "ephemeral"}
  /\ Leave(c)

-----------------------------------------------------------------------------

\* The application rests once it is stopped and its calls are over.
Terminated ==
  /\ phase = "stopped"
  /\ UNCHANGED vars

RunnerStep(s) ==
  \/ OpenOk(s) \/ FirstOpenFails(s) \/ ReopenFails(s) \/ DieSilently(s)
  \/ Drop(s, "closing_ok") \/ Drop(s, "closing_exc") \/ Unwound(s)
  \/ Retry(s) \/ CancelEnds(s) \/ CancelRaises(s)

PoolStep(s) ==
  \/ StartServer(s) \/ StopServer(s) \/ StopReturns(s)

CallStep(c) ==
  \/ \E s \in Servers : Call(c, s)
  \/ Refuse(c) \/ Return(c) \/ CallRaises(c) \/ TimeOut(c)

Next ==
  \/ \E s \in Servers : PoolStep(s) \/ RunnerStep(s)
  \/ StartDone \/ StopDone
  \/ \E c \in Calls : CallStep(c)
  \/ Terminated

Spec == Init /\ [][Next]_vars

\* The event loop runs every task that is ready and every timer that is due,
\* and the library leaves a connection it was told to leave.  Nothing is
\* assumed of an attempt to open: it may succeed, raise or hang.  Nothing
\* forces stop, a drop or a call.
ServerFairness(s) ==
  /\ WF_vars(StartServer(s))
  /\ WF_vars(Unwound(s)) /\ WF_vars(Retry(s))
  /\ WF_vars(CancelEnds(s) \/ CancelRaises(s))
  /\ WF_vars(phase = "stopping" /\ StopServer(s)) /\ WF_vars(StopReturns(s))

Fairness ==
  /\ \A s \in Servers : ServerFairness(s)
  /\ WF_vars(StartDone) /\ WF_vars(StopDone)

FairSpec == Spec /\ Fairness

-----------------------------------------------------------------------------

\* get_session tests _connected and _session one after the other: whenever
\* there is a session the event is set, and the event is set without a session
\* only after a failed start or once stop has begun.  So a call is refused
\* ("session unavailable") in these two cases alone, and never because it ran
\* into a reconnect.
EventMatchesSession ==
  \A s \in Servers :
    /\ session[s] => connected[s]
    /\ connected[s] /\ ~session[s] => failed[s] \/ shutdown[s]

\* No lost wake-up: a call waits only while _connected is clear, and while
\* the pool is not stopping there is a runner that will set it again.
WaitersHaveARunner ==
  \A c \in Calls : pc[c] = "waiting" =>
    /\ ~connected[target[c]]
    /\ shutdown[target[c]] \/ runner[target[c]] \in {"opening"} \cup Sleeping

\* Connections do not leak: one is open only while its runner is inside
\* open_session, and none is open, and no runner is left, once stop is over.
NoLeak ==
  /\ \A s \in Servers :
       link[s] # "none" => runner[s] \in {"holding", "cancel_open"} \cup Closing
  /\ phase = "stopped" => \A s \in Servers : runner[s] = "done" /\ ~session[s]

\* Once stop has set _shutdown the runner neither makes another attempt nor
\* gains a connection, also when the cancellation is lost in unwinding.
NoReopenAfterStop ==
  [][\A s \in Servers : shutdown[s] =>
       /\ runner'[s] # "opening"
       /\ link[s] = "none" => link'[s] = "none"]_vars

\* Backing off: the delay between attempts never shrinks except when a
\* connection was made, and then starts again at the initial value.
BackoffGrows ==
  [][\A s \in Servers :
       /\ backoff'[s] < backoff[s] => ~session[s] /\ session'[s]
       /\ ~session[s] /\ session'[s] => backoff'[s] = InitialBackoff]_vars

\* session_pool.py:189: "Falls back to an ephemeral session if no pooled
\* session exists for this server (e.g. ... startup failed ...)".
FallsBackAfterFailedStart ==
  \A c \in Calls : pc[c] = "refused" => ~failed[target[c]]

\* A lost session is replaced, or stop comes, if the server lets one of the
\* attempts succeed that are made on and on.
Reconnects ==
  \A s \in Servers :
    SF_vars(OpenOk(s)) =>
      (phase # "starting" /\ ~connected[s] ~> session[s] \/ shutdown[s])

\* stop comes to an end, whatever the servers do, an attempt that hangs
\* included.  start does too, but for one case: a server neither answers its
\* first attempt nor refuses it, and start waits for that server for ever.
StartAndStopEnd ==
  /\ phase = "stopping" ~> phase = "stopped"
  /\ <>[](phase = "starting") =>
       \E s \in Servers : <>[](current = s /\ runner[s] = "opening")
=============================================================================

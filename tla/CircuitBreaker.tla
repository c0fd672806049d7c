---------------------------- MODULE CircuitBreaker ----------------------------
(****************************************************************************)
(* One server's CircuitBreaker with the calls that go through it.  Many     *)
(* calls are in flight at a time: CircuitBreaker.call reads the state,      *)
(* awaits the upstream under asyncio.wait_for and only then records the     *)
(* outcome, in whatever state the breaker has reached meanwhile.            *)
(*                                                                          *)
(* Time is discrete.  The timer of wait_for is urgent: time does not pass   *)
(* while a call is due (age = CallTimeout), which is how an event loop that *)
(* is not blocked treats it.                                                *)
(****************************************************************************)
EXTENDS Breaker

CONSTANTS Calls,        \* the slots of concurrently running calls
          CallTimeout,  \* the timeout argument of call()
          MaxFailures   \* bound: no call is admitted with this failure count

ASSUME CallTimeoutAssumption == CallTimeout \in Nat \ {0}
ASSUME MaxFailuresAssumption == MaxFailures \in Nat

VARIABLES
  breaker,  \* the CircuitBreaker object
  running,  \* the calls awaiting the upstream
  age,      \* for a running call, the time since wait_for began
  seen,     \* for a running call, `current`: the state call() read
  openFor   \* history: the time since the breaker last became open

vars == <<breaker, running, age, seen, openFor>>

\* From this time on an open breaker is as open as it gets.
Horizon == CallTimeout + RecoveryTimeout

TypeOK ==
  /\ breaker \in BreakerType
  /\ running \subseteq Calls
  /\ age \in [Calls -> 0..CallTimeout]
  /\ seen \in [Calls -> State]
  /\ openFor \in 0..Horizon

Init ==
  /\ breaker = NewBreaker
  /\ running = {}
  /\ age = [c \in Calls |-> 0]
  /\ seen = [c \in Calls |-> "closed"]
  /\ openFor = 0

-----------------------------------------------------------------------------

\* call() reads the state, which may make the breaker half open, and is let
\* through unless it is open.
Admit(c) ==
  LET now == ReadState(breaker) IN
  /\ c \notin running
  /\ breaker.failures < MaxFailures
  /\ now.state # "open"
  /\ breaker' = now
  /\ running' = running \cup {c}
  /\ age' = [age EXCEPT ![c] = 0]
  /\ seen' = [seen EXCEPT ![c] = now.state]
  /\ UNCHANGED openFor

\* The coroutine raises before it awaits anything: call() is over in the step
\* it began in.
FailAtOnce(c) ==
  LET now == ReadState(breaker) IN
  /\ c \notin running
  /\ breaker.failures < MaxFailures
  /\ now.state # "open"
  /\ breaker' = OnFailure(now)
  /\ openFor' = IF OnFailure(now).state = "open" THEN 0 ELSE openFor
  /\ UNCHANGED <<running, age, seen>>

\* A read of the state by anyone else: a call that is refused with
\* CircuitOpenError, or a status request whose read nothing interrupts
\* (StatusThreads has the others).
Observe ==
  /\ breaker' = ReadState(breaker)
  /\ UNCHANGED <<running, age, seen, openFor>>

\* The call is over; its locals are gone.
Leave(c) ==
  /\ c \in running
  /\ running' = running \ {c}
  /\ age' = [age EXCEPT ![c] = 0]
  /\ seen' = [seen EXCEPT ![c] = "closed"]

\* openFor restarts when the breaker becomes open, not when a late failure
\* finds it open.
RecordFailure ==
  /\ breaker' = OnFailure(breaker)
  /\ openFor' = IF breaker.state # "open" /\ OnFailure(breaker).state = "open"
                THEN 0
                ELSE openFor

Succeed(c) ==
  /\ Leave(c)
  /\ breaker' = OnSuccess(breaker)
  /\ UNCHANGED openFor

\* The upstream coroutine raised.
Fail(c) ==
  /\ Leave(c)
  /\ RecordFailure

\* Mutant of TimeOut: the timeout does not cover the probes.
TimeOutUnlessProbe(c) ==
  /\ age[c] = CallTimeout /\ seen[c] # "half_open"
  /\ Leave(c)
  /\ RecordFailure

TimeOut(c) ==
  /\ age[c] = CallTimeout
  /\ Leave(c)
  /\ RecordFailure

\* CancelledError is not an Exception: the breaker records nothing.
Cancel(c) ==
  /\ Leave(c)
  /\ UNCHANGED <<breaker, openFor>>

Tick ==
  /\ \A c \in running : age[c] < CallTimeout
  /\ breaker' = PassTime(breaker)
  /\ age' = [c \in Calls |-> IF c \in running THEN age[c] + 1 ELSE age[c]]
  /\ openFor' = IF breaker.state = "open" /\ openFor < Horizon
                THEN openFor + 1
                ELSE openFor
  /\ UNCHANGED <<running, seen>>

Next ==
  \/ \E c \in Calls : \/ Admit(c) \/ FailAtOnce(c)
                      \/ Succeed(c) \/ Fail(c) \/ TimeOut(c) \/ Cancel(c)
  \/ Observe
  \/ Tick

Spec == Init /\ [][Next]_vars

\* The clock advances and the event loop runs the timers that are due.
Fairness == WF_vars(Tick) /\ \A c \in Calls : WF_vars(TimeOut(c))

FairSpec == Spec /\ Fairness

-----------------------------------------------------------------------------

\* In every state the counters are below the thresholds that would have moved
\* the breaker on: whatever the order in which the outcomes of concurrent
\* calls arrive, _on_success and _on_failure never miss a transition.
CountersBelowThresholds ==
  /\ breaker.state = "closed" => breaker.failures < FailureThreshold
  /\ breaker.state = "half_open" => breaker.successes < SuccessThreshold

\* Late failures of calls admitted before the trip restart the window of an
\* open breaker (_on_failure stamps _opened_at again).  They cannot do so for
\* longer than a call lasts: once CallTimeout + RecoveryTimeout have passed
\* since the trip, the next reader finds the breaker half open.
OutageBounded ==
  breaker.state = "open" /\ openFor >= Horizon
    => ReadState(breaker).state = "half_open"

\* A call whose outcome may close a half-open circuit: one that was let
\* through to test the server, or one that has outlived the recovery window.
\* The second kind there is only if CallTimeout >= RecoveryTimeout, which the
\* settings allow.
MayClose(c) == seen[c] = "half_open" \/ age[c] >= RecoveryTimeout

\* What a half-open breaker hears comes from the calls it let through and from
\* calls that outlived the window, never from a call that was under way when
\* the outage began and is younger than that.
HalfOpenHears ==
  breaker.state = "half_open" => \A c \in running : MayClose(c)

\* circuit_breaker.py:6-7 lets the success of "one probe" close the circuit.
\* _on_success does not ask which call it hears of: this is what does hold,
\* for every pair of timeouts.  The circuit closes only from half open, as a
\* call of one of these two kinds ends.
ClosedByProbeOrLateCall ==
  [][ breaker.state # "closed" /\ breaker'.state = "closed"
        => /\ breaker.state = "half_open"
           /\ \E c \in running \ running' : MayClose(c) ]_vars

\* An outage ends: whatever the calls in flight still do, an open breaker
\* comes to let a call through to test the server.
OpenIsTemporary == breaker.state = "open" ~> ReadState(breaker).state # "open"

-----------------------------------------------------------------------------

Gate == INSTANCE CallGate WITH gate <- breaker.state, inFlight <- running,
                               Window <- RecoveryTimeout

\* The breaker keeps the promise of CallGate: however many late failures,
\* status reads and calls that fail at once there are, an open breaker lets
\* nothing through until the whole window has passed.
ImplementsGate == Gate!Spec
=============================================================================

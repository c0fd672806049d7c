----------------------------- MODULE StatusThreads -----------------------------
(****************************************************************************)
(* The breaker read from outside the event loop.  health and                *)
(* registry_handler are plain functions, so Starlette runs them in threads: *)
(* their read of the state property is not one step with respect to the     *)
(* calls.  It decides that the window has passed, writes a log line, assigns*)
(* _state and then _success_count, and the event loop may run in between.   *)
(*                                                                          *)
(* A read that finds nothing to change has no effect and no action here;    *)
(* one that nothing interrupts is Observe.                                  *)
(****************************************************************************)
EXTENDS CircuitBreaker

CONSTANT Readers   \* the threads that serve status requests

VARIABLE reading   \* how far each of them is in the state property

stVars == <<vars, reading>>

STInit == Init /\ reading = [r \in Readers |-> "idle"]

\* The breaker is open and its window has passed.
Decide(r) ==
  /\ reading[r] = "idle" /\ ReadState(breaker) # breaker
  /\ reading' = [reading EXCEPT ![r] = "decided"]
  /\ UNCHANGED vars

SetState(r) ==
  /\ reading[r] = "decided"
  /\ reading' = [reading EXCEPT ![r] = "set"]
  /\ breaker' = [breaker EXCEPT !.state = "half_open"]
  /\ UNCHANGED <<running, age, seen, openFor>>

ResetSuccesses(r) ==
  /\ reading[r] = "set"
  /\ reading' = [reading EXCEPT ![r] = "idle"]
  /\ breaker' = [breaker EXCEPT !.successes = 0]
  /\ UNCHANGED <<running, age, seen, openFor>>

STNext ==
  \/ Next /\ UNCHANGED reading
  \/ \E r \in Readers : Decide(r) \/ SetState(r) \/ ResetSuccesses(r)

STSpec == STInit /\ [][STNext]_stVars

-----------------------------------------------------------------------------

\* circuit_breaker.py:6: "HALF_OPEN - recovery window elapsed".  A breaker
\* becomes half open only when it is open and its window has passed.  (From a
\* closed breaker that a late status read makes half open, one failure is enough
\* to open the circuit.)
HalfOpenAfterWindow ==
  [][ breaker.state # "half_open" /\ breaker'.state = "half_open"
        => ReadState(breaker).state = "half_open" ]_stVars
=============================================================================

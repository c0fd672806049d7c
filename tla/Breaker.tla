------------------------------- MODULE Breaker -------------------------------
(****************************************************************************)
(* The data of one CircuitBreaker object and what its methods do to it, as  *)
(* operators on a record.  On the event loop every method runs between two  *)
(* awaits, so each is one atomic change of the record; the modules that     *)
(* have a breaker in their state apply the operators inside their actions.  *)
(* (Status requests read the state in other threads: StatusThreads.)        *)
(*                                                                          *)
(* The code stamps _opened_at with time.monotonic() and later compares the  *)
(* difference with the recovery timeout; the record keeps the difference    *)
(* itself, elapsed, which PassTime advances while the breaker is open (the  *)
(* only state in which the code reads it) up to RecoveryTimeout (beyond     *)
(* which the comparison no longer changes).                                 *)
(****************************************************************************)
EXTENDS Naturals

CONSTANTS FailureThreshold, SuccessThreshold, RecoveryTimeout

ASSUME FailureThresholdAssumption == FailureThreshold \in Nat \ {0}
ASSUME SuccessThresholdAssumption == SuccessThreshold \in Nat \ {0}
ASSUME RecoveryTimeoutAssumption == RecoveryTimeout \in Nat \ {0}

State == {"closed", "open", "half_open"}

BreakerType ==
  [state: State, failures: Nat, successes: Nat, elapsed: 0..RecoveryTimeout]

NewBreaker == [state |-> "closed", failures |-> 0, successes |-> 0, elapsed |-> 0]

\* Mutant of ReadState: a refused read restarts the window.
ReadStateRestamps(b) ==
  IF b.state # "open" THEN b
  ELSE IF b.elapsed < RecoveryTimeout THEN [b EXCEPT !.elapsed = 0]
       ELSE [b EXCEPT !.state = "half_open", !.successes = 0]

\* Mutant of ReadState: the window is one unit short.
ReadStateEarly(b) ==
  IF b.state = "open" /\ b.elapsed + 1 >= RecoveryTimeout
  THEN [b EXCEPT !.state = "half_open", !.successes = 0]
  ELSE b

\* The state property: reading an open breaker whose window has passed makes
\* it half open, whoever reads it.
ReadState(b) ==
  IF b.state = "open" /\ b.elapsed >= RecoveryTimeout
  THEN [state |-> "half_open", failures |-> b.failures,
        successes |-> 0, elapsed |-> b.elapsed]
  ELSE b

\* Mutant of OnSuccess: any success closes the breaker, not only half open.
OnSuccessAnyState(b) ==
  [state |-> "closed", failures |-> 0, successes |-> b.successes,
   elapsed |-> b.elapsed]

\* Mutant of OnSuccess: a success makes up for one failure, not for all.
OnSuccessDecrements(b) ==
  IF b.state = "half_open"
  THEN [b EXCEPT !.state = "closed", !.failures = 0]
  ELSE [b EXCEPT !.failures = @ - 1]

\* A probe that meets the success threshold closes the breaker.
OnSuccess(b) ==
  IF b.state # "half_open" THEN [b EXCEPT !.failures = 0]
  ELSE IF b.successes + 1 >= SuccessThreshold
       THEN [state |-> "closed", failures |-> 0,
             successes |-> b.successes + 1, elapsed |-> b.elapsed]
       ELSE [b EXCEPT !.successes = @ + 1]

\* Mutant of OnFailure: > for >=.
OnFailureOffByOne(b) ==
  IF b.state = "half_open" \/ b.failures + 1 > FailureThreshold
  THEN [b EXCEPT !.state = "open", !.failures = @ + 1, !.elapsed = 0]
  ELSE [b EXCEPT !.failures = @ + 1]

\* A failure that trips the breaker, or finds it open already, restarts the
\* recovery window.
OnFailure(b) ==
  IF b.state = "half_open" \/ b.failures + 1 >= FailureThreshold
  THEN [state |-> "open", failures |-> b.failures + 1,
        successes |-> b.successes, elapsed |-> 0]
  ELSE [b EXCEPT !.failures = @ + 1]

PassTime(b) ==
  IF b.state = "open" /\ b.elapsed < RecoveryTimeout
  THEN [b EXCEPT !.elapsed = @ + 1]
  ELSE b
=============================================================================

------------------------------- MODULE CallGate -------------------------------
(****************************************************************************)
(* What a circuit breaker promises to the callers of a server, without      *)
(* counters.  Calls begin only while the gate is not open; an open gate     *)
(* stays open for the whole Window before a call may test the server; it    *)
(* opens and closes only as a call ends; it closes only from half open.     *)
(* Nothing is promised about when the calls in flight began: one from       *)
(* before the outage may end, and count, while the gate is half open.       *)
(****************************************************************************)
EXTENDS Naturals

CONSTANTS Calls, Window

VARIABLES
  gate,
  inFlight,
  openFor    \* the time since the gate last opened

gateVars == <<gate, inFlight, openFor>>

Init == gate = "closed" /\ inFlight = {} /\ openFor = 0

\* The window has passed: the next call will test the server.
WindowPassed == gate = "open" /\ openFor >= Window

AllowProbe == WindowPassed /\ gate' = "half_open" /\ UNCHANGED openFor

Open == gate' = "open" /\ openFor' = 0

Begin(c) ==
  /\ c \notin inFlight
  /\ AllowProbe \/ (gate # "open" /\ UNCHANGED <<gate, openFor>>)
  /\ inFlight' = inFlight \cup {c}

End(c) ==
  /\ c \in inFlight
  /\ inFlight' = inFlight \ {c}
  /\ \/ UNCHANGED <<gate, openFor>>
     \/ gate # "open" /\ Open
     \/ gate = "half_open" /\ gate' = "closed" /\ UNCHANGED openFor

\* A call that begins and fails in one step opens the gate.
Bounce == (gate # "open" \/ WindowPassed) /\ Open /\ UNCHANGED inFlight

Tick == gate = "open" /\ openFor' = openFor + 1 /\ UNCHANGED <<gate, inFlight>>

Next ==
  \/ Bounce \/ Tick
  \/ AllowProbe /\ UNCHANGED inFlight
  \/ \E c \in Calls : Begin(c) \/ End(c)

Spec == Init /\ [][Next]_gateVars
=============================================================================

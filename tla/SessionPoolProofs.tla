--------------------------- MODULE SessionPoolProofs ---------------------------
(****************************************************************************)
(* The safety of the session pool for any number of servers and calls.      *)
(* RunnerInv says, for each place a connection loop can be in, what the     *)
(* event, the session and the connection then are; PhaseInv says which      *)
(* loops can exist in each phase of the pool.  Together they are inductive. *)
(****************************************************************************)
EXTENDS SessionPool, TLAPS

RunnerInv(s) ==
  /\ runner[s] = "none" =>
       /\ ~connected[s] /\ ~session[s] /\ link[s] = "none"
       /\ first[s] /\ ~failed[s] /\ ~shutdown[s]
  /\ runner[s] \in {"opening"} \cup Sleeping =>
       /\ ~connected[s] /\ ~session[s] /\ link[s] = "none"
       /\ ~failed[s]
       /\ shutdown[s] => runner[s] # "opening" /\ phase = "stopping" /\ current = s
       /\ first[s] => runner[s] = "opening" /\ phase = "starting" /\ current = s
  /\ runner[s] \in {"holding"} \cup Closing =>
       connected[s] /\ session[s] /\ ~first[s] /\ ~failed[s] /\ ~shutdown[s]
  /\ runner[s] \in Cancelled =>
       /\ phase = "stopping" /\ current = s
       /\ shutdown[s] /\ ~failed[s] /\ ~first[s]
       /\ session[s] => connected[s]
       /\ runner[s] = "cancel_sleep" => link[s] = "none"
  /\ runner[s] = "done" =>
       /\ ~session[s] /\ link[s] = "none"
       /\ failed[s] \/ shutdown[s]
       /\ failed[s] => connected[s]

PhaseInv ==
  /\ phase = "starting" =>
       /\ \A s \in Servers : s \notin entries /\ s # current => runner[s] = "none"
       /\ \A s \in Servers : ~shutdown[s]
       /\ current # NoServer =>
            current \notin entries /\ runner[current] = "opening" /\ first[current]
  /\ phase \in {"serving", "stopping"} => entries = Servers
  /\ phase \in {"serving", "stopped"} => current = NoServer
  /\ phase = "serving" => \A s \in Servers : ~shutdown[s]
  /\ phase = "stopped" => \A s \in Servers : runner[s] = "done"
  /\ \A s \in entries : runner[s] # "none"

CallInv ==
  \A c \in Calls : pc[c] = "waiting" =>
    /\ target[c] \in Servers
    /\ ~connected[target[c]]
    /\ runner[target[c]] # "none"
    /\ phase # "starting"

IInv ==
  /\ TypeOK
  /\ \A s \in Servers : RunnerInv(s)
  /\ PhaseInv
  /\ CallInv

USE BackoffAssumption, NoServerAssumption
    DEF Sleeping, Closing, Cancelled, poolVars, serverVars, callVars

-----------------------------------------------------------------------------

LEMMA InitIInv == Init => IInv
BY DEF Init, IInv, TypeOK, RunnerInv, PhaseInv, CallInv

\* Every step of a runner preserves the invariant.
LEMMA RunnerPreserves ==
  ASSUME IInv, NEW r \in Servers, RunnerStep(r)
  PROVE  IInv'
<1> USE DEF IInv
<1>1. ASSUME OpenOk(r)
      PROVE  IInv'
  <2>1. TypeOK'
    BY <1>1 DEF OpenOk, StartReturns, TypeOK
  <2>2. \A s \in Servers : RunnerInv(s)'
    BY <1>1 DEF OpenOk, StartReturns, TypeOK, RunnerInv
  <2>3. PhaseInv'
    BY <1>1 DEF OpenOk, StartReturns, TypeOK, PhaseInv, RunnerInv
  <2>4. CallInv'
    BY <1>1 DEF OpenOk, StartReturns, TypeOK, CallInv
  <2>. QED  BY <2>1, <2>2, <2>3, <2>4
<1>2. ASSUME FirstOpenFails(r)
      PROVE  IInv'
  <2>1. TypeOK'
    BY <1>2 DEF FirstOpenFails, StartReturns, TypeOK
  <2>2. \A s \in Servers : RunnerInv(s)'
    BY <1>2 DEF FirstOpenFails, StartReturns, TypeOK, RunnerInv
  <2>3. PhaseInv'
    BY <1>2 DEF FirstOpenFails, StartReturns, TypeOK, PhaseInv, RunnerInv
  <2>4. CallInv'
    BY <1>2 DEF FirstOpenFails, TypeOK, CallInv, RunnerInv
  <2>. QED  BY <2>1, <2>2, <2>3, <2>4
<1>3. ASSUME NEW sleep \in Sleeping, LoseSession(r, sleep),
             runner[r] \in {"opening", "cancel_open"} \cup Closing,
             runner[r] = "opening" => ~first[r]
      PROVE  IInv'
  <2>1. TypeOK'
    BY <1>3 DEF LoseSession, TypeOK
  <2>2. \A s \in Servers : RunnerInv(s)'
    <3>1. \A s \in Servers \ {r} : RunnerInv(s)'
      BY <1>3 DEF LoseSession, TypeOK, RunnerInv
    <3>2. /\ runner'[r] \in Sleeping /\ ~session'[r] /\ ~connected'[r]
          /\ link'[r] = "none" /\ ~failed'[r] /\ ~first'[r]
      BY <1>3 DEF LoseSession, TypeOK, RunnerInv
    <3>3. shutdown'[r] => phase' = "stopping" /\ current' = r
      BY <1>3 DEF LoseSession, TypeOK, RunnerInv
    <3>. QED  BY <3>1, <3>2, <3>3 DEF RunnerInv
  <2>3. PhaseInv'
    <3>1. phase # "starting" \/ current # r
      BY <1>3 DEF PhaseInv
    <3>. QED  BY <1>3, <3>1 DEF LoseSession, TypeOK, PhaseInv, RunnerInv
  <2>4. CallInv'
    BY <1>3 DEF LoseSession, TypeOK, CallInv
  <2>. QED  BY <2>1, <2>2, <2>3, <2>4
<1>4. ASSUME DieSilently(r)
      PROVE  IInv'
  BY <1>4 DEF DieSilently, TypeOK, RunnerInv, PhaseInv, CallInv
<1>5. ASSUME NEW how \in Closing, Drop(r, how)
      PROVE  IInv'
  <2>1. TypeOK'
    BY <1>5 DEF Drop, TypeOK
  <2>2. \A s \in Servers : RunnerInv(s)'
    BY <1>5 DEF Drop, TypeOK, RunnerInv
  <2>3. PhaseInv' /\ CallInv'
    BY <1>5 DEF Drop, TypeOK, PhaseInv, CallInv
  <2>. QED  BY <2>1, <2>2, <2>3
<1>6. ASSUME Retry(r)
      PROVE  IInv'
  <2>1. TypeOK'
    BY <1>6 DEF Retry, Wake, NextBackoff, TypeOK
  <2>2. \A s \in Servers : RunnerInv(s)'
    BY <1>6 DEF Retry, Wake, NextBackoff, TypeOK, RunnerInv
  <2>3. PhaseInv' /\ CallInv'
    BY <1>6 DEF Retry, Wake, NextBackoff, TypeOK, PhaseInv, CallInv
  <2>. QED  BY <2>1, <2>2, <2>3
<1>7. ASSUME CancelEnds(r)
      PROVE  IInv'
  <2>1. TypeOK'
    BY <1>7 DEF CancelEnds, TypeOK
  <2>2. \A s \in Servers : RunnerInv(s)'
    BY <1>7 DEF CancelEnds, TypeOK, RunnerInv
  <2>3. PhaseInv' /\ CallInv'
    BY <1>7 DEF CancelEnds, TypeOK, PhaseInv, CallInv
  <2>. QED  BY <2>1, <2>2, <2>3
<1>. QED
  BY <1>1, <1>2, <1>3, <1>4, <1>5, <1>6, <1>7
  DEF RunnerStep, ReopenFails, Unwound, CancelRaises

\* Every step of SessionPool.start and stop preserves the invariant.
LEMMA PoolPreserves ==
  ASSUME IInv, \/ StartDone \/ StopDone
               \/ \E r \in Servers : PoolStep(r)
  PROVE  IInv'
<1> USE DEF IInv
<1>1. ASSUME NEW r \in Servers, StartServer(r)
      PROVE  IInv'
  <2>1. TypeOK'
    BY <1>1 DEF StartServer, TypeOK
  <2>2. \A s \in Servers : RunnerInv(s)'
    BY <1>1 DEF StartServer, TypeOK, RunnerInv, PhaseInv
  <2>3. PhaseInv'
    BY <1>1 DEF StartServer, TypeOK, PhaseInv, RunnerInv
  <2>4. CallInv'
    BY <1>1 DEF StartServer, TypeOK, CallInv
  <2>. QED  BY <2>1, <2>2, <2>3, <2>4
<1>2. ASSUME StartDone
      PROVE  IInv'
  BY <1>2 DEF StartDone, TypeOK, RunnerInv, PhaseInv, CallInv
<1>3. ASSUME NEW r \in Servers, StopServer(r)
      PROVE  IInv'
  <2>1. TypeOK'
    BY <1>3 DEF StopServer, CancelRunner, TypeOK
  <2>2. \A s \in Servers : RunnerInv(s)'
    BY <1>3 DEF StopServer, CancelRunner, TypeOK, RunnerInv, PhaseInv
  <2>3. PhaseInv'
    BY <1>3 DEF StopServer, CancelRunner, TypeOK, PhaseInv
  <2>4. CallInv'
    BY <1>3 DEF StopServer, CancelRunner, TypeOK, CallInv
  <2>. QED  BY <2>1, <2>2, <2>3, <2>4
<1>4. ASSUME NEW r \in Servers, StopReturns(r)
      PROVE  IInv'
  BY <1>4 DEF StopReturns, TypeOK, RunnerInv, PhaseInv, CallInv
<1>5. ASSUME StopDone
      PROVE  IInv'
  <2>1. \A s \in Servers : runner[s] = "done"
    BY <1>5 DEF StopDone, TypeOK, RunnerInv, PhaseInv
  <2>. QED  BY <1>5, <2>1 DEF StopDone, TypeOK, RunnerInv, PhaseInv, CallInv
<1>. QED  BY <1>1, <1>2, <1>3, <1>4, <1>5 DEF PoolStep

\* Every step of a call preserves the invariant.
LEMMA CallPreserves ==
  ASSUME IInv, NEW c \in Calls, CallStep(c)
  PROVE  IInv'
<1> USE DEF IInv
<1>1. ASSUME NEW s \in Servers, Call(c, s)
      PROVE  IInv'
  <2>1. TypeOK'
    BY <1>1 DEF Call, TypeOK
  <2>2. CallInv'
    BY <1>1 DEF Call, TypeOK, CallInv, PhaseInv
  <2>3. PhaseInv' /\ \A r \in Servers : RunnerInv(r)'
    BY <1>1 DEF Call, PhaseInv, RunnerInv
  <2>. QED  BY <2>1, <2>2, <2>3
<1>2. ASSUME Leave(c)
      PROVE  IInv'
  BY <1>2 DEF Leave, TypeOK, CallInv, PhaseInv, RunnerInv
<1>. QED  BY <1>1, <1>2 DEF CallStep, Refuse, Return, CallRaises, TimeOut

\* Every step preserves the invariant.
LEMMA StepPreserves == IInv /\ [Next]_vars => IInv'
<1>1. ASSUME IInv, UNCHANGED vars
      PROVE  IInv'
  BY <1>1 DEF vars, IInv, TypeOK, RunnerInv, PhaseInv, CallInv
<1>. QED
  BY <1>1, RunnerPreserves, PoolPreserves, CallPreserves DEF Next, Terminated

\* The strengthened invariant holds in every reachable state.
THEOREM Invariance == Spec => []IInv
BY StepPreserves, InitIInv, PTL DEF Spec

-----------------------------------------------------------------------------

\* Every variable of the pool, its loops and its calls keeps its type.
THEOREM TypeCorrect == Spec => []TypeOK
<1>1. IInv => TypeOK
  BY DEF IInv
<1>. QED  BY <1>1, Invariance, PTL

\* The event _connected and the reference _session never disagree outside a
\* failed start and a stop, so a call that finds the event set finds a session.
THEOREM EventAgrees == Spec => []EventMatchesSession
<1>1. IInv => EventMatchesSession
  BY DEF IInv, EventMatchesSession, TypeOK, RunnerInv
<1>. QED  BY <1>1, Invariance, PTL

\* A waiting call is always owed a wake-up by a live connection loop, until
\* stop: there is no lost wake-up, whatever drops, retries and calls interleave.
THEOREM NoLostWakeup == Spec => []WaitersHaveARunner
<1>1. IInv => WaitersHaveARunner
  BY DEF IInv, WaitersHaveARunner, TypeOK, RunnerInv, CallInv
<1>. QED  BY <1>1, Invariance, PTL

\* No connection outlives its loop, and stop leaves neither.
THEOREM NothingLeaks == Spec => []NoLeak
<1>1. IInv => NoLeak
  BY DEF IInv, NoLeak, TypeOK, RunnerInv, PhaseInv
<1>. QED  BY <1>1, Invariance, PTL

\* Once stop has shut a server's session down, its loop makes no attempt and
\* gains no connection again, whichever await the cancellation found it in and
\* whether or not the cancellation got through.
THEOREM StopIsFinal == Spec => NoReopenAfterStop
<1> DEFINE Stays(s) == /\ runner'[s] # "opening"
                       /\ link[s] = "none" => link'[s] = "none"
<1>1. IInv /\ [Next]_vars => [\A s \in Servers : shutdown[s] => Stays(s)]_vars
  <2> SUFFICES ASSUME IInv, Next, NEW s \in Servers, shutdown[s]
               PROVE  Stays(s)
    OBVIOUS
  <2>0. /\ runner[s] \in Cancelled \cup Sleeping \cup {"done"}
        /\ phase \in {"stopping", "stopped"}
        /\ runner \in [Servers -> {"none", "opening", "holding", "done"}
                                    \cup Closing \cup Sleeping \cup Cancelled]
        /\ link \in [Servers -> {"none", "up", "dead"}]
    BY DEF IInv, TypeOK, RunnerInv, PhaseInv
  <2>1. ASSUME NEW r \in Servers, RunnerStep(r)
        PROVE  Stays(s)
    BY <2>0, <2>1
    DEF RunnerStep, OpenOk, FirstOpenFails, ReopenFails, DieSilently, Drop,
        Unwound, Retry, Wake, NextBackoff, CancelEnds, CancelRaises, LoseSession
  <2>2. ASSUME NEW r \in Servers, PoolStep(r)
        PROVE  Stays(s)
    BY <2>0, <2>2 DEF PoolStep, StartServer, StopServer, CancelRunner, StopReturns
  <2>3. ASSUME NEW c \in Calls, CallStep(c)
        PROVE  Stays(s)
    BY <2>0, <2>3 DEF CallStep, Call, Leave, Refuse, Return, CallRaises, TimeOut
  <2>. QED
    BY <2>0, <2>1, <2>2, <2>3 DEF Next, StartDone, StopDone, Terminated, vars
<1>. QED  BY <1>1, Invariance, PTL DEF Spec, NoReopenAfterStop

\* The delay between attempts shrinks only when a connection is made, and is
\* then the initial one.
THEOREM BackingOff == Spec => BackoffGrows
<1>1. IInv /\ [Next]_vars =>
        [\A s \in Servers :
           /\ backoff'[s] < backoff[s] => ~session[s] /\ session'[s]
           /\ ~session[s] /\ session'[s] => backoff'[s] = InitialBackoff]_vars
  <2> SUFFICES ASSUME IInv, Next, NEW s \in Servers
               PROVE  /\ backoff'[s] < backoff[s] => ~session[s] /\ session'[s]
                      /\ ~session[s] /\ session'[s] => backoff'[s] = InitialBackoff
    OBVIOUS
  <2>0. /\ backoff \in [Servers -> InitialBackoff..MaxBackoff]
        /\ session \in [Servers -> BOOLEAN]
        /\ runner[s] = "opening" => ~session[s]
    BY DEF IInv, TypeOK, RunnerInv
  <2> DEFINE Unchanged == backoff'[s] = backoff[s] /\ (session'[s] => session[s])
  <2>1. ASSUME NEW r \in Servers, RunnerStep(r)
        PROVE  \/ Unchanged
               \/ ~session[s] /\ session'[s] /\ backoff'[s] = InitialBackoff
               \/ session'[s] = session[s] /\ ~(backoff'[s] < backoff[s])
    <3>1. CASE OpenOk(r)
      BY <2>0, <3>1 DEF OpenOk
    <3>2. CASE Retry(r)
      BY <2>0, <3>2 DEF Retry, Wake, NextBackoff
    <3>. QED
      BY <2>0, <2>1, <3>1, <3>2
      DEF RunnerStep, FirstOpenFails, ReopenFails, DieSilently, Drop,
          Unwound, CancelEnds, CancelRaises, LoseSession
  <2>2. ASSUME NEW r \in Servers, PoolStep(r)
        PROVE  Unchanged
    BY <2>0, <2>2 DEF PoolStep, StartServer, StopServer, CancelRunner, StopReturns
  <2>3. ASSUME NEW c \in Calls, CallStep(c)
        PROVE  Unchanged
    BY <2>3 DEF CallStep, Call, Leave, Refuse, Return, CallRaises, TimeOut
  <2>4. CASE StartDone \/ StopDone \/ Terminated
    <3>. Unchanged
      BY <2>4 DEF StartDone, StopDone, Terminated, vars
    <3>. QED  BY <2>0
  <2>. QED
    BY <2>0, <2>1, <2>2, <2>3, <2>4 DEF Next
<1>. QED  BY <1>1, Invariance, PTL DEF Spec, BackoffGrows
=============================================================================

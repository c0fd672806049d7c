--------------------------- MODULE CredentialsProofs ---------------------------
(****************************************************************************)
(* The tokens that openings are handed, for any servers, clients, scopes    *)
(* and any number of concurrent openings.  The invariant bounds how far the *)
(* end each cache has noted can lie after the end of the token itself.      *)
(****************************************************************************)
EXTENDS Credentials, TLAPS

\* A token on its way is for its opening's server, and not older than Latency.
InFlight ==
  \A o \in Openers : pc[o] = "issued" =>
    /\ token[o].for = server[o]
    /\ token[o].issued <= now /\ now <= token[o].issued + Latency

\* Counting from a token's arrival adds its time on the way.
TokensSound ==
  \A k \in Keys : oauth2_cache[k] # None =>
    /\ oauth2_cache[k].until <= Expires(oauth2_cache[k].token) + Latency
    /\ OAuthKey(oauth2_cache[k].token.for) = k

\* Headers were put away while their token was valid.
HeadersSound ==
  \A s \in Servers : credential_cache[s] # None =>
    /\ credential_cache[s].until <= Expires(credential_cache[s].token) + CacheTTL
    /\ OAuthKey(credential_cache[s].token.for) = OAuthKey(s)

ReadySound ==
  \A o \in Openers : pc[o] = "ready" =>
    /\ now < Expires(token[o]) + CacheTTL
    /\ OAuthKey(token[o].for) = OAuthKey(server[o])

IInv == TypeOK /\ InFlight /\ TokensSound /\ HeadersSound /\ ReadySound

USE ClockAssumption, LatencyAssumption, NoneAssumption DEF caches

-----------------------------------------------------------------------------

LEMMA ServerKey == \A s \in Servers : OAuthKey(s) \in Keys
BY DEF Keys

\* What TypeOK says of the fields of a token and of an entry.
LEMMA Fields ==
  /\ \A t \in Tokens : /\ t.for \in Servers /\ t.issued \in Nat
                       /\ t.life \in Nat /\ Latency < t.life
                       /\ Expires(t) \in Nat
  /\ \A e \in Entries : e.token \in Tokens /\ e.until \in Nat
BY DEF Tokens, Entries, Expires

LEMMA InitIInv == Init => IInv
BY DEF Init, IInv, TypeOK, InFlight, TokensSound, HeadersSound, ReadySound

\* Handing out a token that is valid and for the opening's own key preserves
\* what is said of headers and of openings.
LEMMA HandOutSound ==
  ASSUME IInv, NEW o \in Openers, NEW t \in Tokens, HandOut(o, t),
         server[o] \in Servers, server' = server, now' = now,
         now < Expires(t), OAuthKey(t.for) = OAuthKey(server[o])
  PROVE  /\ credential_cache' \in [Servers -> Entries \cup {None}]
         /\ pc' = [pc EXCEPT ![o] = "ready"]
         /\ token' = [token EXCEPT ![o] = t]
         /\ HeadersSound' /\ ReadySound'
<1> USE DEF IInv
<1>1. [token |-> t, until |-> now + CacheTTL] \in Entries
  BY DEF Entries, TypeOK
<1>2. credential_cache' \in [Servers -> Entries \cup {None}]
  BY <1>1 DEF HandOut, TypeOK
<1>3. pc' = [pc EXCEPT ![o] = "ready"] /\ token' = [token EXCEPT ![o] = t]
  BY DEF HandOut, Ready
<1>4. HeadersSound'
  <2> SUFFICES ASSUME NEW s \in Servers, credential_cache'[s] # None
               PROVE  /\ credential_cache'[s].until
                           <= Expires(credential_cache'[s].token) + CacheTTL
                      /\ OAuthKey(credential_cache'[s].token.for) = OAuthKey(s)
    BY DEF HeadersSound, OAuthKey, Expires
  <2>1. CASE s = server[o]
    <3>1. credential_cache'[s] = [token |-> t, until |-> now + CacheTTL]
      BY <2>1 DEF HandOut, TypeOK
    <3>2. now \in Nat /\ Expires(t) \in Nat
      BY Fields DEF TypeOK
    <3>. QED  BY <2>1, <3>1, <3>2
  <2>2. CASE s # server[o]
    <3>1. credential_cache'[s] = credential_cache[s]
      BY <2>2 DEF HandOut, TypeOK
    <3>. QED  BY <3>1 DEF HeadersSound
  <2>. QED  BY <2>1, <2>2
<1>5. ReadySound'
  <2> SUFFICES ASSUME NEW q \in Openers, pc'[q] = "ready"
               PROVE  /\ now < Expires(token'[q]) + CacheTTL
                      /\ OAuthKey(token'[q].for) = OAuthKey(server[q])
    BY DEF ReadySound, OAuthKey, Expires
  <2>1. CASE q = o
    <3>1. token'[q] = t
      BY <1>3, <2>1 DEF TypeOK
    <3>2. now \in Nat /\ Expires(t) \in Nat
      BY Fields DEF TypeOK
    <3>. QED  BY <2>1, <3>1, <3>2
  <2>2. CASE q # o
    BY <1>3, <2>2 DEF ReadySound, TypeOK
  <2>. QED  BY <2>1, <2>2
<1>. QED  BY <1>2, <1>3, <1>4, <1>5

\* A token that fetch_token finds in its cache has not expired.
LEMMA CachedTokenValid ==
  ASSUME IInv, NEW k \in Keys, TokenCached(k)
  PROVE  /\ oauth2_cache[k].token \in Tokens
         /\ now < Expires(oauth2_cache[k].token)
         /\ OAuthKey(oauth2_cache[k].token.for) = k
<1>1. oauth2_cache[k] \in Entries /\ now \in Nat
  BY DEF IInv, TypeOK, TokenCached
<1>2. oauth2_cache[k].token \in Tokens /\ oauth2_cache[k].until \in Nat
  BY <1>1, Fields
<1>3. Expires(oauth2_cache[k].token) \in Nat
  BY <1>2, Fields
<1>. QED  BY <1>1, <1>2, <1>3 DEF IInv, TokensSound, TokenCached

\* So has one that arrives.
LEMMA ArrivedTokenValid ==
  ASSUME IInv, NEW o \in Openers, pc[o] = "issued"
  PROVE  /\ token[o] \in Tokens /\ server[o] \in Servers
         /\ now < Expires(token[o]) /\ token[o].for = server[o]
         /\ now + token[o].life <= Expires(token[o]) + Latency
<1>1. token[o] \in Tokens /\ server[o] \in Servers /\ now \in Nat
  BY DEF IInv, TypeOK
<1>2. /\ token[o].issued \in Nat /\ token[o].life \in Nat
      /\ Latency < token[o].life
  BY <1>1, Fields
<1>. QED  BY <1>1, <1>2 DEF IInv, InFlight, Expires

-----------------------------------------------------------------------------

LEMMA NextIInv == IInv /\ [Next]_vars => IInv'
<1> SUFFICES ASSUME IInv, [Next]_vars PROVE IInv'
  OBVIOUS
<1> USE DEF IInv
<1>1. ASSUME NEW o \in Openers, NEW s \in Servers, Open(o, s) PROVE IInv'
  <2>1. CASE Cached(s)
    <3> DEFINE e == credential_cache[s]
    <3>1. e \in Entries /\ now \in Nat
      BY <2>1 DEF Cached, TypeOK
    <3>2. e.token \in Tokens /\ e.until \in Nat /\ Expires(e.token) \in Nat
      BY <3>1, Fields
    <3>3. now < Expires(e.token) + CacheTTL /\ OAuthKey(e.token.for) = OAuthKey(s)
      BY <2>1, <3>1, <3>2 DEF Cached, HeadersSound
    <3>4. /\ pc' = [pc EXCEPT ![o] = "ready"]
          /\ token' = [token EXCEPT ![o] = e.token]
          /\ server' = [server EXCEPT ![o] = s] /\ UNCHANGED <<now, caches>>
      BY <1>1, <2>1 DEF Open, Ready
    <3>5. TypeOK'
      BY <3>2, <3>4 DEF TypeOK
    <3>6. InFlight' /\ TokensSound' /\ HeadersSound'
      BY <3>4 DEF TypeOK, InFlight, TokensSound, HeadersSound, OAuthKey, Expires
    <3>7. ReadySound'
      BY <3>3, <3>4 DEF TypeOK, ReadySound, OAuthKey, Expires
    <3>. QED  BY <3>5, <3>6, <3>7
  <2>2. CASE ~Cached(s)
    BY <1>1, <2>2 DEF Open, TypeOK, InFlight, TokensSound, HeadersSound,
                      ReadySound, OAuthKey, Expires
  <2>. QED  BY <2>1, <2>2
<1>2. ASSUME NEW o \in Openers, UseToken(o) PROVE IInv'
  <2> DEFINE k == OAuthKey(server[o])
             t == oauth2_cache[k].token
  <2>1. server[o] \in Servers
    BY <1>2 DEF UseToken, TypeOK
  <2>2. k \in Keys
    BY <2>1, ServerKey
  <2>3. t \in Tokens /\ now < Expires(t) /\ OAuthKey(t.for) = k
    BY <1>2, <2>2, CachedTokenValid DEF UseToken
  <2>4. /\ credential_cache' \in [Servers -> Entries \cup {None}]
        /\ pc' = [pc EXCEPT ![o] = "ready"]
        /\ token' = [token EXCEPT ![o] = t]
        /\ HeadersSound' /\ ReadySound'
    BY <1>2, <2>1, <2>3, HandOutSound DEF UseToken
  <2>5. TypeOK'
    BY <1>2, <2>3, <2>4 DEF UseToken, TypeOK
  <2>6. InFlight' /\ TokensSound'
    BY <1>2, <2>4 DEF UseToken, TypeOK, InFlight, TokensSound, OAuthKey, Expires
  <2>. QED  BY <2>4, <2>5, <2>6
<1>3. ASSUME NEW o \in Openers, Request(o) PROVE IInv'
  BY <1>3 DEF Request, TypeOK, InFlight, TokensSound, HeadersSound, ReadySound,
              OAuthKey, Expires
<1>4. ASSUME NEW o \in Openers, Issue(o) PROVE IInv'
  <2>1. PICK life \in Lifetimes :
          token' = [token EXCEPT ![o] =
                      [for |-> server[o], issued |-> now, life |-> life]]
    BY <1>4 DEF Issue
  <2>2. [for |-> server[o], issued |-> now, life |-> life] \in Tokens
    BY <1>4 DEF Issue, TypeOK, Tokens
  <2>3. TypeOK'
    BY <1>4, <2>1, <2>2 DEF Issue, TypeOK
  <2>4. InFlight'
    <3> SUFFICES ASSUME NEW q \in Openers, pc'[q] = "issued"
                 PROVE  /\ token'[q].for = server[q]
                        /\ token'[q].issued <= now
                        /\ now <= token'[q].issued + Latency
      BY <1>4 DEF Issue, InFlight
    <3>1. CASE q = o
      <4>1. token'[q] = [for |-> server[o], issued |-> now, life |-> life]
        BY <2>1, <3>1 DEF TypeOK
      <4>. QED  BY <3>1, <4>1 DEF TypeOK
    <3>2. CASE q # o
      BY <1>4, <2>1, <3>2 DEF Issue, TypeOK, InFlight
    <3>. QED  BY <3>1, <3>2
  <2>5. TokensSound' /\ HeadersSound' /\ ReadySound'
    BY <1>4, <2>1 DEF Issue, TypeOK, TokensSound, HeadersSound, ReadySound,
                      OAuthKey, Expires
  <2>. QED  BY <2>3, <2>4, <2>5
<1>5. ASSUME NEW o \in Openers, Arrive(o) PROVE IInv'
  <2> DEFINE k == OAuthKey(server[o])
             t == token[o]
             e == [token |-> t, until |-> now + t.life]
  <2>1. /\ t \in Tokens /\ server[o] \in Servers
        /\ now < Expires(t) /\ t.for = server[o]
        /\ now + t.life <= Expires(t) + Latency
    BY <1>5, ArrivedTokenValid DEF Arrive
  <2>2. e \in Entries /\ k \in Keys
    BY <2>1, ServerKey, Fields DEF Entries, TypeOK
  <2>3. /\ credential_cache' \in [Servers -> Entries \cup {None}]
        /\ pc' = [pc EXCEPT ![o] = "ready"]
        /\ token' = [token EXCEPT ![o] = t]
        /\ HeadersSound' /\ ReadySound'
    BY <1>5, <2>1, HandOutSound DEF Arrive
  <2>4. oauth2_cache' = [oauth2_cache EXCEPT ![k] = e]
    BY <1>5 DEF Arrive
  <2>5. TypeOK'
    BY <1>5, <2>1, <2>2, <2>3, <2>4 DEF Arrive, TypeOK
  <2>6. InFlight'
    BY <1>5, <2>3 DEF Arrive, TypeOK, InFlight
  <2>7. TokensSound'
    <3> SUFFICES ASSUME NEW j \in Keys, oauth2_cache'[j] # None
                 PROVE  /\ oauth2_cache'[j].until
                             <= Expires(oauth2_cache'[j].token) + Latency
                        /\ OAuthKey(oauth2_cache'[j].token.for) = j
      BY DEF TokensSound, OAuthKey, Expires, Keys
    <3>1. CASE j = k
      <4>1. oauth2_cache'[j] = e
        BY <2>4, <3>1 DEF TypeOK
      <4>. QED  BY <2>1, <3>1, <4>1
    <3>2. CASE j # k
      <4>1. oauth2_cache'[j] = oauth2_cache[j]
        BY <2>4, <3>2 DEF TypeOK
      <4>. QED  BY <4>1 DEF TokensSound
    <3>. QED  BY <3>1, <3>2
  <2>. QED  BY <2>3, <2>5, <2>6, <2>7
<1>6. ASSUME NEW o \in Openers, Fail(o) \/ Connect(o) PROVE IInv'
  BY <1>6 DEF Fail, Connect, Return, TypeOK, InFlight, TokensSound,
              HeadersSound, ReadySound, OAuthKey, Expires
<1>7. ASSUME Tick PROVE IInv'
  <2>1. TypeOK' /\ TokensSound' /\ HeadersSound'
    BY <1>7 DEF Tick, TypeOK, TokensSound, HeadersSound, OAuthKey, Expires
  <2>2. ReadySound'
    BY <1>7 DEF Tick, ReadySound
  <2>3. InFlight'
    <3> SUFFICES ASSUME NEW q \in Openers, pc[q] = "issued"
                 PROVE  /\ token[q].for = server[q]
                        /\ token[q].issued <= now + 1
                        /\ now + 1 <= token[q].issued + Latency
      BY <1>7 DEF Tick, InFlight
    <3>1. token[q] \in Tokens /\ now \in Nat
      BY DEF TypeOK
    <3>2. token[q].issued \in Nat
      BY <3>1, Fields
    <3>. QED  BY <1>7, <3>1, <3>2 DEF Tick, InFlight
  <2>. QED  BY <2>1, <2>2, <2>3
<1>8. CASE UNCHANGED vars
  BY <1>8 DEF vars, TypeOK, InFlight, TokensSound, HeadersSound, ReadySound,
              OAuthKey, Expires
<1>. QED  BY <1>1, <1>2, <1>3, <1>4, <1>5, <1>6, <1>7, <1>8 DEF Next

LEMMA Invariance == Spec => []IInv
<1>. QED  BY InitIInv, NextIInv, PTL DEF Spec

-----------------------------------------------------------------------------

\* The openings and the two caches keep their types.
THEOREM TypeCorrect == Spec => []TypeOK
<1>1. IInv => TypeOK
  BY DEF IInv
<1>. QED  BY Invariance, <1>1, PTL

\* An opening is never handed a token that expired _CREDENTIAL_TTL ago.
THEOREM StalenessBounded == Spec => []ExpiredForLessThanTTL
<1>1. IInv => ExpiredForLessThanTTL
  BY DEF IInv, ReadySound, ExpiredForLessThanTTL
<1>. QED  BY Invariance, <1>1, PTL

\* An opening is only handed a token of its own client and scope.
THEOREM OwnTokens == Spec => []OwnClientAndScope
<1>1. IInv => OwnClientAndScope
  BY DEF IInv, ReadySound, OwnClientAndScope, OAuthKey
<1>. QED  BY Invariance, <1>1, PTL

\* A connection that is resolved gets a token that has not expired.
THEOREM ResolvedIsFresh == Spec => FreshWhenResolved
<1> DEFINE Fresh(o) == pc[o] \in {"resolving", "issued"} /\ pc'[o] = "ready"
                         => now < Expires(token'[o])
<1>1. IInv /\ [Next]_vars => [\A o \in Openers : Fresh(o)]_vars
  <2> SUFFICES ASSUME IInv, Next, NEW o \in Openers,
                      pc[o] \in {"resolving", "issued"}, pc'[o] = "ready"
               PROVE  now < Expires(token'[o])
    OBVIOUS
  <2>1. pc \in [Openers -> {"idle", "resolving", "requested", "issued", "ready"}]
    BY DEF IInv, TypeOK
  <2>2. UseToken(o) \/ Arrive(o)
    BY <2>1 DEF Next, Open, Ready, UseToken, Request, Issue, Arrive, Fail,
                Connect, Return, Tick, HandOut
  <2>3. CASE UseToken(o)
    <3> DEFINE k == OAuthKey(server[o])
    <3>1. k \in Keys /\ TokenCached(k)
      BY <2>3, ServerKey DEF IInv, TypeOK, UseToken
    <3>2. token'[o] = oauth2_cache[k].token
      BY <2>3 DEF IInv, TypeOK, UseToken, HandOut, Ready
    <3>. QED  BY <3>1, <3>2, CachedTokenValid
  <2>4. CASE Arrive(o)
    <3>1. token'[o] = token[o] /\ pc[o] = "issued"
      BY <2>4 DEF IInv, TypeOK, Arrive, HandOut, Ready
    <3>. QED  BY <3>1, ArrivedTokenValid
  <2>. QED  BY <2>2, <2>3, <2>4
<1>. QED  BY Invariance, <1>1, PTL DEF Spec, FreshWhenResolved
=============================================================================

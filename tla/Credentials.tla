------------------------------ MODULE Credentials ------------------------------
(****************************************************************************)
(* The credentials of an OAuth2 server: resolver.resolve_connection over    *)
(* the two caches it keeps, the tokens of oauth2.py and the resolved        *)
(* headers of credential_cache.py.  Every opening of a session resolves     *)
(* its connection first; openings of all servers, by connection loops,      *)
(* ephemeral calls and discovery, run concurrently and yield to each other  *)
(* while secrets are resolved and while a token is fetched.                 *)
(*                                                                          *)
(* The clock is that of time.time(), the same at the relay and the issuer.  *)
(****************************************************************************)
EXTENDS Naturals

CONSTANTS Servers,    \* the servers with auth type oauth2_client_credentials
          Auth,       \* the auth section of each: client (token_url and
                      \* client_id), scope and audience
          Openers,    \* the slots of concurrent openings
          CacheTTL,   \* _CREDENTIAL_TTL
          Margin,     \* a cached token is not used for its last 60 seconds
          Lifetimes,  \* the lifetimes of tokens: what expires_in says or, where
                      \* the issuer leaves it out, the default of 3600 s
          Latency,    \* the longest an issued token is on its way
          Horizon,    \* bound: the end of the clock
          None        \* no token, no entry, no server

ASSUME AuthAssumption ==
  /\ DOMAIN Auth = Servers
  /\ \A s \in Servers : {"client", "scope", "audience"} \subseteq DOMAIN Auth[s]
ASSUME ClockAssumption == /\ CacheTTL \in Nat /\ Margin \in Nat
                          /\ Latency \in Nat /\ Horizon \in Nat
                          /\ Lifetimes \subseteq Nat
\* The issuer answers within the margin and its tokens outlive their delivery.  (A
\* token without expires_in is taken to live as long as the relay then assumes.)
ASSUME LatencyAssumption ==
  Latency <= Margin /\ \A life \in Lifetimes : Latency < life

Tokens == [for : Servers, issued : Nat, life : Lifetimes]
Expires(t) == t.issued + t.life

\* The audience is not part of the key.
OAuthKey(s) == <<Auth[s].client, Auth[s].scope>>

Keys == {OAuthKey(s) : s \in Servers}
Entries == [token : Tokens, until : Nat]

ASSUME NoneAssumption == None \notin Tokens \cup Entries \cup Servers

VARIABLES
  now,              \* the time
  oauth2_cache,     \* _oauth2_cache
  credential_cache, \* _credential_cache
  pc,               \* where each opening is
  server,           \* the server an opening is for, None between openings
  token             \* the token an opening has been issued or handed

caches == <<oauth2_cache, credential_cache>>
vars == <<now, caches, pc, server, token>>

TypeOK ==
  /\ now \in Nat
  /\ oauth2_cache \in [Keys -> Entries \cup {None}]
  /\ credential_cache \in [Servers -> Entries \cup {None}]
  /\ pc \in [Openers -> {"idle", "resolving", "requested", "issued", "ready"}]
  /\ server \in [Openers -> Servers \cup {None}]
  /\ token \in [Openers -> Tokens \cup {None}]
  /\ \A o \in Openers : /\ token[o] # None <=> pc[o] \in {"issued", "ready"}
                        /\ server[o] # None <=> pc[o] # "idle"

Init ==
  /\ now = 0
  /\ oauth2_cache = [k \in Keys |-> None]
  /\ credential_cache = [s \in Servers |-> None]
  /\ pc = [o \in Openers |-> "idle"]
  /\ server = [o \in Openers |-> None]
  /\ token = [o \in Openers |-> None]

-----------------------------------------------------------------------------

\* Mutant of Cached: entries do not expire.
CachedForEver(s) == credential_cache[s] # None

\* get_cached
Cached(s) == /\ credential_cache[s] # None
             /\ now < credential_cache[s].until

\* Mutant of TokenCached: a token is used until the end it was given here.
TokenCachedToTheEnd(k) == /\ oauth2_cache[k] # None
                          /\ now < oauth2_cache[k].until

TokenCached(k) == /\ oauth2_cache[k] # None
                  /\ now + Margin < oauth2_cache[k].until

Ready(o, t) ==
  /\ pc' = [pc EXCEPT ![o] = "ready"]
  /\ token' = [token EXCEPT ![o] = t]

\* set_cached, and the connection is returned.
HandOut(o, t) ==
  /\ Ready(o, t)
  /\ credential_cache' =
       [credential_cache EXCEPT ![server[o]] =
          [token |-> t, until |-> now + CacheTTL]]

\* resolve_connection begins: a hit returns at once, otherwise the secrets of
\* the auth section are resolved.
Open(o, s) ==
  /\ pc[o] = "idle"
  /\ server' = [server EXCEPT ![o] = s]
  /\ IF Cached(s)
     THEN Ready(o, credential_cache[s].token)
     ELSE pc' = [pc EXCEPT ![o] = "resolving"] /\ UNCHANGED token
  /\ UNCHANGED <<now, caches>>

\* fetch_token finds a token in its cache ...
UseToken(o) ==
  LET k == OAuthKey(server[o]) IN
  /\ pc[o] = "resolving" /\ TokenCached(k)
  /\ HandOut(o, oauth2_cache[k].token)
  /\ UNCHANGED <<now, oauth2_cache, server>>

\* ... or asks the issuer for one.
Request(o) ==
  /\ pc[o] = "resolving" /\ ~TokenCached(OAuthKey(server[o]))
  /\ pc' = [pc EXCEPT ![o] = "requested"]
  /\ UNCHANGED <<now, caches, server, token>>

Issue(o) ==
  /\ pc[o] = "requested"
  /\ pc' = [pc EXCEPT ![o] = "issued"]
  /\ \E life \in Lifetimes :
       token' = [token EXCEPT ![o] =
                   [for |-> server[o], issued |-> now, life |-> life]]
  /\ UNCHANGED <<now, caches, server>>

\* The answer: the lifetime counts from its arrival.
Arrive(o) ==
  /\ pc[o] = "issued"
  /\ oauth2_cache' =
       [oauth2_cache EXCEPT ![OAuthKey(server[o])] =
          [token |-> token[o], until |-> now + token[o].life]]
  /\ HandOut(o, token[o])
  /\ UNCHANGED <<now, server>>

Return(o) ==
  /\ pc' = [pc EXCEPT ![o] = "idle"]
  /\ server' = [server EXCEPT ![o] = None]
  /\ token' = [token EXCEPT ![o] = None]

\* Mutant of Fail: what the request had been issued stays behind.
FailKeepsToken(o) ==
  /\ pc[o] \in {"resolving", "requested", "issued"}
  /\ pc' = [pc EXCEPT ![o] = "idle"]
  /\ server' = [server EXCEPT ![o] = None]
  /\ UNCHANGED <<now, caches, token>>

\* A secret is missing, the request is refused or times out, its answer is
\* lost, or the opening is cancelled: nothing is cached.
Fail(o) ==
  /\ pc[o] \in {"resolving", "requested", "issued"}
  /\ Return(o)
  /\ UNCHANGED <<now, caches>>

\* open_session goes on with the connection it was handed.
Connect(o) ==
  /\ pc[o] = "ready"
  /\ Return(o)
  /\ UNCHANGED <<now, caches>>

Tick ==
  /\ now < Horizon
  /\ \A o \in Openers :
       /\ pc[o] # "ready"
       /\ pc[o] = "issued" => now < token[o].issued + Latency
  /\ now' = now + 1
  /\ UNCHANGED <<caches, pc, server, token>>

Next ==
  \/ \E o \in Openers :
       \/ \E s \in Servers : Open(o, s)
       \/ UseToken(o) \/ Request(o) \/ Issue(o) \/ Arrive(o) \/ Fail(o)
       \/ Connect(o)
  \/ Tick

Spec == Init /\ [][Next]_vars

-----------------------------------------------------------------------------

\* A connection that is resolved, rather than served from the credential
\* cache, gets a token that has not expired, although the relay counts
\* expires_in from the answer's arrival and answers overtake each other: the
\* margin of oauth2.py covers the time tokens are on their way.
FreshWhenResolved ==
  [][\A o \in Openers :
       pc[o] \in {"resolving", "issued"} /\ pc'[o] = "ready"
         => now < Expires(token'[o])]_vars

\* The credential cache serves headers for _CREDENTIAL_TTL whatever is left of
\* the token in them, so an opening can be handed an expired token; never one
\* that expired _CREDENTIAL_TTL ago.
ExpiredForLessThanTTL ==
  \A o \in Openers :
    pc[o] = "ready" => now < Expires(token[o]) + CacheTTL

\* Servers share tokens through _oauth2_cache: an opening is only handed one
\* that was requested for its server's own client and scope.  (The audience is
\* left out, as it is from the key.)
OwnClientAndScope ==
  \A o \in Openers : pc[o] = "ready" =>
    LET granted == Auth[token[o].for]  wanted == Auth[server[o]] IN
    /\ granted.client = wanted.client
    /\ granted.scope = wanted.scope

\* remote_servers.examples.yaml:111-112: the relay "fetches and caches a Bearer
\* token automatically, refreshing it before expiry": no opening is handed an
\* expired token.
RefreshedBeforeExpiry ==
  \A o \in Openers : pc[o] = "ready" => now < Expires(token[o])
=============================================================================

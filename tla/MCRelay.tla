-------------------------------- MODULE MCRelay --------------------------------
EXTENDS Relay

A == Ref("a")
B == Ref("b")
X == Lit("x")
ValueIs(v) == [k \in {"value"} |-> v]

\* The entries of a secret: none, a text, an empty one, one that reads like a
\* reference, null, and in Vault several keys.
Absent == [k \in {} |-> Null]
SomeEntries == {Absent, ValueIs(<<X>>), ValueIs(<< >>), ValueIs(<<B>>), ValueIs(Null)}
KeyedEntries == {[k \in {"password", "user"} |-> IF k = "user" THEN <<X>> ELSE <<Lit("p")>>],
                 [k \in {"user", "host"} |-> <<X>>]}

Store(backend, ready, a, b) ==
  [backend |-> backend, ready |-> ready,
   entries |-> [n \in {"a", "b"} |-> IF n = "a" THEN a ELSE b]]

\* Only Vault and Azure have values that are null, and only Vault several keys.
Stores ==
  UNION {{Store("env", TRUE, a, b), Store("vault", TRUE, a, b), Store("azure", TRUE, b, a)} :
           a \in SomeEntries \ {ValueIs(Null)}, b \in {ValueIs(<<X>>), ValueIs(<< >>)}}
    \cup {Store("vault", TRUE, a, ValueIs(<<Lit("y")>>)) : a \in KeyedEntries \cup {ValueIs(Null)}}
    \cup {Store(k, r, ValueIs(<<X>>), Absent) :
            k \in {"gcp", "aws", "plain", "keychain"}, r \in BOOLEAN}
    \cup {Store("azure", TRUE, ValueIs(Null), Absent), Store("vault", FALSE, Absent, Absent)}

Good == Store("env", TRUE, ValueIs(<<X>>), ValueIs(<< >>))
NoInbound == [type |-> "none", tokens |-> << >>]
AServer == CHOOSE s \in Servers : TRUE
Server(transport, url, auth) ==
  [name |-> AServer, enabled |-> TRUE, url |-> url, transport |-> transport,
   auth |-> auth, limits |-> TRUE]
Auth(type, value) == [type |-> type, value |-> value, keys |-> {}, nulls |-> {}]
OpenServer == Server("sse", "fixed", Auth("none", Null))

InboundSettings ==
  {[store |-> st, inbound |-> in, servers |-> <<OpenServer>>] :
     st \in Stores,
     in \in [type : {"none", "bearer", "basic"},
             tokens : {<< >>, <<<<A>>>>, <<<<X>>, <<A>>>>, <<<<B>>, <<A, B>>>>,
                       <<<<B, X, A>>, <<X, A, A>>>>}]}

Values == {Null, Number, << >>, <<X>>, <<A>>, <<X, B, A>>}

ServerSettings ==
  {[store |-> st, inbound |-> NoInbound, servers |-> <<sv>>] :
     st \in {Good, Store("env", TRUE, Absent, ValueIs(<<X>>)),
             Store("vault", TRUE, ValueIs(Null), ValueIs(<<A>>))},
     sv \in {Server(t, u, Auth(ty, v)) :
               t \in {"sse", "websocket"}, u \in {"", "fixed", "with placeholder"},
               ty \in {"none", "api_key_query", "api_key_url_path", "api_key_header",
                       "bearer", OAuthType, "digest"},
               v \in Values}
            \cup {Server("sse", "fixed", [type |-> OAuthType, value |-> v, keys |-> ks, nulls |-> ns]) :
                    v \in Values, ks \in {OAuthRequired, {"client_id"}}, ns \in {{}, {"token_url"}}}
            \cup {Server("streamable_http", "fixed", Null),
                  [OpenServer EXCEPT !.name = Null], [OpenServer EXCEPT !.limits = FALSE]}}

\* Lists of servers: one that connects, one that validation does not let pass, one
\* whose mistake it overlooks, enabled and disabled.
ListSettings ==
  LET some == {OpenServer, Server("sse", "fixed", Auth("digest", Null)),
               Server("sse", "fixed", Auth("api_key_header", Number))}
      listed == some \cup {[server EXCEPT !.enabled = FALSE] : server \in some}
  IN  {[store |-> Good, inbound |-> NoInbound, servers |-> list] :
         list \in {<< >>} \cup (listed \X listed)}

MCFollowed ==
  {[store |-> Good, inbound |-> NoInbound,
    servers |-> <<Server("sse", "fixed", Auth("bearer", <<A>>))>>]}
MCSettings == InboundSettings \cup ServerSettings \cup ListSettings \cup MCFollowed

MCRequests ==
  [path : {"/health", "/metrics", "/sse"},
   token : {Null, << >>, <<X>>, <<A>>, <<X, X>>, <<X, X, X>>, <<Lit("y")>>, <<B, X>>}]
=============================================================================

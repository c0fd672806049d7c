--------------------------------- MODULE Boot ---------------------------------
(****************************************************************************)
(* What the relay makes of its configuration before it serves: secret       *)
(* references are resolved, inbound tokens loaded, servers validated and    *)
(* their connections resolved.  All of it is a function of the settings, a  *)
(* record with the secret store, the inbound_auth section and the servers,  *)
(* in the order of the file.                                                *)
(*                                                                          *)
(* A string of the configuration is a sequence of pieces, literals and      *)
(* secret:: references.  Where the code may raise, an operator gives the set*)
(* of its results: one result, or none where it raises.                     *)
(****************************************************************************)
EXTENDS FiniteSets, SequencesExt

CONSTANTS Null,    \* the YAML null, and no Authorization header
          Number   \* a YAML scalar that is no string

Lit(text) == [ref |-> FALSE, id |-> text]
Ref(name) == [ref |-> TRUE, id |-> name]

Only(S) == CHOOSE x \in S : TRUE

-----------------------------------------------------------------------------
(* secret_resolver.py.  The entry of a secret is a function from keys to    *)
(* values: {} where there is none; Vault may have several keys, the other   *)
(* backends have the key "value".                                           *)

VaultKeys == <<"value", "secret", "password", "token">>

ResolveVault(entry) ==
  LET known == SelectSeq(VaultKeys, LAMBDA k : k \in DOMAIN entry)
      key == IF Cardinality(DOMAIN entry) = 1 THEN Only(DOMAIN entry) ELSE Head(known)
      str(v) == IF v = Null THEN <<Lit("None")>> ELSE v
  IN  IF Cardinality(DOMAIN entry) # 1 /\ known = << >> THEN {} ELSE {str(entry[key])}

\* Google Cloud, AWS and Azure.  `ready`: the packages, environment variables
\* and rights the backend needs.
ResolveCloud(store, entry) ==
  IF store.ready THEN {entry[k] : k \in DOMAIN entry} \ {Null} ELSE {}

ResolveEnv(entry) == {entry[k] : k \in DOMAIN entry}

Resolve(store, name) ==
  LET entry == store.entries[name] IN
  CASE store.backend = "plain" -> {<<Lit(name)>>}
    [] store.backend = "env" -> ResolveEnv(entry)
    [] store.backend \in {"gcp", "aws", "azure"} -> ResolveCloud(store, entry)
    [] store.backend = "vault" /\ store.ready -> ResolveVault(entry)
    [] OTHER -> {}

\* Each reference that was found in the string takes the place of its first
\* occurrence in what the string has become.
ReplaceRefs(store, string) ==
  LET result[n \in 0..Len(string)] ==
        IF n = 0 THEN string
        ELSE IF string[n].ref
             THEN ReplaceFirstSubSeq(Only(Resolve(store, string[n].id)), <<string[n]>>,
                                     result[n - 1])
             ELSE result[n - 1]
  IN  result[Len(string)]

Resolvable(store, string) ==
  \A i \in DOMAIN string : string[i].ref => Resolve(store, string[i].id) # {}

ResolveString(store, string) ==
  IF Resolvable(store, string) THEN {ReplaceRefs(store, string)} ELSE {}

\* Scalars that are no strings pass through.
ResolveValue(store, v) ==
  IF v \in {Null, Number} THEN {v} ELSE ResolveString(store, v)

-----------------------------------------------------------------------------
(* Inbound authentication. *)

\* Mutant of NonEmpty: what a reference resolved to is taken as it is.
NonEmptyUnfiltered(resolved) == resolved

NonEmpty(resolved) == resolved \ {<< >>}

\* _load_inbound_tokens.
InboundTokens(settings) ==
  LET inbound == settings.inbound
      strings == Range(inbound.tokens)
      resolve(s) == ResolveString(settings.store, s)
  IN  CASE inbound.type = "none" -> {{}}
        [] /\ inbound.type = "bearer" /\ strings # {}
           /\ \A s \in strings : resolve(s) # {} ->
             {NonEmpty(UNION {resolve(s) : s \in strings})}
        [] OTHER -> {}

\* BearerAuthMiddleware.dispatch; without tokens there is no middleware.
Accepts(tokens, request) ==
  tokens = {} \/ request.path = "/health" \/ request.token \in tokens

-----------------------------------------------------------------------------
(* A server. *)

Transports == {"sse", "streamable_http"}
OAuthType == "oauth2_client_credentials"
AuthTypes == {"none", "api_key_query", "api_key_url_path", "api_key_header",
              "bearer", OAuthType}

\* Mutant of ValueTypes: a type is missing in the second list.
ValueTypesWithoutPath == {"api_key_query", "api_key_header", "bearer"}

\* The types that need a value.
ValueTypes == {"api_key_query", "api_key_url_path", "api_key_header", "bearer"}
OAuthRequired == {"token_url", "client_id", "client_secret"}

\* validate_servers does not raise for this server.  `limits` stands for the
\* checks of rate_limit and response_shape; auth is Null or a mapping: its keys,
\* those of them that are null, and a value, the client_secret for OAuth2.
Validated(server) ==
  LET auth == IF server.auth = Null THEN [type |-> "none"] ELSE server.auth IN
  /\ server.name # Null /\ server.url # "" /\ server.transport \in Transports
  /\ auth.type \in AuthTypes
  /\ auth.type \in ValueTypes => auth.value # Null
  /\ auth.type = OAuthType => OAuthRequired \subseteq auth.keys
  /\ server.limits

\* Where the credential of a type goes.
Place == [none |-> "nowhere", api_key_query |-> "query", api_key_url_path |-> "path",
          api_key_header |-> "header", bearer |-> "authorization",
          oauth2_client_credentials |-> "token request"]

\* What httpx takes: for a URL or a header a text, with "Bearer " in front even a
\* number, but not nothing; for a token request a URL that is not null.
Takes(server, value) ==
  LET type == server.auth.type IN
  /\ type \in {"api_key_query", "api_key_url_path", "api_key_header"} =>
       value \notin {Null, Number}
  /\ type = "api_key_url_path" => server.url = "with placeholder"
  /\ type = "bearer" => value # << >>
  /\ type = OAuthType => "token_url" \notin server.auth.nulls

\* resolve_connection, from the url and the section as given, and httpx behind
\* it: the credential and where it goes.  (fetch_token is in Credentials.)
Connection(store, server) ==
  LET auth == server.auth
      values == ResolveValue(store, auth.value)
      value == Only(values)
  IN  IF auth = Null \/ values = {} \/ ~Takes(server, value) THEN {}
      ELSE {[place |-> Place[auth.type],
             credential |-> IF auth.type = "none" THEN Null ELSE value]}
=============================================================================

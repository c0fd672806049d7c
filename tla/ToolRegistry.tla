------------------------------ MODULE ToolRegistry ------------------------------
(****************************************************************************)
(* Which tools the relay exposes: register_all at startup and the refresh   *)
(* loop afterwards, over the tables of server_registry and the tool         *)
(* provider of FastMCP.  A server is handled in steps, one per await: its   *)
(* tools are discovered, then built and added one at a time (each add of    *)
(* the refresher awaits a lookup), then the stale ones are removed and the  *)
(* tables stored.  Meanwhile upstreams change what they offer, operators    *)
(* edit the blocklist and add, remove, enable or disable servers, and GET   *)
(* /registry reads whatever the tables hold.                                *)
(*                                                                          *)
(* A proxy name is the upstream name under the server's tool_prefix; only   *)
(* whether two names are equal matters, so it is a pair.                    *)
(****************************************************************************)
EXTENDS Naturals, Sequences

CONSTANTS Config,    \* the servers, in the order of remote_servers.yaml
          Names,     \* upstream tool names
          Catalogue, \* bound: the names that each server may come to offer
          Blockable, \* bound: the names that operators may block, for each server
          Optional,  \* bound: the servers that come and go in the file
          Prefixed,  \* the servers with a tool_prefix of their own
          Bad,       \* <<server, name>>: build() raises for the tool's schema,
                     \* one with an optional property before a required one
          None       \* no server, no prefix

Servers == {Config[i] : i \in DOMAIN Config}

\* config/remote_servers.yaml:65: "name must be unique".
ASSUME ConfigAssumption ==
  /\ Config \in Seq(Servers)
  /\ \A i, j \in DOMAIN Config : Config[i] = Config[j] => i = j
ASSUME CatalogueAssumption == Catalogue \in [Servers -> SUBSET Names]
ASSUME BlockableAssumption == Blockable \in [Servers -> SUBSET Names]
ASSUME OptionalAssumption == Optional \subseteq Servers
ASSUME PrefixedAssumption == Prefixed \subseteq Servers
ASSUME BadAssumption == Bad \subseteq Servers \X Names
ASSUME NoneAssumption == None \notin Servers

ProxyName(s, n) == <<IF s \in Prefixed THEN s ELSE None, n>>
ProxyNames == {ProxyName(s, n) : s \in Servers, n \in Names}
Proxies(s, ns) == {ProxyName(s, n) : n \in ns}

VARIABLES
  offers,     \* external: what each upstream offers
  listed,     \* the servers that are in remote_servers.yaml and enabled
  blocklist,  \* the names the configuration files block, for each server
  phase,      \* startup, serving or failed
  tools,      \* FastMCP: the server behind each exposed proxy name, or None
  registered, \* _registered
  known,      \* the keys of _registered
  blocked,    \* _blocked
  metadata,   \* _tool_metadata: nothing, the description, or all of an entry
  todo,       \* the servers this pass still has to handle
  policy,     \* in a pass, the blocklist it read from the files
  working,    \* the server being handled, or None
  available,  \* its tools of this pass: discovered and not blocked
  pending,    \* those still to be looked at
  current,    \* the local set: `current`, or `registered_this_server`
  applied,    \* history: the blocked names as the last pass that had each server
              \* on its list, and is over for it, read them
  atStart     \* history: the servers that were registered at startup

envVars == <<offers, listed, blocklist>>
tableVars == <<tools, registered, known, blocked, metadata>>
passVars == <<todo, policy, working, available, pending, current>>
historyVars == <<applied, atStart>>
vars == <<envVars, phase, tableVars, passVars, historyVars>>

TypeOK ==
  /\ offers \in [Servers -> SUBSET Names]
  /\ listed \subseteq Servers
  /\ blocklist \in [Servers -> SUBSET Names]
  /\ phase \in {"startup", "serving", "failed"}
  /\ tools \in [ProxyNames -> Servers \cup {None}]
  /\ registered \in [Servers -> SUBSET ProxyNames]
  /\ known \subseteq Servers
  /\ blocked \in [Servers -> SUBSET ProxyNames]
  /\ metadata \in [ProxyNames -> {"none", "description", "full"}]
  /\ todo \subseteq Servers
  /\ policy \in [Servers -> SUBSET Names]
  /\ working \in Servers \cup {None}
  /\ available \subseteq ProxyNames
  /\ pending \subseteq available
  /\ current \subseteq ProxyNames
  /\ applied \in [Servers -> SUBSET Names]
  /\ atStart \subseteq Servers

Within(bound) ==
  {f \in [Servers -> SUBSET Names] : \A s \in Servers : f[s] \subseteq bound[s]}

NoPolicy == [s \in Servers |-> {}]

Init ==
  /\ offers \in Within(Catalogue)
  /\ \E L \in SUBSET Optional : listed = Servers \ L
  /\ blocklist \in Within(Blockable)
  /\ phase = "startup"
  /\ tools = [p \in ProxyNames |-> None]
  /\ registered = [s \in Servers |-> {}]
  /\ known = {}
  /\ blocked = [s \in Servers |-> {}]
  /\ metadata = [p \in ProxyNames |-> "none"]
  /\ todo = listed
  /\ policy = blocklist
  /\ working = None
  /\ available = {} /\ pending = {} /\ current = {}
  /\ applied = [s \in Servers |-> {}]
  /\ atStart = {}

-----------------------------------------------------------------------------
(* The environment. *)

UpstreamChanges(s, ns) ==
  /\ ns # offers[s]
  /\ offers' = [offers EXCEPT ![s] = ns]
  /\ UNCHANGED <<listed, blocklist, phase, tableVars, passVars, historyVars>>

EditBlocklist(s, ns) ==
  /\ phase = "serving" /\ ns # blocklist[s]
  /\ blocklist' = [blocklist EXCEPT ![s] = ns]
  /\ UNCHANGED <<offers, listed, phase, tableVars, passVars, historyVars>>

\* A server is added or enabled, or removed or disabled.
EditServers(L) ==
  /\ phase = "serving" /\ L # listed
  /\ listed' = L
  /\ UNCHANGED <<offers, blocklist, phase, tableVars, passVars, historyVars>>

-----------------------------------------------------------------------------
(* A server is discovered. *)

\* A pass handles the servers in the order of the file.
Due(s) ==
  /\ working = None /\ s \in todo
  /\ \E i \in DOMAIN Config : Config[i] = s /\ \A j \in 1..(i - 1) : Config[j] \notin todo

\* Mutant of Allowed: the blocklist is not applied.
AllowedAll(s, found) == Proxies(s, found)

\* The upstream tools that the pass may expose, by proxy name.
Allowed(s, found) == Proxies(s, found \ policy[s])

\* A pass takes up server s, whose discovery has answered `found`; the blocked
\* tools are noted at once, and their entries in _tool_metadata overwritten.
TakeUp(s, found) ==
  LET stopped == Proxies(s, found \cap policy[s]) IN
  /\ Due(s)
  /\ working' = s
  /\ available' = Allowed(s, found)
  /\ metadata' = [p \in ProxyNames |-> IF p \in stopped THEN "description"
                                       ELSE metadata[p]]
  /\ blocked' = [blocked EXCEPT ![s] = stopped]
  /\ UNCHANGED <<envVars, phase, tools, registered, known, todo, policy, historyVars>>

\* register_all starts from nothing and looks at every tool.
StartServer(s) ==
  /\ phase = "startup" /\ offers[s] # {}
  /\ TakeUp(s, offers[s])
  /\ pending' = available'
  /\ current' = {}

\* Mutant of Unseen: the difference the wrong way round.
UnseenSwapped(s) == registered[s] \ available'

\* (primed: the tools just found)
Unseen(s) == available' \ registered[s]

\* The refresher looks at the tools that are not registered.
RefreshServer(s, found) ==
  /\ phase = "serving"
  /\ TakeUp(s, found)
  /\ current' = registered[s]
  /\ pending' = Unseen(s)

\* discover() answers [] for a server that offers nothing and for one it
\* cannot reach: at startup the server is passed over, ...
SkipServer(s) ==
  /\ phase = "startup" /\ Due(s)
  /\ todo' = todo \ {s}
  /\ UNCHANGED <<envVars, phase, tableVars, policy, working, available, pending,
                 current, historyVars>>

\* ... and in a refresh it is handled like any other answer.
Refresh(s) == RefreshServer(s, offers[s])
RefreshUnreachable(s) == RefreshServer(s, {})

-----------------------------------------------------------------------------
(* Its tools are added. *)

Describe(p) == metadata' = [metadata EXCEPT ![p] = "full"]

Expose(p) ==
  /\ tools' = [tools EXCEPT ![p] = working]
  /\ Describe(p)
  /\ current' = current \cup {p}

\* Mutant of Share: `current` is a copy.
ShareNothing == UNCHANGED registered

\* `current` is the set stored in _registered when there is one.
Share ==
  registered' = IF phase = "serving" /\ working \in known
                THEN [registered EXCEPT ![working] = current']
                ELSE registered

\* mcp._local._get_tool(p) is None; at startup, p is not in registered_names.
Free(p) == tools[p] = None

\* A tool is built and added, or is left out because its name is taken.  The
\* lookup in between is awaited, but no other task writes the tools.
AddTool(p) ==
  /\ p \in pending /\ <<working, p[2]>> \notin Bad
  /\ phase = "startup" => Free(p)
  /\ pending' = pending \ {p}
  /\ IF Free(p) THEN Expose(p)
               ELSE UNCHANGED <<tools, metadata, current>>
  /\ Share
  /\ UNCHANGED <<envVars, phase, known, blocked, todo, policy, working,
                 available, historyVars>>

\* register_all skips a name that is taken before it builds the tool.
SkipTaken(p) ==
  /\ phase = "startup" /\ p \in pending /\ ~Free(p)
  /\ pending' = pending \ {p}
  /\ UNCHANGED <<envVars, phase, tableVars, todo, policy, working, available,
                 current, historyVars>>

\* build() raises ValueError.  It ends the refresh pass: the servers behind it
\* are not handled and what `current` held is lost unless it is the stored
\* set.  At startup it ends the application.
BuildFails(p) ==
  /\ p \in pending /\ <<working, p[2]>> \in Bad
  /\ phase = "startup" => Free(p)
  /\ phase' = IF phase = "startup" THEN "failed" ELSE phase
  /\ applied' = [s \in Servers |-> IF s \in todo THEN policy[s] ELSE applied[s]]
  /\ working' = None /\ todo' = {} /\ policy' = NoPolicy
  /\ available' = {} /\ pending' = {} /\ current' = {}
  /\ UNCHANGED <<envVars, tableVars, atStart>>

-----------------------------------------------------------------------------
(* The tables are stored. *)

\* Mutant of Stale: the difference the wrong way round.
StaleSwapped == available \ current

Stale == current \ available

\* Mutant of Forget: the entries of removed tools stay.
ForgetNothing == UNCHANGED metadata

Forget ==
  metadata' = [p \in ProxyNames |-> IF p \in Stale THEN "none" ELSE metadata[p]]

\* The stale tools go, the tables are stored and the next server is due.  At
\* startup nothing is stale.
FinishServer ==
  LET s == working IN
  /\ working # None /\ pending = {}
  /\ tools' = [p \in ProxyNames |-> IF p \in Stale THEN None ELSE tools[p]]
  /\ Forget
  /\ registered' = [registered EXCEPT ![s] = current \ Stale]
  /\ known' = known \cup {s}
  /\ applied' = [applied EXCEPT ![s] = policy[s]]
  /\ todo' = todo \ {s}
  /\ policy' = IF todo' = {} THEN NoPolicy ELSE policy
  /\ working' = None
  /\ available' = {} /\ current' = {}
  /\ UNCHANGED <<envVars, phase, blocked, pending, atStart>>

\* Startup fails if servers are enabled and not one tool was registered.
StartupEnds ==
  /\ phase = "startup" /\ todo = {}
  /\ phase' = IF listed # {} /\ \A p \in ProxyNames : tools[p] = None
              THEN "failed" ELSE "serving"
  /\ policy' = NoPolicy
  /\ atStart' = known
  /\ UNCHANGED <<envVars, tableVars, todo, working, available, pending, current,
                 applied>>

\* The refresh loop wakes and reads the files again.  A server that is no
\* longer listed is passed over with its tools as they are.
BeginPass ==
  /\ phase = "serving" /\ todo = {}
  /\ todo' = listed
  /\ policy' = blocklist
  /\ UNCHANGED <<envVars, phase, tableVars, working, available, pending, current,
                 historyVars>>

\* A relay whose startup failed is gone.
Exited == phase = "failed" /\ UNCHANGED vars

Next ==
  \/ \E s \in Servers : \E ns \in SUBSET Catalogue[s] : UpstreamChanges(s, ns)
  \/ \E s \in Servers : \E ns \in SUBSET Blockable[s] : EditBlocklist(s, ns)
  \/ \E L \in SUBSET Optional : EditServers(Servers \ L)
  \/ \E s \in Servers :
       StartServer(s) \/ SkipServer(s) \/ Refresh(s) \/ RefreshUnreachable(s)
  \/ \E p \in ProxyNames : AddTool(p) \/ SkipTaken(p) \/ BuildFails(p)
  \/ FinishServer \/ StartupEnds \/ BeginPass
  \/ Exited

Spec == Init /\ [][Next]_vars

RefresherStep ==
  \/ BeginPass \/ FinishServer
  \/ \E s \in Servers : Refresh(s) \/ RefreshUnreachable(s)
  \/ \E p \in ProxyNames : AddTool(p) \/ BuildFails(p)

\* The refresh loop, one task, keeps running.  That a discovery ends, which has no
\* timeout, and that a server which is asked again and again answers from time to
\* time are assumptions on the servers.
Fairness ==
  /\ WF_vars(RefresherStep)
  /\ \A s \in Servers : SF_vars(Refresh(s))

FairSpec == Spec /\ Fairness

-----------------------------------------------------------------------------

\* What _registered says of server s, or will say when its pass is over.
Claims(s) == IF s = working THEN current ELSE registered[s]

Buildable(s) == \A n \in Names : <<s, n>> \notin Bad

\* No tool of s can be lost by a pass that breaks: none of s breaks it, or
\* _registered has held the set that the pass extends since startup.
Tracked(s) == Buildable(s) \/ s \in atStart \/ (phase = "startup" /\ s = working)

\* The tables and FastMCP agree: a proxy name that a server claims is exposed
\* for that server, so two servers never claim the same name; and what is exposed
\* for a server is claimed by it, though passes break off half way.
TablesMatchTools ==
  phase # "failed" =>
  \A s \in Servers, p \in ProxyNames :
    /\ p \in Claims(s) => tools[p] = s
    /\ tools[p] = s /\ Tracked(s) => p \in Claims(s)

EnforcedOn(s) ==
  \A n \in applied[s] : s # working => tools[ProxyName(s, n)] # s

\* security_policies.yaml:6: the kill switch works from the next refresh on.  No
\* tool that the last pass over the file read to be blocked is exposed, whether
\* the pass came to an end or not.
BlocklistEnforced == \A s \in Servers : EnforcedOn(s)

\* No pass breaks before it is done with s: the tools of s and of all servers
\* before it in the file can be built.
Reached(s) ==
  \A i, j \in DOMAIN Config : Config[j] = s /\ i <= j => Buildable(Config[i])

\* The kill switch works so for a server that every pass reaches, whatever breaks
\* off the passes behind it, though servers come and go, names collide and
\* upstreams change or cannot be reached.  (One tool that cannot be built takes it
\* from its own server, see BlocklistEnforced, and from all that follow.)
BlocklistEnforcedWhereReached ==
  \A s \in Servers : Reached(s) => EnforcedOn(s)

\* GET /registry reads the description of an available tool from an entry that
\* several servers write: whatever was blocked, withdrawn or offered again, by
\* whichever server, an exposed tool has an entry and no entry with parameters
\* outlives its tool.
EntriesMatchTools ==
  \A p \in ProxyNames :
    /\ tools[p] # None => metadata[p] # "none"
    /\ metadata[p] = "full" => tools[p] # None

\* A pass that handles s cannot be broken: neither s nor a server before it
\* offers a tool that cannot be built and is not blocked.
Unbroken(s) ==
  \A i, j \in DOMAIN Config : Config[j] = s /\ i <= j =>
    \A n \in offers[Config[i]] \ blocklist[Config[i]] : <<Config[i], n>> \notin Bad

\* README.md:612: "When a new tool appears upstream it is registered
\* automatically ... when a tool disappears it is unregistered".  For a server
\* that stays in the configuration, the servers added at run time included,
\* and passes that are not broken: a tool that is offered and not blocked for
\* good comes to be exposed, unless another server has its name; one that is
\* withdrawn or blocked for good does not stay exposed.
ToolsFollowUpstream ==
  \A s \in Servers : \A n \in Catalogue[s] :
    LET unsettled == phase # "serving" \/ s \notin listed \/ ~Unbroken(s)
        holder == tools[ProxyName(s, n)] IN
    /\ []<>(unsettled \/ holder # None \/ n \notin offers[s] \/ n \in blocklist[s])
    /\ []<>(unsettled \/ ~Tracked(s) \/ holder # s \/ n \in offers[s])
    /\ []<>(unsettled \/ ~Tracked(s) \/ holder # s \/ n \notin blocklist[s])
=============================================================================

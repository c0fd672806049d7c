--------------------------- MODULE ToolRegistryProofs ---------------------------
(****************************************************************************)
(* The tables of the registry for any servers, tools, prefixes and          *)
(* blocklists, whatever passes break off: they agree with what is exposed,  *)
(* every exposed tool has its entry, and a blocked tool is not exposed for  *)
(* a server whose tools can be built.                                       *)
(****************************************************************************)
EXTENDS ToolRegistry, TLAPS

\* The proxy names of a server's tools are proxy names.
LEMMA ProxyLemma ==
  ASSUME NEW s \in Servers, NEW ns \in SUBSET Names
  PROVE  Proxies(s, ns) \subseteq ProxyNames
BY DEF Proxies, ProxyNames

\* Under one prefix different tools keep different names.
LEMMA ProxyInjective ==
  ASSUME NEW s \in Servers, NEW m \in Names, NEW n \in Names,
         ProxyName(s, m) = ProxyName(s, n)
  PROVE  m = n
BY DEF ProxyName

\* What taking up a server, at startup or in a refresh, has in common.
LEMMA TakeUpLemma ==
  ASSUME TypeOK, NEW s \in Servers, StartServer(s) \/ Refresh(s) \/ RefreshUnreachable(s)
  PROVE  \E found \in SUBSET Names :
           /\ working = None /\ s \in todo /\ working' = s
           /\ available' = Proxies(s, found \ policy[s])
           /\ available' \subseteq ProxyNames
           /\ metadata' \in [ProxyNames -> {"none", "description", "full"}]
           /\ \A p \in ProxyNames :
                metadata'[p] = metadata[p] \/ metadata'[p] = "description"
           /\ blocked' \in [Servers -> SUBSET ProxyNames]
           /\ UNCHANGED <<envVars, phase, tools, registered, known, todo, policy,
                          historyVars>>
           /\ pending' \subseteq available'
           /\ \/ phase = "startup" /\ current' = {}
              \/ phase = "serving" /\ current' = registered[s]
<1>1. PICK found \in SUBSET Names :
        /\ TakeUp(s, found) /\ pending' \subseteq available'
        /\ \/ phase = "startup" /\ current' = {}
           \/ phase = "serving" /\ current' = registered[s]
  <2>1. offers[s] \in SUBSET Names /\ {} \in SUBSET Names
    BY DEF TypeOK
  <2>. QED
    BY <2>1 DEF StartServer, Refresh, RefreshUnreachable, RefreshServer, Unseen
<1>. DEFINE stopped == Proxies(s, found \cap policy[s])
<1>2. /\ stopped \in SUBSET ProxyNames
      /\ Proxies(s, found \ policy[s]) \subseteq ProxyNames
  BY ProxyLemma
<1>3. /\ metadata' = [p \in ProxyNames |-> IF p \in stopped THEN "description"
                                           ELSE metadata[p]]
      /\ blocked' = [blocked EXCEPT ![s] = stopped]
      /\ available' = Proxies(s, found \ policy[s])
      /\ working = None /\ s \in todo /\ working' = s
      /\ UNCHANGED <<envVars, phase, tools, registered, known, todo, policy,
                     historyVars>>
  BY <1>1 DEF TakeUp, Due, Allowed
<1>. HIDE DEF stopped
<1>4. /\ metadata' \in [ProxyNames -> {"none", "description", "full"}]
      /\ \A p \in ProxyNames :
           metadata'[p] = metadata[p] \/ metadata'[p] = "description"
      /\ blocked' \in [Servers -> SUBSET ProxyNames]
  BY <1>2, <1>3 DEF TypeOK
<1>. QED  BY <1>1, <1>2, <1>3, <1>4

\* Every step keeps the types.
LEMMA TypeStep == TypeOK /\ [Next]_vars => TypeOK'
<1> SUFFICES ASSUME TypeOK, [Next]_vars
             PROVE  TypeOK'
  OBVIOUS
<1>1. ASSUME NEW s \in Servers,
             StartServer(s) \/ Refresh(s) \/ RefreshUnreachable(s)
      PROVE  TypeOK'
  <2>1. current' \subseteq ProxyNames
    <3>1. current' = {} \/ current' = registered[s]
      BY <1>1, TakeUpLemma
    <3>. QED  BY <3>1 DEF TypeOK
  <2>. QED  BY <1>1, <2>1, TakeUpLemma DEF TypeOK, envVars, historyVars
<1>2. ASSUME NEW s \in Servers, NEW ns \in SUBSET Catalogue[s],
             UpstreamChanges(s, ns)
      PROVE  TypeOK'
  BY <1>2, CatalogueAssumption
  DEF UpstreamChanges, TypeOK, tableVars, passVars, historyVars
<1>3. ASSUME NEW s \in Servers, NEW ns \in SUBSET Blockable[s],
             EditBlocklist(s, ns)
      PROVE  TypeOK'
  BY <1>3, BlockableAssumption
  DEF EditBlocklist, TypeOK, tableVars, passVars, historyVars
<1>4. ASSUME NEW L \in SUBSET Optional, EditServers(Servers \ L)
      PROVE  TypeOK'
  BY <1>4 DEF EditServers, TypeOK, tableVars, passVars, historyVars
<1>5. ASSUME NEW s \in Servers, SkipServer(s)
      PROVE  TypeOK'
  BY <1>5 DEF SkipServer, TypeOK, envVars, tableVars, historyVars
<1>6. ASSUME NEW p \in ProxyNames, AddTool(p)
      PROVE  TypeOK'
  <2>1. tools' \in [ProxyNames -> Servers \cup {None}]
    BY <1>6 DEF AddTool, Expose, TypeOK
  <2>2. metadata' \in [ProxyNames -> {"none", "description", "full"}]
    BY <1>6 DEF AddTool, Expose, Describe, TypeOK
  <2>3. current' \subseteq ProxyNames
    BY <1>6 DEF AddTool, Expose, TypeOK
  <2>4. registered' \in [Servers -> SUBSET ProxyNames]
    BY <1>6, <2>3 DEF AddTool, Share, TypeOK
  <2>. QED
    BY <1>6, <2>1, <2>2, <2>3, <2>4 DEF AddTool, TypeOK, envVars, historyVars
<1>7. ASSUME NEW p \in ProxyNames, SkipTaken(p)
      PROVE  TypeOK'
  BY <1>7 DEF SkipTaken, TypeOK, envVars, tableVars, historyVars
<1>8. ASSUME NEW p \in ProxyNames, BuildFails(p)
      PROVE  TypeOK'
  <2>1. applied' \in [Servers -> SUBSET Names] /\ policy' \in [Servers -> SUBSET Names]
    BY <1>8 DEF BuildFails, NoPolicy, TypeOK
  <2>. QED  BY <1>8, <2>1 DEF BuildFails, TypeOK, envVars, tableVars
<1>9. CASE FinishServer
  <2>1. working \in Servers
    BY <1>9 DEF FinishServer, TypeOK
  <2>2. /\ tools' \in [ProxyNames -> Servers \cup {None}]
        /\ metadata' \in [ProxyNames -> {"none", "description", "full"}]
    BY <1>9 DEF FinishServer, Forget, TypeOK
  <2>3. registered' \in [Servers -> SUBSET ProxyNames]
    BY <1>9, <2>1 DEF FinishServer, TypeOK
  <2>4. applied' \in [Servers -> SUBSET Names] /\ policy' \in [Servers -> SUBSET Names]
    BY <1>9, <2>1 DEF FinishServer, NoPolicy, TypeOK
  <2>. QED
    BY <1>9, <2>1, <2>2, <2>3, <2>4 DEF FinishServer, TypeOK, envVars
<1>10. CASE StartupEnds \/ BeginPass
  BY <1>10 DEF StartupEnds, BeginPass, NoPolicy, TypeOK, envVars, tableVars, historyVars
<1>11. CASE UNCHANGED vars
  BY <1>11 DEF TypeOK, vars, envVars, tableVars, passVars, historyVars
<1>. QED
  BY <1>1, <1>2, <1>3, <1>4, <1>5, <1>6, <1>7, <1>8, <1>9, <1>10, <1>11
  DEF Next, Exited

\* The tables keep their types, whatever is offered, blocked or listed.
THEOREM TypeCorrect == Spec => []TypeOK
<1>1. Init => TypeOK
  BY DEF Init, Within, TypeOK
<1>. QED  BY <1>1, TypeStep, PTL DEF Spec
-----------------------------------------------------------------------------

\* What a pass knows of the server it is handling: it is still to do; at
\* startup it is new; afterwards `current` is what _registered holds for it,
\* the same object if the server is known.
PassInv ==
  /\ working # None => working \in todo /\ phase # "failed"
  /\ phase = "startup" => todo \cap known = {}
  /\ phase = "serving" /\ working \in known => current = registered[working]
  /\ \A s \in Servers \ known : registered[s] = {}
  /\ atStart \subseteq known
  /\ working = None => pending = {}

\* Ownership of names.  At startup nothing has been lost yet, from any server.
TablesInv ==
  phase # "failed" =>
  \A s \in Servers, p \in ProxyNames :
    /\ p \in Claims(s) => tools[p] = s
    /\ tools[p] = s /\ (Tracked(s) \/ phase = "startup") => p \in Claims(s)

\* Every step keeps what a pass knows.
LEMMA PassStep == TypeOK /\ PassInv /\ [Next]_vars => PassInv'
<1> SUFFICES ASSUME TypeOK, PassInv, [Next]_vars
             PROVE  PassInv'
  OBVIOUS
<1>1. ASSUME NEW s \in Servers,
             StartServer(s) \/ Refresh(s) \/ RefreshUnreachable(s)
      PROVE  PassInv'
  <2>1. /\ working = None /\ s \in todo /\ working' = s
        /\ UNCHANGED <<phase, registered, known, todo, atStart>>
        /\ \/ phase = "startup" /\ current' = {}
           \/ phase = "serving" /\ current' = registered[s]
    BY <1>1, TakeUpLemma DEF historyVars
  <2>. QED  BY <2>1, NoneAssumption DEF PassInv
<1>2. CASE UNCHANGED <<phase, registered, known, passVars, atStart>>
  BY <1>2 DEF PassInv, passVars
<1>3. ASSUME NEW s \in Servers, SkipServer(s)
      PROVE  PassInv'
  BY <1>3, NoneAssumption DEF SkipServer, Due, PassInv, tableVars, historyVars
<1>4. ASSUME NEW p \in ProxyNames, AddTool(p)
      PROVE  PassInv'
  <2>1. /\ UNCHANGED <<phase, known, todo, working, atStart>> /\ p \in pending
        /\ registered' = IF phase = "serving" /\ working \in known
                         THEN [registered EXCEPT ![working] = current']
                         ELSE registered
    BY <1>4 DEF AddTool, Share, historyVars
  <2>. QED  BY <2>1 DEF PassInv, TypeOK
<1>5. ASSUME NEW p \in ProxyNames, SkipTaken(p) \/ BuildFails(p)
      PROVE  PassInv'
  <2>1. None \notin known /\ None \notin Servers
    BY NoneAssumption DEF TypeOK
  <2>2. CASE SkipTaken(p)
    BY <2>2 DEF SkipTaken, PassInv, tableVars, historyVars
  <2>3. CASE BuildFails(p)
    BY <2>1, <2>3 DEF BuildFails, PassInv, tableVars
  <2>. QED  BY <1>5, <2>2, <2>3
<1>6. CASE FinishServer
  <2>1. /\ working \in Servers /\ working' = None
        /\ known' = known \cup {working} /\ todo' = todo \ {working}
        /\ registered' = [registered EXCEPT ![working] = current \ Stale]
        /\ UNCHANGED <<phase, pending, atStart>> /\ pending = {}
    BY <1>6 DEF FinishServer, TypeOK
  <2>. QED  BY <2>1, NoneAssumption DEF PassInv, TypeOK
<1>7. CASE StartupEnds
  BY <1>7, NoneAssumption DEF StartupEnds, PassInv, tableVars, TypeOK
<1>8. CASE BeginPass
  BY <1>8, NoneAssumption DEF BeginPass, PassInv, tableVars, historyVars, TypeOK
<1>. QED
  BY <1>1, <1>2, <1>3, <1>4, <1>5, <1>6, <1>7, <1>8
  DEF Next, Exited, UpstreamChanges, EditBlocklist, EditServers, vars,
      tableVars, passVars, historyVars
\* Every step keeps the ownership of names.
LEMMA TablesStep ==
  TypeOK /\ PassInv /\ TablesInv /\ [Next]_vars => TablesInv'
<1> SUFFICES ASSUME TypeOK, PassInv, TablesInv, [Next]_vars
             PROVE  TablesInv'
  OBVIOUS
<1>n. None \notin Servers
  BY NoneAssumption
<1>0. ASSUME UNCHANGED <<tools, phase, atStart>>,
             phase # "failed" => \A s \in Servers : Claims(s)' = Claims(s)
      PROVE  TablesInv'
  <2>. SUFFICES ASSUME phase # "failed", NEW s \in Servers, NEW p \in ProxyNames
                PROVE  /\ p \in Claims(s)' => tools[p] = s
                       /\ /\ tools[p] = s /\ (Tracked(s)' \/ phase = "startup")
                          => p \in Claims(s)'
    BY <1>0 DEF TablesInv
  <2>1. Claims(s)' = Claims(s)
    BY <1>0
  <2>2. Tracked(s)' \/ phase = "startup" => Tracked(s) \/ phase = "startup"
    BY <1>0 DEF Tracked, Buildable
  <2>. QED  BY <2>1, <2>2 DEF TablesInv
<1>1. ASSUME NEW s \in Servers,
             StartServer(s) \/ Refresh(s) \/ RefreshUnreachable(s)
      PROVE  TablesInv'
  <2>1. /\ working = None /\ s \in todo /\ working' = s
        /\ UNCHANGED <<phase, tools, registered, known, atStart>>
        /\ \/ phase = "startup" /\ current' = {}
           \/ phase = "serving" /\ current' = registered[s]
    BY <1>1, TakeUpLemma DEF historyVars
  <2>2. current' = registered[s]
    BY <2>1 DEF PassInv
  <2>3. \A t \in Servers : Claims(t)' = Claims(t)
    BY <2>1, <2>2, <1>n DEF Claims
  <2>. QED  BY <1>0, <2>1, <2>3
<1>2. CASE UNCHANGED <<tools, phase, atStart, working, current, registered>>
  BY <1>0, <1>2 DEF Claims
<1>3. ASSUME NEW p \in ProxyNames, AddTool(p)
      PROVE  TablesInv'
  <2>1. /\ phase = "startup" => Free(p)
        /\ IF Free(p) THEN Expose(p) ELSE UNCHANGED <<tools, metadata, current>>
        /\ UNCHANGED <<phase, known, working, atStart>> /\ p \in pending
        /\ registered' = IF phase = "serving" /\ working \in known
                         THEN [registered EXCEPT ![working] = current']
                         ELSE registered
    BY <1>3 DEF AddTool, Share, historyVars
  <2>w. PICK w \in Servers : w = working
    BY <2>1 DEF PassInv, TypeOK
  <2>2. \A t \in Servers \ {w} : Claims(t)' = Claims(t)
    BY <2>1, <2>w DEF Claims, TypeOK
  <2>3. CASE ~Free(p)
    <3>1. phase # "failed" => \A t \in Servers : Claims(t)' = Claims(t)
      BY <2>1, <2>w, <2>2, <2>3 DEF Claims
    <3>. QED  BY <1>0, <2>1, <2>3, <3>1
  <2>4. CASE Free(p)
    <3>1. /\ tools' = [tools EXCEPT ![p] = w] /\ tools[p] = None
          /\ Claims(w) = current /\ Claims(w)' = current \cup {p}
      BY <2>1, <2>w, <2>4 DEF Expose, Free, Claims
    <3>. SUFFICES ASSUME phase # "failed", NEW s \in Servers, NEW q \in ProxyNames
                  PROVE  /\ q \in Claims(s)' => tools'[q] = s
                         /\ /\ tools'[q] = s /\ (Tracked(s)' \/ phase = "startup")
                            => q \in Claims(s)'
      BY <2>1 DEF TablesInv
    <3>2. /\ q \in Claims(s) => tools[q] = s
          /\ tools[q] = s /\ (Tracked(s) \/ phase = "startup") => q \in Claims(s)
      BY DEF TablesInv
    <3>3. Tracked(s)' = Tracked(s)
      BY <2>1 DEF Tracked, Buildable
    <3>. tools'[q] = IF q = p THEN w ELSE tools[q]
      BY <3>1 DEF TypeOK
    <3>. Claims(s)' = IF s = w THEN Claims(s) \cup {p} ELSE Claims(s)
      BY <2>2, <3>1
    <3>4. CASE q = p
      BY <1>n, <3>1, <3>2, <3>4
    <3>5. CASE q # p
      BY <3>2, <3>3, <3>5
    <3>. QED  BY <3>4, <3>5
  <2>. QED  BY <2>3, <2>4
<1>4. ASSUME NEW p \in ProxyNames, BuildFails(p)
      PROVE  TablesInv'
  <2>1. /\ p \in pending /\ <<working, p[2]>> \in Bad
        /\ phase' = IF phase = "startup" THEN "failed" ELSE phase
        /\ working' = None /\ UNCHANGED <<tools, registered, known, atStart>>
    BY <1>4 DEF BuildFails, tableVars
  <2>2. working \in Servers /\ ~Buildable(working)
    <3>1. working \in Servers
      BY <2>1 DEF PassInv, TypeOK
    <3>2. p[2] \in Names
      BY DEF ProxyNames, ProxyName
    <3>. QED  BY <2>1, <3>1, <3>2 DEF Buildable
  <2>. SUFFICES ASSUME phase = "serving", NEW s \in Servers, NEW q \in ProxyNames
                PROVE  /\ q \in Claims(s)' => tools[q] = s
                       /\ tools[q] = s /\ Tracked(s)' => q \in Claims(s)'
    BY <2>1 DEF TablesInv, TypeOK
  <2>3. Claims(s)' = registered[s]
    BY <1>n, <2>1 DEF Claims
  <2>4. CASE s # working
    <3>1. Claims(s) = registered[s] /\ (Tracked(s)' => Tracked(s))
      BY <2>1, <2>4 DEF Claims, Tracked, Buildable
    <3>. QED  BY <2>3, <3>1 DEF TablesInv
  <2>5. CASE s = working /\ working \in known
    <3>1. Claims(s) = registered[s] /\ (Tracked(s)' => Tracked(s))
      BY <2>1, <2>5 DEF Claims, Tracked, Buildable, PassInv
    <3>. QED  BY <2>3, <3>1 DEF TablesInv
  <2>6. CASE s = working /\ working \notin known
    <3>1. registered[s] = {} /\ ~Tracked(s)'
      BY <2>1, <2>2, <2>6 DEF Tracked, Buildable, PassInv
    <3>. QED  BY <2>3, <3>1
  <2>. QED  BY <2>4, <2>5, <2>6
<1>5. CASE FinishServer
  <2>w. PICK w \in Servers : w = working
    BY <1>5 DEF FinishServer, TypeOK
  <2>1. /\ working' = None
        /\ tools' = [p \in ProxyNames |-> IF p \in Stale THEN None ELSE tools[p]]
        /\ registered' = [registered EXCEPT ![w] = current \ Stale]
        /\ UNCHANGED <<phase, atStart>>
    BY <1>5, <2>w DEF FinishServer
  <2>2. /\ Claims(w) = current /\ Claims(w)' = current \ Stale
        /\ \A s \in Servers \ {w} : Claims(s)' = Claims(s)
    BY <1>n, <2>w, <2>1 DEF Claims, TypeOK
  <2>. SUFFICES ASSUME phase # "failed", NEW s \in Servers, NEW q \in ProxyNames
                PROVE  /\ q \in Claims(s)' => tools'[q] = s
                       /\ /\ tools'[q] = s /\ (Tracked(s)' \/ phase = "startup")
                          => q \in Claims(s)'
    BY <2>1 DEF TablesInv
  <2>3. /\ q \in Claims(s) => tools[q] = s
        /\ tools[q] = s /\ (Tracked(s) \/ phase = "startup") => q \in Claims(s)
        /\ q \in current => tools[q] = w
        /\ q \in Stale => q \in current
    BY <2>1, <2>2 DEF TablesInv, Stale
  <2>4. Tracked(s)' \/ phase = "startup" => Tracked(s) \/ phase = "startup"
    BY <2>1 DEF Tracked, Buildable
  <2>5. tools'[q] = IF q \in Stale THEN None ELSE tools[q]
    BY <2>1
  <2>6. CASE s = w
    BY <1>n, <2>2, <2>3, <2>4, <2>5, <2>6
  <2>7. CASE s # w
    BY <1>n, <2>2, <2>3, <2>4, <2>5, <2>7
  <2>. QED  BY <2>6, <2>7
<1>6. CASE StartupEnds
  <2>1. /\ phase = "startup" /\ phase' \in {"failed", "serving"}
        /\ UNCHANGED <<tools, registered, current, working>>
    BY <1>6 DEF StartupEnds, tableVars
  <2>2. \A s \in Servers : Claims(s)' = Claims(s)
    BY <2>1 DEF Claims
  <2>. QED  BY <2>1, <2>2 DEF TablesInv
<1>. QED
  BY <1>1, <1>2, <1>3, <1>4, <1>5, <1>6
  DEF Next, Exited, UpstreamChanges, EditBlocklist, EditServers, SkipServer,
      SkipTaken, BeginPass, vars, tableVars, passVars, historyVars

\* _registered, the set a pass works on and FastMCP agree: two servers never
\* claim one name, and what is exposed for a server is claimed by it, whatever
\* passes break off half way.
THEOREM TablesAgree == Spec => []TablesMatchTools
<1>1. Init => PassInv /\ TablesInv
  BY NoneAssumption DEF Init, PassInv, TablesInv, Claims
<1>2. TablesInv => TablesMatchTools
  BY DEF TablesInv, TablesMatchTools
<1>. QED
  BY <1>1, <1>2, TypeCorrect, TypeStep, PassStep, TablesStep, PTL DEF Spec
-----------------------------------------------------------------------------

\* Every step keeps an entry for each exposed tool and no full entry for
\* another.
LEMMA EntriesStep ==
  TypeOK /\ PassInv /\ EntriesMatchTools /\ [Next]_vars => EntriesMatchTools'
<1> SUFFICES ASSUME TypeOK, PassInv, EntriesMatchTools, [Next]_vars
             PROVE  EntriesMatchTools'
  OBVIOUS
<1>1. ASSUME NEW s \in Servers,
             StartServer(s) \/ Refresh(s) \/ RefreshUnreachable(s)
      PROVE  EntriesMatchTools'
  <2>1. /\ tools' = tools
        /\ \A p \in ProxyNames :
             metadata'[p] = metadata[p] \/ metadata'[p] = "description"
    BY <1>1, TakeUpLemma
  <2>. QED  BY <2>1 DEF EntriesMatchTools
<1>2. CASE UNCHANGED <<tools, metadata>>
  BY <1>2 DEF EntriesMatchTools
<1>3. ASSUME NEW p \in ProxyNames, AddTool(p)
      PROVE  EntriesMatchTools'
  <2>1. CASE Free(p)
    <3>1. /\ tools' = [tools EXCEPT ![p] = working]
          /\ metadata' = [metadata EXCEPT ![p] = "full"]
          /\ working # None
      BY <1>3, <2>1 DEF AddTool, Expose, Describe, PassInv
    <3>. QED  BY <3>1 DEF EntriesMatchTools, TypeOK
  <2>2. CASE ~Free(p)
    BY <1>2, <1>3, <2>2 DEF AddTool
  <2>. QED  BY <2>1, <2>2
<1>4. CASE FinishServer
  BY <1>4 DEF FinishServer, Forget, EntriesMatchTools
<1>. QED
  BY <1>1, <1>2, <1>3, <1>4
  DEF Next, Exited, UpstreamChanges, EditBlocklist, EditServers, SkipServer,
      SkipTaken, BuildFails, StartupEnds, BeginPass, vars, tableVars

\* GET /registry finds an entry for every exposed tool, and no entry with
\* parameters outlives its tool.
THEOREM EntriesAgree == Spec => []EntriesMatchTools
<1>1. Init => PassInv /\ EntriesMatchTools
  BY NoneAssumption DEF Init, PassInv, EntriesMatchTools
<1>. QED
  BY <1>1, TypeCorrect, PassStep, EntriesStep, PTL DEF Spec

-----------------------------------------------------------------------------

\* Nothing that the pass's blocklist names is among the tools it may expose, and
\* the server it is at is the first of those left.
PolicyInv ==
  working # None =>
    /\ \A n \in policy[working] : ProxyName(working, n) \notin available
    /\ \A i, j \in DOMAIN Config :
         Config[i] = working /\ Config[j] \in todo => i <= j

\* The places in the file are numbers.
LEMMA Places == DOMAIN Config \subseteq Nat
BY ConfigAssumption

LEMMA ReachedBuilds ==
  ASSUME NEW s \in Servers, Reached(s)
  PROVE  Buildable(s)
<1>1. PICK j \in DOMAIN Config : Config[j] = s
  BY DEF Servers
<1>2. j <= j
  BY <1>1, Places
<1>. QED  BY <1>1, <1>2 DEF Reached

\* Every step keeps the blocklist enforced where every pass comes.
LEMMA BlocklistStep ==
  /\ TypeOK /\ PassInv /\ TablesInv
  /\ PolicyInv /\ BlocklistEnforcedWhereReached /\ [Next]_vars
  => PolicyInv' /\ BlocklistEnforcedWhereReached'
<1> SUFFICES ASSUME TypeOK, PassInv, TablesInv, PolicyInv,
                    BlocklistEnforcedWhereReached, [Next]_vars
             PROVE  PolicyInv' /\ BlocklistEnforcedWhereReached'
  OBVIOUS
<1>n. None \notin Servers /\ \A s \in Servers : applied[s] \subseteq Names
  BY NoneAssumption DEF TypeOK
<1>e. \A s \in Servers, n \in Names :
        Reached(s) /\ n \in applied[s] /\ s # working => tools[ProxyName(s, n)] # s
  BY DEF BlocklistEnforcedWhereReached, EnforcedOn
<1>1. ASSUME NEW s \in Servers,
             StartServer(s) \/ Refresh(s) \/ RefreshUnreachable(s)
      PROVE  PolicyInv' /\ BlocklistEnforcedWhereReached'
  <2>1. PICK found \in SUBSET Names :
          /\ working = None /\ working' = s
          /\ available' = Proxies(s, found \ policy[s])
          /\ UNCHANGED <<tools, policy, applied, todo>>
    BY <1>1, TakeUpLemma DEF historyVars
  <2>0. Due(s)
    BY <1>1 DEF StartServer, Refresh, RefreshUnreachable, RefreshServer, TakeUp
  <2>5. \A i, j \in DOMAIN Config : Config[i] = s /\ Config[j] \in todo => i <= j
    <3>1. PICK k \in DOMAIN Config : Config[k] = s /\ \A j \in 1..(k - 1) : Config[j] \notin todo
      BY <2>0 DEF Due
    <3>2. ASSUME NEW i \in DOMAIN Config, NEW j \in DOMAIN Config,
                 Config[i] = s, Config[j] \in todo
          PROVE  i <= j
      <4>1. i = k
        BY <3>1, <3>2, ConfigAssumption
      <4>2. j \in Nat /\ k \in Nat /\ j >= 1
        BY ConfigAssumption
      <4>3. j \notin 1..(k - 1)
        BY <3>1, <3>2
      <4>. QED  BY <4>1, <4>2, <4>3
    <3>. QED  BY <3>2
  <2>2. ASSUME NEW n \in policy[s]
        PROVE  ProxyName(s, n) \notin Proxies(s, found \ policy[s])
    <3>1. n \in Names
      BY DEF TypeOK
    <3>. QED  BY <3>1, ProxyInjective DEF Proxies
  <2>3. PolicyInv'
    BY <2>1, <2>2, <2>5 DEF PolicyInv, ProxyName
  <2>4. BlocklistEnforcedWhereReached'
    BY <1>n, <2>1 DEF BlocklistEnforcedWhereReached, EnforcedOn, Reached, Buildable, ProxyName
  <2>. QED  BY <2>3, <2>4
<1>2. CASE UNCHANGED <<tools, working, policy, available, applied, todo>>
  BY <1>2
  DEF PolicyInv, BlocklistEnforcedWhereReached, EnforcedOn, Reached, Buildable, ProxyName
<1>3. ASSUME NEW p \in ProxyNames, AddTool(p)
      PROVE  PolicyInv' /\ BlocklistEnforcedWhereReached'
  <2>1. /\ UNCHANGED <<working, policy, available, applied, todo>>
        /\ \A q \in ProxyNames : tools'[q] = tools[q] \/ tools'[q] = working
    BY <1>3 DEF AddTool, Expose, historyVars, TypeOK
  <2>2. PolicyInv'
    BY <2>1 DEF PolicyInv, ProxyName
  <2>3. BlocklistEnforcedWhereReached'
    <3>. SUFFICES ASSUME NEW s \in Servers, Reached(s), NEW n \in applied[s],
                         s # working
                  PROVE  tools'[ProxyName(s, n)] # s
      BY <2>1 DEF BlocklistEnforcedWhereReached, EnforcedOn, Reached, Buildable, ProxyName
    <3>1. n \in Names /\ ProxyName(s, n) \in ProxyNames
      BY <1>n DEF ProxyNames
    <3>. QED  BY <1>e, <2>1, <3>1
  <2>. QED  BY <2>2, <2>3
<1>4. ASSUME NEW p \in ProxyNames, BuildFails(p)
      PROVE  PolicyInv' /\ BlocklistEnforcedWhereReached'
  <2>w. PICK w \in Servers : w = working /\ ~Buildable(w)
    <3>1. working \in Servers /\ <<working, p[2]>> \in Bad /\ p[2] \in Names
      BY <1>4 DEF BuildFails, PassInv, TypeOK, ProxyNames, ProxyName
    <3>. QED  BY <3>1 DEF Buildable
  <2>1. /\ working' = None /\ tools' = tools
        /\ \A s \in Servers : s \notin todo => applied'[s] = applied[s]
    BY <1>4 DEF BuildFails, tableVars
  <2>2. PolicyInv'
    BY <2>1 DEF PolicyInv
  <2>3. ASSUME NEW s \in Servers, Reached(s)
        PROVE  s \notin todo /\ s # working
    <3>1. PICK i \in DOMAIN Config : Config[i] = w
      BY DEF Servers
    <3>2. PICK j \in DOMAIN Config : Config[j] = s
      BY DEF Servers
    <3>3. ~(i <= j)
      BY <2>w, <2>3, <3>1, <3>2 DEF Reached
    <3>4. s \notin todo
      BY <1>n, <2>w, <3>1, <3>2, <3>3 DEF PolicyInv
    <3>. QED  BY <2>w, <2>3, <3>4, ReachedBuilds
  <2>4. ASSUME NEW s \in Servers, Reached(s), NEW n \in applied'[s]
        PROVE  tools'[ProxyName(s, n)] # s
    <3>1. n \in applied[s] /\ n \in Names
      BY <1>n, <2>1, <2>3, <2>4
    <3>. QED  BY <1>e, <2>1, <2>3, <2>4, <3>1
  <2>5. BlocklistEnforcedWhereReached'
    BY <2>4 DEF BlocklistEnforcedWhereReached, EnforcedOn, Reached, Buildable, ProxyName
  <2>. QED  BY <2>2, <2>5
<1>5. CASE FinishServer
  <2>w. PICK w \in Servers : w = working
    BY <1>5 DEF FinishServer, TypeOK
  <2>1. /\ working' = None /\ phase # "failed"
        /\ tools' = [p \in ProxyNames |-> IF p \in Stale THEN None ELSE tools[p]]
        /\ applied' = [applied EXCEPT ![w] = policy[w]]
    BY <1>5, <2>w DEF FinishServer, PassInv
  <2>2. PolicyInv'
    BY <2>1 DEF PolicyInv
  <2>3. ASSUME NEW s \in Servers, Reached(s), NEW n \in applied'[s]
        PROVE  tools'[ProxyName(s, n)] # s
    <3>1. n \in Names
      BY <1>n, <2>1 DEF TypeOK
    <3>2. PICK q \in ProxyNames : q = ProxyName(s, n)
      BY <3>1 DEF ProxyNames
    <3>3. tools'[q] = IF q \in Stale THEN None ELSE tools[q]
      BY <2>1
    <3>4. CASE s # w
      <4>1. tools[q] # s
        BY <1>e, <2>w, <2>1, <2>3, <3>1, <3>2, <3>4 DEF TypeOK
      <4>. QED  BY <1>n, <3>2, <3>3, <4>1
    <3>5. CASE s = w
      <4>1. n \in policy[w]
        BY <2>1, <3>5 DEF TypeOK
      <4>2. q \notin available
        BY <1>n, <2>w, <3>2, <3>5, <4>1 DEF PolicyInv
      <4>3. tools[q] = s => q \in current
        BY <2>w, <2>1, <2>3, <3>5, ReachedBuilds DEF TablesInv, Claims, Tracked
      <4>. QED  BY <1>n, <3>2, <3>3, <4>2, <4>3 DEF Stale
    <3>. QED  BY <3>4, <3>5
  <2>4. BlocklistEnforcedWhereReached'
    BY <2>3 DEF BlocklistEnforcedWhereReached, EnforcedOn, Reached, Buildable, ProxyName
  <2>. QED  BY <2>2, <2>4
<1>6. CASE StartupEnds \/ BeginPass \/ \E s \in Servers : SkipServer(s)
  <2>1. UNCHANGED <<tools, working, available, applied>> /\ working = None
    BY <1>6 DEF StartupEnds, BeginPass, SkipServer, Due, tableVars, historyVars, PassInv
  <2>. QED
    BY <2>1
    DEF PolicyInv, BlocklistEnforcedWhereReached, EnforcedOn, Reached, Buildable, ProxyName
<1>. QED
  BY <1>1, <1>2, <1>3, <1>4, <1>5, <1>6
  DEF Next, Exited, UpstreamChanges, EditBlocklist, EditServers,
      SkipTaken, vars, tableVars, passVars, historyVars

\* The kill switch, for any order of the servers in the file: for a server that
\* no tool that cannot be built keeps a pass from, its own or one of a server
\* before it, no tool is exposed that the last pass over it read to be blocked.
THEOREM BlocklistHolds == Spec => []BlocklistEnforcedWhereReached
<1>1. Init => /\ PassInv /\ TablesInv /\ PolicyInv
              /\ BlocklistEnforcedWhereReached
  BY NoneAssumption
  DEF Init, PassInv, TablesInv, Claims, PolicyInv, BlocklistEnforcedWhereReached,
      EnforcedOn
<1>. QED
  BY <1>1, TypeCorrect, PassStep, TablesStep, BlocklistStep, PTL DEF Spec
=============================================================================

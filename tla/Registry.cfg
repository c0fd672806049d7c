SPECIFICATION FairSpec
CONSTANTS
  s1 = s1
  s2 = s2
  n1 = n1
  n2 = n2
  Config <- TwoServers
  Names = {n1, n2}
  Catalogue <- SharedName
  Blockable <- FirstBlockable
  Optional = {s2}
  Prefixed = {}
  Bad <- SecondBad
  None = None
INVARIANTS
  TypeOK
  TablesMatchTools
  EntriesMatchTools
  BlocklistEnforcedWhereReached
PROPERTIES
  ToolsFollowUpstream

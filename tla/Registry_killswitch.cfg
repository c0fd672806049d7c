SPECIFICATION Spec
CONSTANTS
  s1 = s1
  s2 = s2
  n1 = n1
  n2 = n2
  Config <- OneServer
  Names = {n1, n2}
  Catalogue <- OneCatalogue
  Blockable <- OneCatalogue
  Optional = {}
  Prefixed = {}
  Bad <- OneBad
  None = None
INVARIANTS
  BlocklistEnforced

SPECIFICATION Spec
CONSTANTS
  Calls = {c1, c2}
  N = 3
  ShortSlice = 6
  Strings <- MCStrings
  Prefixes <- MCPrefixes
  Sought <- MCSought
  PrefixOf <- MCPrefixOf
  None = None
SYMMETRY MCSymmetry
INVARIANTS
  TypeOK
  NoSliceRace
  TakesLongest

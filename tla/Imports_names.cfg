SPECIFICATION Spec
CONSTANTS
  Paths <- MCPaths
  BaseImports <- MCBaseImports
  Bases <- MCBases
  Names <- MCNames
  Base <- MCBase
  Numbered <- MCNumbered
INVARIANTS
  TypeOK
  SameBaseApart
\* A file is printed and that is all.
CHECK_DEADLOCK FALSE

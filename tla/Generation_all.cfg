SPECIFICATION Spec
CONSTANTS
  Nodes <- MCNodes
  Broken = Broken
  NoOne = NoOne
  Docs <- MCAllDocs
  RootLists <- MCRootPairs
  NumRoots = 2
  Ids <- MCIds
  Paths = {"", "p", "q"}
  Deps <- MCDeps
INVARIANTS
  TypeOK
  NoDanglingType
  RequiredIsChecked
  OneOfIsDecidable
  
PROPERTY ImplementsCrawl

SPECIFICATION Spec
CONSTANTS
  Nodes <- MCNodes
  Broken = Broken
  NoOne = NoOne
  Docs <- MCDocs
  RootLists <- MCRootList
  NumRoots = 1
  Ids <- MCIds
  Paths = {"", "p", "q"}
  Deps <- MCDeps
INVARIANT EveryUseIsImported

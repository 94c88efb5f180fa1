SPECIFICATION Spec
CONSTANTS
  Documents <- MCDocuments
  Urls <- MCUrls
  Resolved <- MCResolved
  Schemes <- MCSchemes
  NoId = NoId
INVARIANTS
  TypeOK
  LoadedIsWhole
  NothingLeftOpen
PROPERTIES
  CancelledReturns

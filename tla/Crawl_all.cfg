SPECIFICATION FairSpec
CONSTANTS
  Schemas = {s1, s2, s3}
  Ids = {i1, i2, i3}
  Paths = {p1}
  NumPlanners = 2
  NumUris = 2
  Deps <- MCDeps
  NoOne = NoOne
INVARIANTS
  TypeOK
  PlannedOnce
  Complete
  Justified
PROPERTY Terminates

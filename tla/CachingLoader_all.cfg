SPECIFICATION FairSpec
CONSTANTS
  Callers = {c1, c2}
  Keys = {k1, k2}
  Schemas = {s1, s2, s3, s4}
  NoSchema = NoSchema
  LoadError = LoadError
  NoKey = NoKey
  NoCaller = NoCaller
INVARIANTS
  TypeOK
  Canonical
  NoMapRace
  FetchedAtMostOnce
PROPERTIES
  LoadReturns
  ImplementsLoadOnce

SPECIFICATION FairSpec
CONSTANTS
  Groups = {g1, g2, g3}
  Files = {f1, f2}
  NoFile = NoFile
  MaxSize = 1
  Old = Old
INVARIANTS
  TypeOK
  JoinedBeforeReturn
  ResultIsTruthful
  WrittenWhole
PROPERTY Returns

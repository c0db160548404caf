SPECIFICATION FairSpec
CONSTANTS
  Names = {foo, bar}
  Pure = pure
  Bare = bare
  Dtor = dtor
  Symbols = {s1, s2}
  NoSymbol = none
  Decodable = {s1}
  MaxRows = 3
INVARIANTS
  TypeOK
  OwnAnswer
  ExportHonest
PROPERTY Settles

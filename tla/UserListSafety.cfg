SPECIFICATION Spec
CONSTANTS
  x1 = x1
  x2 = x2
  x3 = x3
  ann = ann
  bob = bob
  cat = cat
  Nodes = {x1, x2, x3}
  Names = {ann, bob, cat}
  NULL = NULL
SYMMETRY Interchangeable
INVARIANTS
  TypeOK
  WellLinked
  SearchComplete
PROPERTIES
  ImplementsDirectory

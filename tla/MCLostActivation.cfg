SPECIFICATION Spec
CONSTANTS
  Indexers = {p1, p2}
  Gens = {g1, g2, g3}
  NoGen = NoGen
  NoIndexer = NoIndexer
  Kinds = {"full", "upgrade"}
  MaxSource = 1
  MaxCrashes = 1
SYMMETRY Symmetry
CHECK_DEADLOCK FALSE
PROPERTY ActivatedOverItsBasis

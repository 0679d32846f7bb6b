SPECIFICATION Spec
CONSTANTS
  Files = {f1}
  Servers = {s1}
  NoServer = NoServer
  ExternalKinds = {"full", "update"}
  RestoresTimes = FALSE
  MaxEdits = 2
  MaxGens = 2
  MaxCrashes = 1
  MaxTorn = 1
SYMMETRY Symmetry
CHECK_DEADLOCK FALSE
INVARIANTS
  AnswersMatchDisk
  VectorsMatchDisk
  RowsMatchGraph

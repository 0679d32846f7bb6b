SPECIFICATION PartsSpec
CONSTANTS
  Files = {f1}
  Contents = {c1, c2}
  Absent = Absent
  None = None
  RacyWindow = 1
  Granularity = 2
  MaxClock = 4
  PythonBuiltins = {"print"}
  Private = {"_p"}
  Projects <- MCProjects
  MaxVersions = 3
  MaxUpdates = 2
  MaxChanged = 2
  SYMBOLS_PER_FILE = 2
  Node <- MCTableNodes
  Loaders = {p1, p2}
  ModelFile = 2
  DOWNLOAD_ATTEMPTS = 2
  MaxLoads = 2
  MaxPlacements = 1
  Wrappers = {w1, w2}
  DOWNLOAD_BOUND = 2
  MaxWrapperKills = 1
  Installers = {i1, i2}
  MaxInstalls = 2
  MaxUserEdits = 2
  Broken = {2}
  Corpora <- MCCorpora
  MaxCandidates = {5, 60}
  MaxLearnings = 3
  MaxLearningKills = 1
  Paths = {1, 2}
  Servers = {s1, s2}
  NoServer = NoServer
  Models = {m1, m2}
  BuiltIn = m1
  Disabled = Disabled
  NoModel = NoModel
  Texts = {"a", "b", "c"}
  Turns <- MCTurns
  Origins = {"embedded", "graph-only"}
  EmptyLoads = FALSE
  Faults = {"open", "write"}
  MaxCommits = 2
  MaxCrashes = 1
  ReadGraphs <- MCReadGraphs
  AskedIds <- MCAskedIds
  AskedFiles = {"f", "h"}
  MaxDepths = {0, 2, 4}
  Limits = {0, 2, 9}
SYMMETRY Symmetry
CHECK_DEADLOCK FALSE
INVARIANTS
  NoMissedEdit
  VectorsFitTexts TableIsWhole OneModel
  UpdateIsRebuild LineLookupsAgree
  PrintedNamesResolve CallChainsAreShortest ImpactIsNearestFirst
  TableIndexed
  PinnedOnly LivePartsKept
  OnlyVerifiedRuns FinalizedIsUsable
  ReplacedIsBackedUp
  WinnerIsBest
PROPERTIES UserFilesKept SwapsFiles

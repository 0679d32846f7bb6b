SPECIFICATION Spec
CONSTANTS
  Requests = {r1, r2}
  Calls = {r1, r2}
  Keys = {k1}
  NoRequest = NoRequest
  Projects = {p1}
  Refreshed = {p1}
  Uses = {"index_now", "index_project", "ping", "read"}
  MAX_CONCURRENT_TOOL_CALLS = 2
  OUTBOX_CAPACITY = 1
  MAX_INDEX_JOBS = 1
  MaxCancels = 1
  MaxInline = 0
  MaxJobs = 2
SYMMETRY Symmetry
CHECK_DEADLOCK FALSE
INVARIANTS
  CancellableWhileRunning
  NothingLeaks
  AnsweredWhenEnded
  OneIndexerPerProject
  RunningJobsAreRegistered
  ResultsReachTheClient
PROPERTIES
  ImplementsRequestPort

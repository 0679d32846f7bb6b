SPECIFICATION FairSpec
CONSTANTS
  Requests = {r1, r2}
  Calls = {r1, r2}
  Keys = {k1}
  NoRequest = NoRequest
  Projects = {p1, p2}
  Refreshed = {}
  Uses = {"index_now"}
  MAX_CONCURRENT_TOOL_CALLS = 1
  OUTBOX_CAPACITY = 1
  MAX_INDEX_JOBS = 1
  MaxCancels = 0
  MaxInline = 1
  MaxJobs = 2
CHECK_DEADLOCK FALSE
PROPERTIES
  RequestsEnd
  SessionsEnd

SPECIFICATION FairSpec
CONSTANTS
  Files = {f1}
  Root = Root
  Lost = Lost
  Readers = {r1}
  Refresher = Refresher
  Nobody = Nobody
  Upgrades = {}
  Events = {"external", "turn fails", "persist fails", "expiry", "events lost"}
  MaxAttempts = 1
  MaxEdits = 1
  MaxGens = 2
  MaxEngines = 4
CHECK_DEADLOCK FALSE
INVARIANTS FreshLabels RequestsAreShown NothingForgotten
PROPERTIES ReadsAnswered

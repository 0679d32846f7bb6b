SPECIFICATION FairSpec
CONSTANTS
  Files = {f1}
  Root = Root
  Lost = Lost
  Readers = {}
  Refresher = Refresher
  Nobody = Nobody
  Upgrades = {u1, u2}
  Events = {"jobs", "evict"}
  MaxAttempts = 1
  MaxEdits = 1
  MaxGens = 2
  MaxEngines = 2
CHECK_DEADLOCK FALSE
INVARIANT NoTurnDuringUpgrade
PROPERTIES ChangesServed

SPECIFICATION Spec
CONSTANTS
  Files = {f1}
  Root = Root
  Lost = Lost
  Readers = {r1, r2}
  Refresher = Refresher
  Nobody = Nobody
  Upgrades = {}
  Events = {"external"}
  MaxAttempts = 1
  MaxEdits = 1
  MaxGens = 2
  MaxEngines = 4
SYMMETRY Symmetry
CHECK_DEADLOCK FALSE
INVARIANTS FreshReads

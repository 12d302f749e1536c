SPECIFICATION Spec
CONSTANTS
  Ids = {a, b}
  Games = {g}
  GameOf <- OneGame
  Pids = {p, q}
  Visited = {}
  Ports = {m, n}
  MaxInstances = 1
  MaxCrashes = 2
  Faults = {"blind"}
  None = None
INVARIANTS LiveIsNamed LiveIsRecorded DrainRemembered
SYMMETRY Alike
CHECK_DEADLOCK FALSE

SPECIFICATION Spec
CONSTANTS
  Ids = {a}
  Games = {g}
  GameOf <- OneGame
  Pids = {p}
  Visited = {p}
  Ports = {m}
  MaxInstances = 1
  MaxCrashes = 2
  Faults = {"disk"}
  None = None
PROPERTIES StopAnswered DrainsEnd
CHECK_DEADLOCK FALSE

SPECIFICATION HistoryFairSpec
CONSTANTS
  Hosts = {1, 2}
  Games = {g1}
  Revisions = {1}
  Sessions = {}
  Incarnations = {1, 2}
  RegionOf <- OneRegion
  AnyRegion = AnyRegion
  MaxInstances = 1
  StaleAfter = 1
  Retain = 1
  MaxPendingEvents = 2
  MaxLog = 3
  MaxRestarted = 1
INVARIANTS
  NoHole
PROPERTY QuietIsTold

SPECIFICATION FairSpec
CONSTANTS
  Hosts = {1}
  Games = {g1}
  Revisions = {1}
  Sessions = {j1, j2}
  Incarnations = {1}
  RegionOf <- OneRegion
  AnyRegion = AnyRegion
  MaxInstances = 1
  StaleAfter = 1
  Retain = 1
  MaxPendingEvents = 0
  Requests <- OneWorld
  Faults = {"lost", "gone", "down"}
  MaxFlight = 0
  MaxSilence = 1
  MaxDeploys = 0
PROPERTIES
  EveryJoinAnswered
  DeadIsForgotten

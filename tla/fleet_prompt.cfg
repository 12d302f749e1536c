SPECIFICATION Spec
CONSTANTS
  Hosts = {1, 2}
  Games = {g1}
  Revisions = {1}
  Sessions = {j1, j2, j3}
  Incarnations = {1}
  RegionOf <- OneRegion
  AnyRegion = AnyRegion
  MaxInstances = 2
  StaleAfter = 1
  Retain = 2
  MaxPendingEvents = 0
  Requests <- OneWorld
  Faults = {}
  MaxFlight = 0
  MaxSilence = 0
  MaxDeploys = 1
SYMMETRY JoinerSymmetry
INVARIANT NeverOverOffers
PROPERTY NoSecondWorld

SPECIFICATION Spec
CONSTANTS
  Tabs = {1, 2}
  Sources = {"s"}
  Assets = {"a"}
  MaxDrafts = 2
  MaxTroubles = 1
  Boxes = {b1, b2}
  BUILD_ATTEMPTS = 2
  MaxRevision = 2
  MaxEvents = 3
  MaxEntries = 1
INVARIANTS CleanMeansSaved   
PROPERTY EveryBuildSettles
CHECK_DEADLOCK FALSE

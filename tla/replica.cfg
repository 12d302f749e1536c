SPECIFICATION Spec
CONSTANTS
  NoId = NoId
  MaxId = 3
  MaxWork = 3
  MaxTouch = 1
  Placed = 0
  Budget = 2
  ChunkSize = 2
  MaxResyncs = 1
  MaxFlight = 0
  Standing = 2
  world = world
  ui = ui
  MAX_GENERATION = 2
  Reach = 2
  MaxEdits = 3
INVARIANTS Converges OwnersKnown  ValuesArrive
INVARIANTS PictureIsTrue 
CHECK_DEADLOCK FALSE

SPECIFICATION MCSpec
CONSTANTS
  c1 = c1
  c2 = c2
  ann = ann
  Conns = {c1, c2}
  Who = {ann}
  identity <- OneIdentity
  Nobody = Nobody
  Empty = Empty
  MaxUnjoined = 2
  MaxPlayers = 2
  MaxDrops = 1
  MaxMisses = 1
  MaxResyncs = 1
  Things = {"t"}
  Guests = {"p"}
  BREAKER_THRESHOLD = 2
  MaxTicks = 3
  MaxLives = 2
  MaxCalls = 3
  Speeds = {0, 1}
  SendEvery = 2
  MAX_REPLAY_TICKS = 3
  SNAP_DISTANCE = 2
  MaxLocalTick = 5
  MaxSent = 3
  MaxShed = 1
  Images = {"a"}
  Texts = {"t"}
  Versions = {1, 2}
  Sprites = {1}
  Calls = {1, 2}
  MAX_PENDING = 1
  MaxLosses = 2
INVARIANTS OnePlayerPerId NoStintLost LiveIsHeld RefusedIsTold EndedIsReleased
 
INVARIANTS PredictionAgrees  ArtIsCurrent 
CHECK_DEADLOCK FALSE

SPECIFICATION Spec
CONSTANTS
  Buttons = {jump}
  Axes = {}
  MaxFrames = 2
  MaxFlight = 1
  MaxPending = 1
  MaxResyncs = 1
  RingTicks = 1
  PastGrace = 0
  FutureHorizon = 2
  ClampTicks = 1
  MaxSeqGap = 3
  Bucket = 2
  MaxAsks = 1
  Breach = 1
  MaxLead = 2
  MaxAhead = 3
  MaxDrift = 1
  Faults = {"overcap", "replay", "drought", "silent"}
INVARIANTS AppliedInOrder FoldsAgree NothingStuck
PROPERTY KeepsLedger
CHECK_DEADLOCK FALSE

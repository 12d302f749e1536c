SPECIFICATION FairSpec
CONSTANTS
  Callers = {c1, c2, c3}
  Depth = 2
  Kinds = {"memory", "redis"}
INVARIANTS
  NeverBoth
  NoForgottenCaller
PROPERTY EveryoneReached
CHECK_DEADLOCK FALSE

CONSTANTS
  p1 = p1
  p2 = p2
  f1 = f1
  f2 = f2
  Pids <- TwoPids
  Root = p1
  Files <- TwoFiles
  ReplayerFile = log
  ReplayerFds = {0, 1}
  Kinds = {"open", "clone", "dup2_new"}
  AloneKinds = {}
  TracedLimit = 2
  ReplayLimit = 9
SPECIFICATION Spec

PROPERTY GeneratedIsUnused
CHECK_DEADLOCK FALSE

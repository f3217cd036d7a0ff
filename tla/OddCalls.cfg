CONSTANTS
  p1 = p1
  p2 = p2
  f1 = f1
  f2 = f2
  a1 = a1
  a2 = a2
  Pids = {p1}
  Root = p1
  FailedPid = noPid
  Files = {f1}
  Terminal = terminal
  Socket = socket
  ReplayerFile = log
  StdFds = {0}
  TracedLimit = 2
  Modes = {0}
  Kinds <- OneProcessKinds
  CloexecKinds = {"open", "dup3", "fcntl_dup"}
  CloneFlags <- ForkOrThread
  ReplayMayFail = FALSE
  Addresses <- OneAddress
  ReplayerFds = {1}
  CountLimit = 4
  ReplayLimit = 4
SPECIFICATION Spec
INVARIANTS TypeOK OneOwner
CHECK_DEADLOCK FALSE

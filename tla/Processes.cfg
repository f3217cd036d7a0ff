CONSTANTS
  p1 = p1
  p2 = p2
  f1 = f1
  f2 = f2
  a1 = a1
  a2 = a2
  Pids <- TwoPids
  Root = p1
  FailedPid = noPid
  Files <- TwoFiles
  Terminal = terminal
  Socket = socket
  ReplayerFile = log
  StdFds = {0}
  TracedLimit = 3
  Modes = {0, 18}
  Kinds <- ProcessKinds
  CloexecKinds = {"socket", "accept4"}
  CloneFlags <- AllFlags
  ReplayMayFail = TRUE
  Addresses <- TwoAddresses
  ReplayerFds = {1}
  CountLimit = 2
  ReplayLimit = 5
SPECIFICATION Spec
SYMMETRY Symmetry
INVARIANTS SameDescriptors SameUmask OneOwner SameFilesButStdin SameCloexec
CHECK_DEADLOCK FALSE

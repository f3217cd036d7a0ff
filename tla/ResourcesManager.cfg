CONSTANTS
  p1 = p1
  p2 = p2
  p3 = p3
  a1 = a1
  a2 = a2
  a3 = a3
  Pids <- MCPids
  Root = p1
  Addresses <- MCAddresses
  TracedFds <- MCTracedFds
  ReplayedFds <- MCReplayedFds
  FdFlags = {0, 524288}
  Modes = {0, 18}
SPECIFICATION Spec
SYMMETRY Symmetry
INVARIANTS TypeOK RefCountsExact
PROPERTY PromiseSpec
CHECK_DEADLOCK FALSE

CONSTANTS
  Types <- TwoTypes
  Pids <- OnePid
  Root = 1
  Traces <- OneProcessTraces
  StrayIndexes <- AnyStray
  Length = 7
  Low = 2
  High = 3
  Batch = 3
  FirstBatch = 4
  Window = 2
SPECIFICATION FairSpec
INVARIANT ProgramOrder
PROPERTY ReplayFairSpec

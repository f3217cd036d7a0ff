CONSTANTS
  Types <- ClonerTypes
  Pids <- TwoPids
  Root = 1
  Traces <- TwoProcessTraces
  StrayIndexes <- NoStray
  Length = 5
  Low = 1
  High = 2
  Batch = 3
  FirstBatch = 4
  Window = 3
SPECIFICATION Spec
INVARIANT EndsWithTrace

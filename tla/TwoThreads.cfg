CONSTANTS
  Types <- ClonerTypes
  Pids <- TwoPids
  Root = 1
  Traces <- TwoProcessTraces
  StrayIndexes <- UmaskStray
  Length = 5
  Low = 2
  High = 3
  Batch = 3
  FirstBatch = 4
  Window = 3
SPECIFICATION Spec
INVARIANTS TypeOK OnePlace DeletedLast NeverWraps HappensBefore

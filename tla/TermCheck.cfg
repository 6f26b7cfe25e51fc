CONSTANTS
  Keys <- Vertices
  Links <- Arcs
  InitDelta <- AddDeltas
  Default = 0
  Acc <- add
  Gain <- pagerank_g
  TableSize = 4
  Values <- Amounts
  Threshold = 1
  Never = never
SPECIFICATION FairCheckSpec
INVARIANTS
  CheckInv
  QuietBetweenPasses
PROPERTIES
  SumsGrow
  Stops
CHECK_DEADLOCK FALSE

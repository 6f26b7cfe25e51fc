CONSTANTS
  Keys <- Vertices
  Links <- Arcs
  InitDelta <- init_c
  Default = 8
  Acc <- accumulate
  Gain <- g_func
  Values <- Lengths
  Pri <- priorityOf
  NoPriority = 0
  Source = 1
  Weights <- ArcWeights
  imax = 8
  Threads = {t1, t2}
  NoKey = 0
  NoThread = nobody
  Schedules <- AnyVertices
SPECIFICATION FairSpec
INVARIANTS
  DistancesSound
PROPERTIES
  RoundDrains
  DistancesReached

CONSTANTS
  Keys <- Vertices
  Links <- Arcs
  InitDelta <- init_c
  Default = 0
  Acc <- accumulate
  Gain <- g_func
  Values <- Amounts
  Pri <- priorityOf
  NoPriority = 0
  Threads = {t1, t2}
  NoKey = 0
  NoThread = nobody
  Schedules <- AnyVertices
SPECIFICATION FairSpec
INVARIANTS
  LockDiscipline
  NoLostMessage
  PriorityFresh
  LedgerHolds
  VertexInv
PROPERTIES
  ImplementsDeltaSpec
  RanksReached

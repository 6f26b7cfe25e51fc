\* Fewer positions than threads, as many, and more.
CONSTANTS
  NumThreads = 3
  Sizes <- AllSizes
SPECIFICATION FairSpec
INVARIANTS
  ScheduleExclusive
  NotifyReachesAll
  NoUseAfterFree
  ExclusivePositions
  RoundComplete
  DumpQuiescent
  RoundsInv
PROPERTIES
  ImplementsBulkRounds
  RoundEnds
  Finishes
CHECK_DEADLOCK FALSE

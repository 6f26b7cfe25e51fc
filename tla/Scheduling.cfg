CONSTANTS
  TableSize = 4
  SampleSize = 2
  Portions = {0, 75, 100}
  Priorities <- FewPriorities
  MaxMessages = 1
SPECIFICATION FairSpec
INVARIANTS
  TypeOK
  ScheduledRuns
PROPERTIES
  MostUrgentScheduled
  PriorityOrder
  Drains

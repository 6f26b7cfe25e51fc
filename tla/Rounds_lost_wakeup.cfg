CONSTANTS
  NumThreads = 2
  Sizes = {2, 3}
SPECIFICATION FairSpec
PROPERTY ScheduleThreadWoken
CHECK_DEADLOCK FALSE

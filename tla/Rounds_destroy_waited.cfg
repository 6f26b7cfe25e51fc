CONSTANTS
  NumThreads = 2
  Sizes = {2, 3}
SPECIFICATION Spec
INVARIANT NoWaiterAtDestroy
CHECK_DEADLOCK FALSE

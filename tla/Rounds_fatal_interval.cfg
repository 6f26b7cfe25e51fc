CONSTANTS
  NumThreads = 2
  Sizes = {1}
SPECIFICATION Spec
INVARIANT EndIsNeverFatal
CHECK_DEADLOCK FALSE

CONSTANTS
  Threads = {main, schedule, execute}
  NoThread = nobody
  Lines <- KernelLines
  MaxLines = 2
SYMMETRY Symmetry
SPECIFICATION Spec
INVARIANTS
  LoggerInv
  NothingLost
PROPERTY FatalThrows
CHECK_DEADLOCK FALSE

CONSTANTS
  Keys <- FewKeys
  Rows = {x}
  NoRow = none
  Free = free
  NodeCounts = {2}
SPECIFICATION Spec
INVARIANT NothingForgotten
CHECK_DEADLOCK FALSE

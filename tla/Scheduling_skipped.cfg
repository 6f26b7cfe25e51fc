CONSTANTS
  TableSize = 3
  SampleSize = 2
  Portions = {0, 75, 100}
  Priorities <- FewPriorities
  MaxMessages = 0
SPECIFICATION Spec
INVARIANT AllProcessed

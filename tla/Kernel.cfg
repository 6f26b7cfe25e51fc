\* Five keys for three buckets: full tables, overwritten rows and expansions.
CONSTANTS
  Keys <- FiveKeys
  Rows <- SomeRows
  NoRow = none
  Free = free
  NodeCounts <- SomeCounts
  Programs = {"pagerank", "katz", "shortestpath", "adsorption"}
  Gap = gap
  TextLines <- SomeLines
  Leftovers = {4}
  ConfFiles <- SomeFiles
  NoFile = nofile
  MaxLines = 5
  MaxChanges = 1
SPECIFICATION KernelSpec
INVARIANTS
  KernelTypeOK
  RowsReachable
  RowsCurrent
  CountRight
  WellLoaded
  NeverDies
  ResultRight
PROPERTY ImplementsRowMap
CHECK_DEADLOCK FALSE

SPECIFICATION DSpec
CONSTANTS
  Capacity = 4
  DATA_REC_UNITLEN = 2
  MaxSize = 1
  Word = 64
  MaxIndex = 5
  MaxCrashes = 1
  MaxBoots = 2
\* The bound on records stops submit().
CHECK_DEADLOCK FALSE
INVARIANTS
  EmptyIndexIsFinal
  NodesTellLengths
  DiskBounded

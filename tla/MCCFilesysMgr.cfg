SPECIFICATION Spec
CONSTANTS
  Capacity = 4
  DATA_REC_UNITLEN = 2
  MaxSize = 2
  Word = 64
  MaxIndex = 6
  MaxCrashes = 2
\* The bound on records stops submit().
CHECK_DEADLOCK FALSE
INVARIANTS
  TypeOK
  LengthAccounted
  NoWrap
  OldestIsClosed
  IndexIntact

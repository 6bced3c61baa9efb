SPECIFICATION FairSpec
CONSTANTS
  Bevs = {b1, b2}
  NULL = NULL
  MaxPkts = 3
\* The process can die, and the bound on packets stops the boardctl thread.
CHECK_DEADLOCK FALSE
INVARIANTS
  TypeOK
  NoLeak
  LoopConsistent
  DanglingOnlyIfRaced
PROPERTIES
  InitFailIsFinal
  ImplementsSession
  Reconnects

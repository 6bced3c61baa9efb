SPECIFICATION FairSpec
CONSTANTS
  Signals = {SIGINT, SIGTERM}
  MaxSignals = 2
\* The process ends.
CHECK_DEADLOCK FALSE
INVARIANTS
  LateUseExplained
  JoinOnlyInWindow
PROPERTIES
  SignalEnds

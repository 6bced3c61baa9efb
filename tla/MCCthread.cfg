SPECIFICATION FairSpec
CONSTANTS
  Threads = {t1, t2, t3}
  NULL = NULL
  MaxFlag = 2
\* The owner may have nothing left to call, or be blocked for ever.
CHECK_DEADLOCK FALSE
INVARIANTS
  NoLostWakeup
  ThreadsAccounted
PROPERTIES
  ResumedGoesOn

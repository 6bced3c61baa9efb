SPECIFICATION Spec
CONSTANTS
  TagLen = 2
  PktLen = 4
  MaxBytes = 11
\* The stream ends.
CHECK_DEADLOCK FALSE
INVARIANTS
  PacketIntact
  MissedOnlyIfMasked
  FindsFrames

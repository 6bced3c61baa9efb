SPECIFICATION WireSpec
CONSTANTS
  l1 = l1
  l2 = l2
  c = c
  d = d
  GpsWords = {l1, l2}
  LocationWords = {l1, l2}
  TempWords = {c}
  DirectionWords = {d}
  Place <- BodyPlace
  MaxFix = 1
  MaxSample = 1
  MaxPkt = 1
  MaxReply = 3
\* The number of messages is bounded, and the process can die.
CHECK_DEADLOCK FALSE
INVARIANTS
  NeverStale
  MixedOnlyIfOverlap
  WireInOrder
  RestIsRepeated

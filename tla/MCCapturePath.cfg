SPECIFICATION Spec
CONSTANTS
  EIMUNIT_LEN = 6
  DATA_PALOAD_LEN = 3
  StreamLen = 9
  Streams <- MCStreams
\* The device's stream is finite, and the process can die.
CHECK_DEADLOCK FALSE
INVARIANTS
  StreamAccounted
  SyncIsHeader
PROPERTIES
  FirstHeaderTaken

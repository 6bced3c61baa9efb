SPECIFICATION FairSpec
CONSTANTS
  EIMUNIT_LEN = 6
  DATA_PALOAD_LEN = 2
  StreamLen = 8
  Streams <- MCStreams
  MaxConns = 2
\* The device's stream is finite, and the process can die.
CHECK_DEADLOCK FALSE
INVARIANTS
  HostInOrder
  HostBytesTile
PROPERTIES
  Delivered

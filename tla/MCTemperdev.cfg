SPECIFICATION TemperdevSpec
CONSTANTS
  EvCells = 9
  ReportLen = 4
  MaxReports = 4
\* The thread returns when a read fails.
CHECK_DEADLOCK FALSE
INVARIANTS
  TemperatureRight
PROPERTIES
  NeverGoesBack

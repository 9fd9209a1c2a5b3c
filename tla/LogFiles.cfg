\* Two lifespans, records at any time, hours of two ticks.
CONSTANTS
  Sources      = {"app", "ERROR", "UI"}
  Hour         = 2
  MaxRecords   = 3
  MaxLifespans = 2
  MaxTime      = 3
SPECIFICATION FairSpec
INVARIANTS
  FilesSound
  LinesStamped
  FlushedAtStop
PROPERTY
  StopReturns
\* The application may be stopped for good, or have failed to start.
CHECK_DEADLOCK FALSE

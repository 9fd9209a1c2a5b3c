\* Two requests at a time and three recorded ones, minutes of two ticks,
\* windows smaller than what they show.
CONSTANTS
  Requests    = {r1, r2}
  None        = None
  BufferMax   = 2
  HistoryMax  = 2
  ErrorsMax   = 1
  Buckets     = 2
  Minute      = 2
  HealthTTL   = 2
  MaxTime     = 4
  MaxRecorded = 3
  Contexts    = {x1, x2}
  MetricsTTL  = 2
  MaxTotal    = 1
  MaxTasks    = 2
SPECIFICATION MCSpec
SYMMETRY Alike
INVARIANTS
  LatencyFigures
  ErrorGraphExact
  LinesTraced
  PageCurrent
PROPERTY
  ChecksSpaced

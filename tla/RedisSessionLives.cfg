\* Three requests for one session, and one task, on two workers.
CONSTANTS
  NoWorker   = NoWorker
  Workers    = {w1, w2}
  Requests   = {r1, r2, r3}
  SessionIds = {s1}
  TTL        = 2
  MaxTime    = 4
  None       = None
  Tasks      = {t1}
  TaskTTL    = 2
  MaxArtifacts = 3
SPECIFICATION MCSpec
SYMMETRY Symmetry
INVARIANTS
  KeptWhileUsed
  DeletedStaysDeleted
  TaskUpdatesKept
CHECK_DEADLOCK FALSE

\* Three tasks on two workers.
CONSTANTS
  NoWorker   = NoWorker
  NoSession  = NoSession
  Workers    = {w1, w2}
  Calls      = {t1, t2, t3}
  Contexts   = {c1, c2}
  Sessions   = {s1, s2, s3}
  ContextTTL = 2
  MaxTime    = 3
SPECIFICATION ContextsSpec
SYMMETRY Symmetry
INVARIANTS
  ContextsTyped
  ContextsApart
  SplitOnlyByRace
CHECK_DEADLOCK FALSE

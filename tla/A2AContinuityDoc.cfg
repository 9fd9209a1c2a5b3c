\* The documented continuity of a context, with the default order of the TTLs.
CONSTANTS
  NoTurn     = NoTurn
  SessionIds = {s1, s2}
  TTL        = 1
  NoSession  = NoSession
  ContextTTL = 3
  MaxTime    = 2
  Tasks      = {t1, t2}
  Contexts   = {c1}
  MaxTexts   = 1
SPECIFICATION Spec
INVARIANT
  HistoryPreserved
CHECK_DEADLOCK FALSE

\* Two tasks in two contexts: sessions expire before the bindings do.
CONSTANTS
  NoTurn     = NoTurn
  SessionIds = {s1, s2}
  TTL        = 0
  NoSession  = NoSession
  ContextTTL = 2
  MaxTime    = 2
  Tasks      = {t1, t2}
  Contexts   = {c1, c2}
  MaxTexts   = 1
SPECIFICATION FairSpec
INVARIANTS
  QueueSound
  CompletedIffRemembered
  ContextsKeepSessions
  TaskLedger
PROPERTY
  TasksEnd
CHECK_DEADLOCK FALSE

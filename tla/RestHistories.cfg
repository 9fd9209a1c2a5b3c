\* Two requests that overlap in two sessions, with expiry and deletion.
CONSTANTS
  NoTurn       = NoTurn
  SessionIds   = {s1, s2}
  TTL          = 1
  MaxTime      = 2
  Requests     = {r1, r2}
  MaxTexts     = 1
  MaxFailovers = 0
  MaxMisses    = 1
SPECIFICATION FairSpec
INVARIANTS
  HistoriesIntact
  NoLostTurn
  CacheLedger
PROPERTIES
  ConversationHolds
  RequestsEnd

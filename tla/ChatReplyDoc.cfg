\* The documented reply of /v1/chat.
CONSTANTS
  NoTurn       = NoTurn
  SessionIds   = {s1}
  TTL          = 1
  MaxTime      = 1
  Requests     = {r1}
  MaxTexts     = 2
  MaxFailovers = 1
  MaxMisses    = 1
SPECIFICATION Spec
INVARIANT
  ChatReplyOnlySuccessful

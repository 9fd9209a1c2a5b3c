\* One request: rounds of up to two tool calls, a second attempt, and their end.
CONSTANTS
  p1 = p1
  p2 = p2
  NoModel        = NoModel
  Runs           = {r1}
  Catalogue     <- TwoProviders
  Tools          = {calculate}
  OtherTools     = {made_up}
  RecursionLimit = 5
  MaxCalls       = 2
SPECIFICATION FairSpec
INVARIANTS
  MessagesSound
  ToolLedger
PROPERTY
  RunsEnd
CHECK_DEADLOCK FALSE

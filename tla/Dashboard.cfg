\* Two sessions, two questions.
CONSTANTS
  MaxSessions  = 2
  MaxQuestions = 2
  None         = None
  Unset        = Unset
SPECIFICATION FairSpec
INVARIANTS
  TranscriptOwned
  RepliesPaired
  ShownIsRemembered
PROPERTY
  QuestionsAnswered

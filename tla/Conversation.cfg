SPECIFICATION FairSpec
CONSTANTS
  MaxTurns = 3
  Limit = 5
  Pool = 2
  Messages <- MCMessages
  None = None
INVARIANTS
  RecoversTheQuestion
  AbandonedStaysGone
  AnsweredTurnsStay
  QuestionsKeepTheirAnswers
PROPERTY WaitingEnds
CHECK_DEADLOCK FALSE

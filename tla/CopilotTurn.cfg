CONSTANTS
  Statements = {s1, s2}
  MaxRetries = 1
  HistoryTurns = 2
  MaxTurns = 3
  None = None
SPECIFICATION FairSpec
INVARIANTS
  TypeOK
  OnlyCheckedSqlRuns
  AnswerIsTheLastRun
  MoneyNeverPlanned
  SubstitutionReported
PROPERTIES
  KeepsContract
  TurnEnds
CHECK_DEADLOCK FALSE

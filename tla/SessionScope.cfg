CONSTANTS
  MaxRuns = 3
  None = None
SPECIFICATION Spec
INVARIANTS
  SqlRunsAsCaller
  RetriesStayScoped
  NeverAbortedBetweenStatements
  PoolClean

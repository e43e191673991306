CONSTANTS
  Submitted <- MCSubmitted
  ColumnsOf <- MCColumnsOf
  Rows <- MCRows
SPECIFICATION CheckSpec
CHECK_DEADLOCK FALSE
INVARIANTS
  RightStatementsPass
  ColumnsAreOfTheirTable
  CustomersAreCountedOnce
  AScanIsBounded

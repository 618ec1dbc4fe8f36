CONSTANTS
  r1 = r1
  r2 = r2
  r3 = r3
  Requests <- MCRequests
  Concurrency = 2
  MaxItems = 3
SPECIFICATION BudgetSpec
INVARIANT RendersWithinBudget
CHECK_DEADLOCK FALSE

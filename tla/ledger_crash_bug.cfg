SPECIFICATION LedgerSpec
CONSTANTS
  Budget = 4
  MaxSeconds = 2
  MaxDays = 1
  MaxRestarts = 1
INVARIANT TotalIsKept
CHECK_DEADLOCK FALSE

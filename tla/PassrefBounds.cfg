SPECIFICATION Spec
CONSTANTS
  h = h  k = k
  Handles = {h, k}
  Length <- MCLength
  MaxChars = 3
  TotalMax = 6
  MarkerChars = 1
  Calls <- MCCalls
INVARIANTS TypeOK OnlyHeld BudgetBound FullWhenHeld

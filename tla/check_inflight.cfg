SPECIFICATION Spec
CONSTANTS
  Checks <- SomeChecks
  Budgets = {0, 2, 5, 12}
INVARIANTS RejectedIsFailure

SPECIFICATION FairSpec
CONSTANTS
  Photos = {1, 2, 3}
  Budgets <- MCBudgets
  Requests = {"r1", "r2"}
  Time <- Taken
  StackOf <- Stacked
  Limit = 1
INVARIANTS
  OneRunInOrder
  DoneIsShown
  SheetIsTheView
PROPERTIES
  WaitingEnds
CHECK_DEADLOCK FALSE

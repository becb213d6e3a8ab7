SPECIFICATION HistorySpec
CONSTANTS
  Objects = {a, b}
  NoObject = noObject
  Staged = {b}
  Limits = {1, 2}
  Faults = {"kill", "busy", "degraded", "linkerror", "alien", "twin", "shared", "readonly", "decide"}
  MaxUpsets = 3
INVARIANTS
  NamesAndBooksAgree
  KeptComeFirst
  VerifyFindsTheInterrupted
PROPERTIES
  FinishedIsFinal
  ImplementsCustody
  CalmObjectsSettle
CHECK_DEADLOCK FALSE

CONSTANTS
  Ids = {s1}
  NoId = NoId
  Files <- MCFiles
  Variants = 2
  MaxExtras = 1
  MaxClicks = 2
  MaxUp = 2
SPECIFICATION Spec
INVARIANTS ConfirmedIsApplied FinishedIsClean DiscardRestores
PROPERTIES SessionsSettle
CHECK_DEADLOCK FALSE

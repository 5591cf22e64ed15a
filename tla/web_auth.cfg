CONSTANTS
  MaxTokens = 2
  MaxFaults = 1
  MaxCalls = 1
  CanEnroll = TRUE
SPECIFICATION Spec
INVARIANTS ScreenAgrees
PROPERTIES ProfileSticks
CHECK_DEADLOCK FALSE

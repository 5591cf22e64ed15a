CONSTANTS
  NoId = NoId
  MaxErrors = 1
  Ids = {d1, d2}
  Sudo = {d1, d2}
  Projects = {p1}
  MaxClicks = 2
  MaxDrops = 1
  MaxQueue = 2
SPECIFICATION Spec
INVARIANTS OneReplayPerClick PendingIsAwaited
PROPERTIES AbandonedStays
CHECK_DEADLOCK FALSE
SYMMETRY Symmetry

CONSTANTS
  Tabs = {t1}
  PageOf <- MCPageOf
  Refs = {r1, r2}
  FileOf <- MCFileOf
  Nil = Nil
  t1 = t1
  r1 = r1
  r2 = r2
  f1 = f1
  f2 = f2
  home = home
  ChunkSize = 1
  MaxAttempts = 1
  MaxClicks = 3
  MaxFaults = 1
  MaxLag = 1
SPECIFICATION CopySpec
INVARIANTS CommittedStands RecoveryRestores BusyHasCause
CHECK_DEADLOCK FALSE

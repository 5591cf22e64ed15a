CONSTANTS
  NoId = NoId
  NoSock = NoSock
  MaxErrors = 2
  Ids = {d1}
  Agents = {a1}
  Rows = {q1}
  Procs = {p1}
  Kinds = {k1}
  Socks = {s1}
  RingCap = 2
  WireCap = 1
  MaxTokens = 2
  MaxFaults = 1
  MaxEvents = 2
  Relogin = FALSE
SPECIFICATION FeedSpec
INVARIANTS QueueCatchesUp LoggedOutIsDown
PROPERTIES Settles PollRepairs
CHECK_DEADLOCK FALSE

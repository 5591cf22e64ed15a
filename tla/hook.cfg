CONSTANTS
  s1 = s1
  s2 = s2
  page = page
  css = css
  Files = {page, css}
  Findings <- MCFindings
  Sessions = {s1, s2}
  Harness <- MCHarness
  CoScan <- MCCoScan
  Plain = {}
  Quiet = FALSE
  IgnoreChoices <- MCIgnoreChoices
  Threshold = 1
  CacheMax = 1
  MaxEdits <- MCEdits
  Room = {1, 2}
  MaxAdmin = 1
  MaxFaults = 1
SPECIFICATION Spec
INVARIANT KnownWasRaised
PROPERTIES DenialsEnd 
CHECK_DEADLOCK FALSE

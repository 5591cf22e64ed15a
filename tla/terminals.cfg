SPECIFICATION TermSpec
CONSTANTS
    Sess = {s1, s2}
    Past = {s2}
    NoSession = NoSession
    RxCap = 1
    ConnCap = 1
    MaxOut = 2
    MaxClicks = 3
    MaxDrops = 1
INVARIANTS SeamExact NoLeakedForwarder
CHECK_DEADLOCK FALSE

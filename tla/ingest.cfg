SPECIFICATION FairSpec
CONSTANTS
    Lines = {l1, l2}
    MaxFiles = 2
    Inodes <- MCInodes
    RotateAt = 2
    None = None
    Faults = {"db", "short", "io"}
    MaxCrashes = 2
INVARIANTS NoLineLost TailLeavesNoGap
PROPERTY LinesStored
CHECK_DEADLOCK FALSE

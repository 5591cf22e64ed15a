CONSTANTS
    r1 = r1
    r2 = r2
    a = a
    b = b
    None = None
    Requests = {r1, r2}
    Ids = {a, b}
    IdOf <- MCIdOf
    Reviewers = {c1}
    MaxPendingSpawns = 1
    Faults = {"db", "mode", "panic", "reconcile", "invalid", "client"}
    MaxCrashes = 1
SPECIFICATION Spec
INVARIANTS QueueInv LaunchIsAudited ApprovalMeansLaunched SlotsReturned
CHECK_DEADLOCK FALSE

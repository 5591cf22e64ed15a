CONSTANTS
    r1 = r1
    r2 = r2
    r3 = r3
    a = a
    b = b
    t = t
    None = None
    Boot = Boot
    Requests = {r1, r2, r3}
    Ids = {a, b}
    IdOf <- SharedIdOf
    Clients = {c1}
    WebClients = {}
    SudoRequests = {}
    BadRequests = {r3}
    Tools = {"Bash", "Read"}
    ToolOf <- SharedToolOf
    ToolCalls = {}
    CallOf <- SharedCallOf
    Filters <- SharedFilters
    Ops = {"approve", "deny", "approve_permission", "deny_all"}
    Faults = {"timeout"}
    MaxCrashes = 0
SPECIFICATION Spec
INVARIANTS GateInv NoZombieItems DropsHaveTwins
PROPERTY RefinesLifecycle
CHECK_DEADLOCK FALSE

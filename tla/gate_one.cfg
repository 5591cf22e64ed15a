CONSTANTS
    r1 = r1
    r2 = r2
    a = a
    r3 = r3
    b = b
    t = t
    None = None
    Boot = Boot
    Requests = {r1}
    Ids = {a}
    IdOf <- OneIdOf
    Clients = {c1, c2}
    WebClients = {c2}
    SudoRequests = {r1}
    BadRequests = {}
    Tools = {"Bash"}
    ToolOf <- OneToolOf
    ToolCalls = {t}
    CallOf <- OneCallOf
    Filters <- OneFilters
    Ops = {"approve", "deny", "ask", "approve_all", "deny_all"}
    Faults = {"timeout", "kill", "db", "mode"}
    MaxCrashes = 1
SPECIFICATION FairSpec
INVARIANTS AuditMatchesReply DenyStands RowsHaveOwners
PROPERTY HooksReleased
CHECK_DEADLOCK FALSE

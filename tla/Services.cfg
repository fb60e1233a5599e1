SPECIFICATION Services
CONSTANTS
    Keys = {"k1"}
    Bodies = {"b1", "b2"}
    Requests = {"r1", "r2", "r3"}
    NoBody = "none"
    NoOne = "no one"
    Grant = 3
    Costs = {1, 2}
    LastMonth = 2
    CreditRequests = {"r1", "r2", "r3"}
    Endpoints = {"w1", "w2"}
    MaxActive = 2
    MaxAttempts = 2
    Batch = 1
    MaxRows = 2
    MaxFaults = 1
    LockRequests = {"r1", "r2"}
    LockHandlers = {"list", "deliver", "scans", "scans page", "scan", "create", "register", "issue", "verify", "redeem", "reject", "settle", "commit", "event", "program", "punch"}
    RingRequests = {"r1", "r2", "r3"}
    RingHandlers = {"list", "deliver", "scans page", "commit", "event"}
INVARIANTS
    OncePerKey
    AnswersMatch
    CountsAddUp
    NobodyWaitsForever
PROPERTIES
    StoredStays
    EverythingEnds
CHECK_DEADLOCK FALSE

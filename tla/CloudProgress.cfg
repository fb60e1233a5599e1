SPECIFICATION FairSpec
CONSTANTS
    Requests = {r1, r2}
    Orders = {o1}
    NoRef = none
    NoPeriod = open
    Nobody = nobody
    Explicit = {}
    Limit = 1
    MaxBatch = 1
    LastWeek = 1
    MaxWeek = 2
    MaxEvents = 1
PROPERTY
    RequestsEnd
CHECK_DEADLOCK FALSE

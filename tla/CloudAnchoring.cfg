SPECIFICATION Spec
CONSTANTS
    Requests = {r1, r2}
    Orders = {o1}
    NoRef = none
    NoPeriod = open
    Nobody = nobody
    Explicit <- SecondBatch
    Limit = 2
    MaxBatch = 1
    LastWeek = 1
    MaxWeek = 1
    MaxEvents = 3
SYMMETRY Symmetric
INVARIANTS
    TypeOK
    MirrorExact
    AnchoredOnce
    SettledIsPaid
    NoStandingAuthority
PROPERTY
    ImplementsReceiptBook
CHECK_DEADLOCK FALSE

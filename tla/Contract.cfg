SPECIFICATION Contract
CONSTANTS
    Addresses = {alice, bob}
    Codes = {}
    BadCodes = {}
    Refs = {r1}
    ZeroRef = zero
    MaxBatch = 2
    MaxSupply = 1
    MaxCampaigns = 4
    MaxTime = 1
    KeptCampaigns = {c1}
    KeptCodes = {k1}
    KeptDelegates = {d1}
    KeptPeriods = {p1, p2}
    KeptOwnerOf <- OneOwner
    Threshold = 2
    ExtendTo = 3
    NewLife = 1
    Gap = 2
SYMMETRY Interchangeable
INVARIANTS
    OwnerIndexExact
    PagesCoverOwner
    NothingExpires
    Inventoried
CHECK_DEADLOCK FALSE

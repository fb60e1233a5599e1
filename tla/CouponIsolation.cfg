SPECIFICATION Spec
CONSTANTS
    Addresses = {alice, bob}
    Codes = {k1, k2}
    BadCodes = {}
    Refs = {r1}
    ZeroRef = zero
    MaxBatch = 2
    MaxSupply = 2
    MaxCampaigns = 2
    MaxTime = 2
SYMMETRY Interchangeable
INVARIANTS
    CodeIndexExact
PROPERTIES
    ExpiredCampaignFrozen
CHECK_DEADLOCK FALSE

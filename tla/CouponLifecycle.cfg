SPECIFICATION Spec
CONSTANTS
    Addresses = {alice, bob}
    Codes = {k1, k2, k3}
    BadCodes = {bad}
    Refs = {r1, r2}
    ZeroRef = zero
    MaxBatch = 2
    MaxSupply = 3
    MaxCampaigns = 1
    MaxTime = 2
SYMMETRY Interchangeable
INVARIANTS
    TypeOK
    SupplyIntegrity
    ValidIffRedeemable
    StatsMatchCodes
PROPERTIES
    BurnIsFinal
    ImplementsSingleUse
CHECK_DEADLOCK FALSE

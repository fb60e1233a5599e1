SPECIFICATION Spec
CONSTANTS
    merchant = merchant
    rival = rival
    ana = ana
    eva = eva
    CampaignIds = {1}
    OwnerOf <- OneOwner
    ValidUntil <- OneDeadline
    Addresses = {merchant, ana}
    Codes = {k1}
    BadCodes = {bad}
    Periods = {p1, p2}
    Tokens = {usdc}
    None = none
    Rates = {0, 1, 2}
    MaxCount = 2
    I128Max = 3
    MaxFunds = 4
    MaxTime = 1
INVARIANTS
    TypeOK
    AttributionExact
    CreatorsPaidExactly
PROPERTIES
    LedgerAppendOnly
    PayoutPerPeriod
CHECK_DEADLOCK FALSE

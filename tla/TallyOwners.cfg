SPECIFICATION Spec
CONSTANTS
    merchant = merchant
    rival = rival
    ana = ana
    eva = eva
    CampaignIds = {1, 2}
    OwnerOf <- TwoOwners
    ValidUntil <- TwoDeadlines
    Addresses = {merchant, rival, ana}
    Codes = {k1}
    BadCodes = {}
    Periods = {p1}
    Tokens = {usdc}
    None = none
    Rates = {0, 1}
    MaxCount = 1
    I128Max = 3
    MaxFunds = 1
    MaxTime = 1
PROPERTIES
    PayoutPerPeriod
CHECK_DEADLOCK FALSE

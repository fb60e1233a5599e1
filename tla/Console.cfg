SPECIFICATION Spec
CONSTANTS
    Users = {u1, u2}
    MaxSubmits = 3
    Campaigns = {c1, c2}
    Supply = 2
    MaxMoves = 2
    MaxDetailWrites = 2
    PageRows = 2
    MaxScans = 3
    MaxAsks = 1
    Kinds = {"gift", "loyalty"}
    Edits = {"name", "code", "addr"}
    MaxCreates = 1
    MaxTrips = 1
    Customers = {"ana", "leo"}
    Events = {"sale"}
    NoEvent = "none"
    Counts = {0, 3}
    Most = 3
    Threshold = 2
    MaxBatch = 1
    MaxPunches = 2
    MaxPunchLoads = 2
    MaxOpens = 2
    MaxItems = 2
    MaxSecretWrites = 2
    MaxSecretLoads = 2
    TestCodes = {1}
    LiveCodes = {}
    MaxPeriods = 2
    MaxSettlementWrites = 2
    MaxSettlementLoads = 1
    TestCampaigns = {1, 2}
    LiveCampaigns = {3}
    RedeemCodes = {"A"}
    MaxClicks = 1
    MaxRedeemLoads = 1
INVARIANTS
    ConsoleTypeOK
    PagesShowOneThing
    DoneAsConfirmed
    EffectsHappenOnce
    AnnouncedIsThere
CHECK_DEADLOCK FALSE

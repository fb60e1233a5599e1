SPECIFICATION Spec
CONSTANTS
    Ops = {"redeem", "create"}
    OnceOps = {"redeem"}
    Timeout = 1
    MaxPolls = 1
    MaxTime = 1
    StoreCodes = {"k"}
    MaxCamps = 1
    LogLimit = 2
    StoreCalls = 3
    StoreOpen = 2
    AloneCalls = 4
    Refs = {Blank, r1, r2}
    MaxNonce = 2
    MaxId = 2
    ChipCodes = {"k"}
    MaxCodes = 1
    MaxCount = 1
    RegisterCalls = 1
    TallyKeys = {"p1", "p2"}
    SettleCalls = 3
    MaxLookups = 3
    Calls = {c1, c2}
    Accounts = {a1, a2}
    Wallets = {w1, w2}
    NoWallet = NoWallet
    Codes = {k1, k2}
    Blank = Blank
    None = None
    NoTx = NoTx
    NoCode = NoCode
SYMMETRY Symmetric
INVARIANTS
    PlaygroundTypeOK
    AnswersAreTheLedgers
    ShownWasTrue
    CardsSendWhatTheyShow
CHECK_DEADLOCK FALSE

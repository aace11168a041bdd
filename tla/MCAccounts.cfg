SPECIFICATION AccountsSpec
CONSTANTS
    c1 = c1
    c2 = c2
    n1 = n1
    n2 = n2
    x = x
    y = y
    Unused = Unused
    Tabs = {c1, c2}
    Servers = {n1, n2}
    MaxTokens = 4
    Legacy = {usdc, n1}
    Token22 = {n2, n3}
    MaxChanges = 1
    Calls = {c1, c2}
    Lot = 6
    Fee = 1
    Cash = 6
    Deposit = 6
    Take = 2
    Others = 1
    MaxRows = 2
    MaxRequests = 2
    Users = {x, y}
    Chats = {n1, n2}
    Hooks = {c1, c2}
    MaxLinks = 1
    MaxCodes = 2
    Buyers = {c1, c2}
    BudgetUsdt = 3
    MaxPerTx = 3
    MaxBuys = 4
    Reqs = {c1, c2}
    MaxAttempts = 2
    MaxFailed = 2
    MaxSent = 5
    Syncs = {c1, c2}
    Signals = {"BUY"}
    Keep = 1
    Day = 3
    AllocWindow = 1
    LastNow = 2
    MaxSyncs = 3
    AlertChats = {n1}
    Drains = {c1, c2}
    MaxAttempt = 1
    Milestones = {1, 2}
    TopProfit = 2
    MaxAlerts = 2
    MaxLots = 2
    Ticks = {n1}
    Desk = {n2}
    Bases = {x}
    Watch <- XUsdt
    MaxOrders = 3
    MaxTroubled = 2
INVARIANTS
    Types
    RowsTellTheTruth
    SumsAgree
    SpendsAtMost
    HidesAtMostOne
    StaysSignedIn
    LimitsHold
    LotIsBacked
    BuysPerCooldown
PROPERTY
    AlertsReachTheirOwner
SYMMETRY Alike
CHECK_DEADLOCK FALSE

SPECIFICATION DesksSpec
CONSTANTS
    Reqs = {q1}
    MaxRequests = 2
    Passes = {c1, c2}
    Pilots = {a1}
    MaxTradeUsd = 2
    MaxDailyTrades = 2
    MaxDailyVolumeUsd = 2
    MaxOpenPositions = 1
    PilotMaxOpen = 1
    LastDay = 2
    Runs = {c1, c2}
    Entry = 2
    TopMark = 4
    TakeProfit = 2
    StopLoss = 1
    Tight = 1
    Activation = 1
    Delta = 1
    MaxOpens = 2
    MaxSaves = 0
    Kept = 2
    MaxOrders = 3
    MaxLost = 1
    Endpoints = 2
    Steps = 2
    MaxTxs = 3
    MaxFaults = 1
    Engines = {"advanced", "timer"}
    MaxTrades = 3
    Page = 2
    Target = 4
    Keep = 5
    Recent = 2
    FirstNow = 5
    LastNow = 6
    c1 = c1
    c2 = c2
    Unused = Unused
INVARIANTS
    Types
    DailyCaps
    OpenCap
    RunsMatchSwitch
    PeakIsOwn
    SellsPerCooldown
    
    
PROPERTY
    GatesHold
SYMMETRY Alike
CHECK_DEADLOCK FALSE

SPECIFICATION Spec
CONSTANTS
    Reqs = {q1, q2}
    MaxRequests = 2
    Passes = {p1}
    Pilots = {a1}
    MaxTradeUsd = 1
    MaxDailyTrades = 1
    MaxDailyVolumeUsd = 1
    MaxOpenPositions = 1
    PilotMaxOpen = 1
    LastDay = 1
PROPERTY OnlyNamedFlips
CHECK_DEADLOCK FALSE

SPECIFICATION Spec
CONSTANTS
    Callers = {r1, r2}
    Funds = 2
    MaxLots = 2
    MaxAsks = 2
INVARIANT OpenRowsAreWatched
CHECK_DEADLOCK FALSE

SPECIFICATION FairBoth
CONSTANTS
    Orders = {o1}
    Syncers = {s1, s2}
    s1 = s1
    s2 = s2
    NoOrder = NoOrder
    Qty = 3
    t1 = t1
    w1 = w1
    x1 = x1
    x2 = x2
    NoTx = NoTx
    NoTransfer = NoTransfer
INVARIANTS
    TypeOK
    TerminalIsTrue
    RowTrailsExchange
PROPERTIES
    UnlinkedRejectionIsFinal
    SettlesOnExchange
    PendingIsEventuallyPaid
CHECK_DEADLOCK FALSE

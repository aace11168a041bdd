SPECIFICATION FairSpec
CONSTANTS
    Transfers = {t1}
    Workers = {w1}
    TxIds = {x1, x2}
    NoTx = NoTx
    NoTransfer = NoTransfer
    Gross = 2
    Fee = 1
    Inventory = 1
PROPERTIES
    FundedIsEventuallyPaid
CHECK_DEADLOCK FALSE

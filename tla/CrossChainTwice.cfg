SPECIFICATION Spec
CONSTANTS
    Transfers = {t1}
    Workers = {w1, w2}
    TxIds = {x1, x2, x3, x4}
    NoTx = NoTx
    NoTransfer = NoTransfer
    Gross = 2
    Fee = 1
    Inventory = 1
SYMMETRY Symmetric
INVARIANTS
    PaidAtMostOnce
CHECK_DEADLOCK FALSE

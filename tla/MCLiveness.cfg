SPECIFICATION FairSpec
CONSTANTS
    p1 = p1
    p2 = p2
    c1 = c1
    c2 = c2
    usdc = usdc
    a = a
    b = b
PROPERTIES
    ScansAgain
    GhostRowsClear
    PagesCatchUp
    RowCatchesUp
CHECK_DEADLOCK FALSE

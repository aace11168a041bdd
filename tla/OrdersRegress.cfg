SPECIFICATION Spec
CONSTANTS
    Orders = {o1}
    Syncers = {s1, s2}
    NoOrder = NoOrder
    Qty = 2
PROPERTIES
    FilledIsFinal
CHECK_DEADLOCK FALSE

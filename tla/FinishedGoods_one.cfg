SPECIFICATION Spec
CONSTANTS
    Orders = {o1, o2}
    SplitOrders = {o2}
    Ships = {s1, s2}
    Keepers = {c1}
    Shippers = {c1}
    Planners = {c1}
    Pieces = 2
    MaxQty = 2
    MaxReceipts = 2
    MayDie = FALSE
SYMMETRY Ids
CHECK_DEADLOCK FALSE
INVARIANT ShippedWithinStocked
INVARIANT FinishedStatusRight

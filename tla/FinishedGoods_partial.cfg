SPECIFICATION Spec
CONSTANTS
    Orders = {o1}
    SplitOrders = {o1}
    Ships = {s1}
    Keepers = {c1}
    Shippers = {c1}
    Planners = {c1}
    Pieces = 2
    MaxQty = 2
    MaxReceipts = 1
    MayDie = FALSE
SYMMETRY Ids
CHECK_DEADLOCK FALSE
INVARIANT OpenTicketsWorkOn

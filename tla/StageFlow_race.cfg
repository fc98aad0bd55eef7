SPECIFICATION Spec
CONSTANTS
    Tickets = {t1, t2, t3}
    Parent = parent
    Clients = {c1}
    Opens = {1}
    OrderQty = 3
    MaxEntries = 2
    Revisions = 1
    Alone = FALSE
    Corrections = FALSE
    Skips = FALSE
SYMMETRY Ids
CHECK_DEADLOCK FALSE
 
PROPERTY ConfirmedStays

SPECIFICATION Spec
CONSTANTS
    Stones = {m1}
    Metals = {g1}
    Rows = {r1, r2}
    Tickets = {t1}
    Holds = {h1}
    Wishes = {}
    Clients = {c1}
    MaxQty = 2
    Opening = 2
    Office = TRUE
    Corrections = TRUE
SYMMETRY Ids
CHECK_DEADLOCK FALSE
INVARIANT LedgerAgrees
INVARIANT TransfersWhole

SPECIFICATION Spec
CONSTANTS
    Stones = {m1}
    Metals = {}
    Rows = {r1}
    Tickets = {t1, t2}
    Holds = {h1, h2}
    Wishes = {w1}
    Clients = {c1, c2}
    MaxQty = 2
    Opening = 2
    Office = FALSE
    Corrections = FALSE
SYMMETRY Ids
CHECK_DEADLOCK FALSE
INVARIANT StoneTypeOK
 
INVARIANT HoldsBacked
 

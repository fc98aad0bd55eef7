SPECIFICATION Spec
CONSTANTS
    Tickets = {t1, t2}
    Parent = parent
    Clients = {c1}
    Opens = {1, 4}
    OrderQty = 2
    MaxEntries = 2
    Revisions = 0
    Alone = TRUE
    Corrections = TRUE
    Skips = TRUE
SYMMETRY Ids
CHECK_DEADLOCK FALSE
INVARIANT StageTypeOK
INVARIANT OneStageAtATime
INVARIANT WorkIsVisible
INVARIANT PiecesAddUp
INVARIANT ListsTellTruth

SPECIFICATION CastingSpec
CONSTANTS
    Orders = {o1}
    Clients = {c1, c2}
    Ops = {"approve", "reject", "attachModel3d", "submitProductSpecs",
           "waxPrintBatch", "confirmWarehouseSpecs", "submitCastingTreeSpecs",
           "remove", "changeStatus", "updateCasting", "removeProduction"}
    ManualTargets = {"NEW", "DEFECT"}
    Slips = {s1, s2}
    NoSlip = NoSlip
    Workers = {w1}
    NoWorker = NoWorker
    Keepers = {k1}
    Issued = {2}
    Used = {2}
    Trees = {1, 2}
    Rests = {0, 1}
    Blanks = {1, 2}
SYMMETRY Ids
CHECK_DEADLOCK FALSE
INVARIANTS
    CastingStatusBacked
    
PROPERTIES
    SlipNeverTakenBack

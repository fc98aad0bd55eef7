SPECIFICATION CastingSpec
CONSTANTS
    Orders = {o1, o2}
    Clients = {c1}
    Ops = {"approve", "submitProductSpecs", "confirmWarehouseSpecs"}
    ManualTargets = {}
    Slips = {s1, s2, s3}
    NoSlip = NoSlip
    Workers = {w1, w2}
    NoWorker = NoWorker
    Keepers = {k1, k2}
    Issued = {2}
    Used = {2}
    Trees = {2}
    Rests = {0}
    Blanks = {1}
SYMMETRY Ids
CHECK_DEADLOCK FALSE
INVARIANTS
    OneSlipPerOrder
    CutTogetherOnce
    MetalDrawnOnce
    RedoFamily
PROPERTIES
    ImplementsBatch

SPECIFICATION Spec
CONSTANTS
    Orders = {o1, o2, o3}
    Clients = {c1}
    Ops = {"approve", "reject", "attachModel3d", "submitProductSpecs",
           "waxPrintBatch", "confirmWarehouseSpecs", "submitCastingTreeSpecs",
           "remove", "changeStatus", "updateCasting", "removeProduction"}
    ManualTargets = {"NEW", "REDO_3D", "DEFECT"}
SYMMETRY Ids
CHECK_DEADLOCK FALSE
INVARIANTS
    
    MoldDecidesWaxPath

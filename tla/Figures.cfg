SPECIFICATION Spec
CONSTANTS
    Routes <- RoutesV
    TicketQty = 2
    Blanks <- BlanksV
    Weighings = {3}
    Recoveries <- RecoveriesV
    MaxMetal = 4
    MaxScrap = 1
    BagLabels <- LabelsV
    MaxBags = 2
    MaxEarly = 2
    Stones <- StonesV
    SetFigures <- SetFiguresV
    Revisions = 1
    RevisedGrams = 2
    LastDay = 1
    Openings <- OpeningsV
    Receipts <- ReceiptsV
    IssueQtys = {2}
    MaxInbounds = 2
    MaxOutbounds = 2
CHECK_DEADLOCK FALSE
INVARIANT FiguresTypeOK
INVARIANT LossNeverNegative
INVARIANT StonesAddUp
INVARIANT ChainBalances
INVARIANT ReportAgrees
INVARIANT LayersAreTheStock
PROPERTY ReportedStays
PROPERTY EmptiedBagWeighsLittle

SPECIFICATION MCSpec
CONSTANTS
    NoKey = NoKey
    Clients = {c1, c2}
    Keys = {k1, k2}
    KeepsKey = TRUE
    HasEntities = TRUE
    ClockSteps <- Forward
    MaxRows = 3
    MaxTime = 2
    Nodes = {"node"}
    MaxWall = 1
    Levels = {"poison_likely", "clean"}
    Scores = {"high"}
    Epochs = {1, 2}
    Seeds = {s1}
    NoSeed = NoSeed
    MayReplace = FALSE
    MaxRecords = 2
    Repairers = {"repairer"}
    Graphs <- FewGraphs
    rowA = rowA
    rowB = rowB
    rowX = rowX
    Rows = {rowA, rowB, rowX}
    NoRow = NoRow
    InOrder = TRUE
    MaxRepairs = 2
    MaxUpsets = 1
    Facts = {f1, f2}
    Values = {v1, v2}
    Rejections = {TRUE, FALSE}
    Whole = FALSE
    MaxCalls = 4
    MaxCopies = 1
INVARIANTS
    CanaryMeansKeyed LinksResolve FreshChainVerifiesAlone
    LedgerReplays LabelIsSigned ReversalRestores FaultContained ErasureHolds
SYMMETRY Symmetry
CHECK_DEADLOCK FALSE

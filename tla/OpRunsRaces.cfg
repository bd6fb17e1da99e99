CONSTANTS
    Conns = {c1, c2}
    Runs = {r1, r2}
    Items = {i1}
    NoRun = NoRun
    NoItem = NoItem
    RetryArgs <- EdgeRetries
    ProgressArgs <- NoProgress
    Calls <- RaceCalls
SPECIFICATION Spec
SYMMETRY Symmetry
INVARIANTS RetryChainsBounded ReceiptsInLineage NoOrphanItems
PROPERTY PrunesOnlyTerminal
CHECK_DEADLOCK FALSE

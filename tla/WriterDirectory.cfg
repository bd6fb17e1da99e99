SPECIFICATION Spec
CONSTANTS
    c1 = c1
    c2 = c2
    x = x
    y = y
    NoAgent = NoAgent
    Everyone = Everyone
    Nobody = Nobody
    Conns <- TwoConns
    Agents <- TwoAgents
    LifecycleCap = 2
    MaxEpoch = 3
    RestoreSizes <- Sizes
INVARIANT LifecycleExplainsRow
PROPERTY ImplementsFencedWriter
SYMMETRY Symmetry
CHECK_DEADLOCK FALSE

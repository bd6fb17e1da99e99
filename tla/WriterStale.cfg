SPECIFICATION Spec
CONSTANTS
    c1 = c1
    c2 = c2
    x = x
    y = y
    NoAgent = NoAgent
    Everyone = Everyone
    Nobody = Nobody
    Conns <- TwoConns
    Agents <- OneAgent
    LifecycleCap = 2
    MaxEpoch = 2
    RestoreSizes <- Single
PROPERTY StaleWritesRefused
CHECK_DEADLOCK FALSE

CONSTANTS
    Conns = {c1}
    Runs = {r1, r2}
    Items = {i1}
    NoRun = NoRun
    NoItem = NoItem
    RetryArgs <- OneRetry
    ProgressArgs <- SomeProgress
    Calls <- AllCalls
SPECIFICATION Spec
SYMMETRY Symmetry
PROPERTY ImplementsLifecycle
CHECK_DEADLOCK FALSE

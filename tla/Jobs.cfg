CONSTANTS
    i1 = i1
    Conns = {c1, c2}
    Runs = {r1, r2}
    Items = {i1, i2}
    NoRun = NoRun
    NoItem = NoItem
    RetryArgs <- NoArgs
    ProgressArgs <- NoArgs
    Calls <- NoCalls
    ErrorRefs <- OneError
    MaxCrashes = 2
    t1 = t1
    t2 = t2
    Threads = {t1, t2}
    NoThread = NoThread
    Processes = {1}
    Home <- Together
    Attempts = 2
    MaxCalls = 3
    MaxStops = 1
SPECIFICATION MCSpec
INVARIANTS HolderHonest PausesReported
PROPERTY TrackedRunsSettle
CHECK_DEADLOCK FALSE

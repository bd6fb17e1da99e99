CONSTANTS
    Rows = {r1}
    Bodies = {b1, b2}
    Hints = {h1, h2}
    b1 = b1
    b2 = b2
    Repairs <- OneRepair
    NoBody = NoBody
    Nothing = Nothing
    Writers = {w1, w2}
    Flushers = {f1}
    Embedders = {e1}
    QueueCap = 1
    BatchMax = 2
    MayPanic = TRUE
    MaxWrites = 3
SPECIFICATION Spec
INVARIANTS
    PendingAccurate
    NoLostWakeup
    QueuedVectorsFresh
    JobOrExcuse
PROPERTY ShutdownDrains
CHECK_DEADLOCK FALSE

SPECIFICATION MCSpec
CONSTANTS
    b1 = b1
    b2 = b2
    Digest = Digest
    Clients = {c1, c2}
    Workspaces = {0, 1}
    Texts = {b1, b2}
    Ops = {"remember", "supersede", "invalidate", "forget", "purge", "retain"}
    Writes <- Either
    Closings <- Default
    Policies <- Emptying
    ClockSteps <- Wandering
    MaxTime = 3
    MaxIds = 3
INVARIANTS WindowsPositive PeriodsForward NoOrphansAlone
SYMMETRY Symmetry
CHECK_DEADLOCK FALSE

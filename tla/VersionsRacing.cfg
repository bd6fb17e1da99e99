SPECIFICATION RacingSpec
CONSTANTS
    b1 = b1
    b2 = b2
    Digest = Digest
    Clients = {c1, c2}
    Workspaces = {0}
    Texts = {b1, b2}
    Ops = {"remember", "supersede", "retain", "audit", "refuse", "confirm"}
    Writes <- Raced
    Closings <- Default
    Policies <- Rolling
    ClockSteps <- Forward
    MaxTime = 3
    MaxIds = 1
INVARIANT Partition
INVARIANT TemporalReadsAgree
PROPERTY PastKept
SYMMETRY Symmetry
CHECK_DEADLOCK FALSE

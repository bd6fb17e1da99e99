SPECIFICATION MCSpec
CONSTANTS
    Agent = agent
    Anchors = {anchor}
    Nobody = Nobody
    NoAction = NoAction
    Keys = {k}
    Conns = {c1, c2, c3}
    Approvers = {p}
    Actions = {a1}
    Leases = {l1, l2}
    Holders = {h1}
    Outcomes = {"action_executed", "action_failed", "action_denied"}
    MaxVersion = 1
    MaxRevocations = 1
    MaxTime = 1
    Ttls = {1, 2}
    MaxInt = 100
    Calls <- AllCalls
INVARIANTS ExecutionWasGranted LeaseExclusive
PROPERTIES PolicyDenialIsFinal AuthorityHeldAtCommit
SYMMETRY Symmetry
CHECK_DEADLOCK FALSE

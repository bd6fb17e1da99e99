SPECIFICATION MCSpec
CONSTANTS
    Conns = {c1, c2}
    Keys = {k1, k2, k3}
    Requests <- AnyRequest
    Policy <- StrictThenOpen
    MaxHistory = 2
    MaxVersion = 2
    MaxTransitions = 3
    Specs = {s1, s2}
    Entities = {e1}
    MaxSequence = 3
    MaxRevision = 1
INVARIANTS LedgerSound NoSendAfterRead
PROPERTY TaskStateImplementsRegister
SYMMETRY Symmetry
CHECK_DEADLOCK FALSE

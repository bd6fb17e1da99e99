SPECIFICATION MCSpec
CONSTANTS
    MaxRequests = 4
    MaxImages = 3
    Conns = {c1, c2, c3}
    MaxSessions = 1
    Capacity = 1
    MaxIds = 2
    MaxSent = 2
INVARIANTS OneExchange CallsAreAttributed StreamsComplete
PROPERTY EveryRequestAnswered
CHECK_DEADLOCK FALSE

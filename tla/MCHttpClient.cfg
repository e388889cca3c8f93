\* Two calls: one can be sent from the other's callback, and reuse its connection.
SPECIFICATION FairSpec
CONSTANTS
    c1 = c1
    c2 = c2
    Calls = {c1, c2}
    Requests <- MCRequests
    Cancelled = {c1}
    Schemes = {TRUE}
    NoConn = NoConn
    max_idle_per_host = 1
INVARIANTS
    TypeOK
    OneContinuation
    AtMostOnce
    OwnAnswer
PROPERTIES
    Completes

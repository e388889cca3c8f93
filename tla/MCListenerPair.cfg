\* Two connections and one stop(), see Pair.
SPECIFICATION Spec
CONSTANTS
    Connections = {c1, c2}
    NoConnection = NoConnection
    Modes = {"plain", "ssl"}
    MaxStops = 1
SYMMETRY Symmetry
CONSTRAINT Pair
INVARIANTS
    StopSparesRequests
    StopMissesNone
    KeepAliveClosed

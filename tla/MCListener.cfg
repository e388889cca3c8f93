\* One connection on every kind of listener, stop() called twice.
SPECIFICATION FairSpec
CONSTANTS
    Connections = {c1}
    NoConnection = NoConnection
    Modes = {"plain", "ssl", "both"}
    MaxStops = 2
INVARIANTS
    TypeOK
    OneContinuation
    AcceptLoop
PROPERTIES
    ServerStops

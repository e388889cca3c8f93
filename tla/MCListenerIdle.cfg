\* Expected violation: a stop() between add() and on_run() is lost.
SPECIFICATION Spec
CONSTANTS
    Connections = {c1}
    NoConnection = NoConnection
    Modes = {"plain"}
    MaxStops = 1
INVARIANTS
    IdleClosed

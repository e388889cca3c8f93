\* Two bits of IPv4 in three of IPv6.
SPECIFICATION Spec
CONSTANTS
    Width4 = 2
    Width6 = 3
    Mapped = 1
    NoAddress = NoAddress
    OddLabels = {"a@"}
    NoOrigin = NoOrigin
    NoTarget = NoTarget
    NoRequest = NoRequest
    Tables <- MCTables
    Globals <- MCGlobals
    Options <- MCOptions
    Custom = TRUE
    Requests <- MCRequests
    Updates <- MCUpdates
    Around <- MCAround
INVARIANTS
    TrueClient
    RightRoute
    Answered
    CorsAnswer
PROPERTIES
    InOrder

\* Three events: two messages on one connection, so that one waits while the
\* other is written or arrives while we close; or two accepted handshakes and a
\* message, which can outlive its connection.
SPECIFICATION FairSpec
CONSTANTS
    Requests <- MCRequests
    Senders = {s1}
    send_queue_limit = 2
    max_attempts = 1
    initial_delay = 2
    max_delay = 3
    MaxEvents = 3
    MaxCloses = 1
    MaxOpens = 2
INVARIANTS
    TypeOK
    OneContinuation
    PendingExact
    OneWriteLoop
    CallbackOrder
PROPERTIES
    CloseIsFinal

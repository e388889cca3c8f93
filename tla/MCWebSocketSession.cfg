\* A queue of two with three messages overflows while a write is outstanding.
SPECIFICATION FairSpec
CONSTANTS
    websocket_send_queue_limit = 2
    MaxSends = 3
    MaxMessages = 1
    MaxCloses = 1
INVARIANTS
    TypeOK
    PendingExact
    OneLoopEach
    CallbackOrder
PROPERTIES
    EndsReported

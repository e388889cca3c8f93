\* A queue of one: the second message overflows it while the first is written.
SPECIFICATION Spec
CONSTANTS
    websocket_send_queue_limit = 1
    MaxSends = 3
    MaxMessages = 0
    MaxCloses = 0
INVARIANTS
    WrittenWithoutGap

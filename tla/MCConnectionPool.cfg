\* Three threads and two slots, one kept warm: handles outlive the calls, so all
\* three threads can wait at once, time out and be served while connections are
\* in any phase of their life.  A third connection exists only if the pool
\* opens too many.  No symmetry: liveness is checked.
SPECIFICATION FairSpec
CONSTANTS
    Threads = {t1, t2, t3}
    Conns = {c1, c2, c3}
    NoConn = NoConn
    min_size = 1
    max_size = 2
    HasMaxIdle = TRUE
    HasValidate = TRUE
INVARIANTS
    TypeOK
    SlotsAccounted
    LiveBounded
    OneOwner
    WaitersMeanFull
    ClosedIsEmpty
PROPERTIES
    ServedOrDrained
    ServesInOrder

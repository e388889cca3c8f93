\* Two threads acquire two idle connections at the same time.
SPECIFICATION ExpirySpec
CONSTANTS
    Threads = {t1, t2}
    Conns = {c1, c2}
    NoConn = NoConn
    min_size = 1
    max_size = 2
    HasMaxIdle = TRUE
    HasValidate = FALSE
INVARIANTS
    ExpiryKeepsMinSize

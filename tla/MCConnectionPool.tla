-------------------------- MODULE MCConnectionPool --------------------------
(***************************************************************************)
(* Model-checking instances of ConnectionPool.                             *)
(***************************************************************************)
EXTENDS ConnectionPool

(***************************************************************************)
(* Expiry on its own: nothing but max_idle closes a connection (every      *)
(* factory call and check succeeds, nothing is discarded, no close()).     *)
(***************************************************************************)
ExpiryStep(t) ==
    \/ CallAcquire(t) \/ AcquireIdle(t) \/ AcquireRoom(t) \/ AcquireWait(t)
    \/ WakeConnection(t) \/ WakeMayOpen(t) \/ Usable(t) \/ Expired(t)
    \/ CloseChecked(t) \/ RetryDrop(t) \/ (\E c \in Conns : FactoryOk(t, c))

ExpiryNext ==
    \/ \E t \in Threads : ExpiryStep(t)
    \/ \E c \in Conns : Release(c)

ExpirySpec == Init /\ [][ExpiryNext]_vars

\* "Idle connections above min_size are closed after this long": max_idle
\* never closes a connection the pool needs to keep min_size of them.
ExpiryKeepsMinSize ==
    LET expiring == {t \in Threads : pc[t] = "expired"}
    IN  expiring # {} => open_ - Cardinality(expiring) >= min_size

=============================================================================
